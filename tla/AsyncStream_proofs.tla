------------------------ MODULE AsyncStream_proofs ------------------------
(***************************************************************************)
(* Theorems about AsyncStream: requests are served in order and each       *)
(* handler runs once with the result due, for any number of requests,      *)
(* messages and calls, any interleaving of thread U, thread W and the      *)
(* destructor; and the receiving adapter implements OrderedCompletions.    *)
(***************************************************************************)
EXTENDS AsyncStream, SequenceTheorems, TLAPS

-----------------------------------------------------------------------------
(* The inductive invariant.                                                *)

Aborting == {"abortHead", "abortQueue", "abortSnd", "gone"}

(* What is over once the destructor has stopped thread W, and what is there*)
(* for a handler that it runs.                                             *)
PhaseControl ==
  /\ phase \in Aborting => posted = <<>> /\ ~looping /\ ~inTask
  /\ phase = "abortHead" /\ inHandler => userRequest # NoRequest
  /\ phase = "abortQueue" => userRequest # NoRequest
  /\ phase = "abortQueue" /\ inHandler => pendingUserRequests # <<>>
  /\ phase = "abortSnd" /\ inHandler => onDoneFunc # NoFunc
  /\ phase = "gone" => ~inHandler

(* The head slot is filled first, and the core and the loop are at work    *)
(* only for the request in it.                                             *)
SlotControl ==
  /\ userRequest = NoRequest => pendingUserRequests = <<>> /\ ~looping /\ ~coreBusy
  /\ phase \notin {"abortQueue", "abortSnd", "gone"} /\ userRequest # NoRequest =>
       userRequest = issued - Len(pendingUserRequests)
  /\ \A i \in 1 .. Len(pendingUserRequests) :
       pendingUserRequests[i] = issued - Len(pendingUserRequests) + i
  /\ Len(pendingUserRequests) <= issued

HeadCount == IF userRequest = NoRequest THEN 0 ELSE 1
Served == issued - Len(pendingUserRequests) - HeadCount

(* Handlers that ran, one after another from request 1.                    *)
RanControl ==
  /\ \A i \in 1 .. Len(Ran) : Ran[i].side = "rcv" /\ Ran[i].call = i
  /\ phase = "abortHead" => Len(Ran) = Served + (IF inHandler THEN 1 ELSE 0)
  /\ phase = "abortQueue" =>
       Len(Ran) = issued - Len(pendingUserRequests) + (IF inHandler THEN 1 ELSE 0)
  /\ phase \in {"abortSnd", "gone"} => Len(Ran) = issued

(* A queue of posted handlers holds those of requests lo + 1 to hi, in     *)
(* order, among handlers of the other side.                                *)
IsRcv(task) == task.completion.side = "rcv"
InOrder(tasks, lo, hi) ==
  /\ lo <= hi
  /\ \A i \in 1 .. Len(tasks) :
       IsRcv(tasks[i]) => lo < tasks[i].completion.call /\ tasks[i].completion.call <= hi
  /\ \A c \in lo + 1 .. hi :
       \E i \in 1 .. Len(tasks) : IsRcv(tasks[i]) /\ tasks[i].completion.call = c
  /\ \A i, j \in 1 .. Len(tasks) :
       IsRcv(tasks[i]) /\ IsRcv(tasks[j]) /\ i < j =>
         tasks[i].completion.call < tasks[j].completion.call

(* Handlers posted: those of the requests answered and not yet run.        *)
PostedControl == BeforeAborts => InOrder(posted, Len(Ran), Served)

(* Requests up to the last message have one, and those after it fail.      *)
Due(call) == IF call <= received THEN call ELSE Failed
ResultControl ==
  BeforeAborts =>
    /\ received <= Served /\ (~coreErr => received = Served)
    /\ \A i \in 1 .. Len(posted) :
         IsRcv(posted[i]) => posted[i].completion.res = Due(posted[i].completion.call)
    /\ \A i \in 1 .. Len(Ran) : Ran[i].res = Due(i)

RcvControl ==
  SlotControl /\ RanControl /\ PostedControl /\ ResultControl

(* The handler of an accepted call is in one of three places.              *)
SndRan == done["snd"]
IsPosted(i, side) == posted[i].completion.side = side
PostedCall(i) == posted[i].completion.call
InPosted(f) == \E i \in 1 .. Len(posted) : IsPosted(i, "snd") /\ PostedCall(i) = f
InRan(f) == \E i \in 1 .. Len(SndRan) : SndRan[i].call = f
SavedHandlerRan == (phase = "abortSnd" /\ inHandler) \/ phase = "gone"
SndControl ==
  /\ \A f \in accepted : f <= calls
  /\ onDoneFunc # NoFunc => onDoneFunc \in accepted
  /\ \A i \in 1 .. Len(posted) : IsPosted(i, "snd") => PostedCall(i) \in accepted
  /\ \A i \in 1 .. Len(SndRan) : SndRan[i].call \in accepted
  /\ \A f \in accepted : onDoneFunc = f \/ InPosted(f) \/ InRan(f)
  /\ onDoneFunc # NoFunc => ~InPosted(onDoneFunc)
  /\ onDoneFunc # NoFunc /\ ~SavedHandlerRan => ~InRan(onDoneFunc)
  /\ SavedHandlerRan => onDoneFunc = NoFunc \/ InRan(onDoneFunc)
  /\ \A i \in 1 .. Len(posted) : IsPosted(i, "snd") => ~InRan(PostedCall(i))
  /\ \A i, j \in 1 .. Len(posted) :
       IsPosted(i, "snd") /\ IsPosted(j, "snd") /\ PostedCall(i) = PostedCall(j) => i = j
  /\ \A i, j \in 1 .. Len(SndRan) : SndRan[i].call = SndRan[j].call => i = j
  /\ coreFlushing => coreFinished /\ (coreKeepsHandler => onDoneFunc # NoFunc)

IInv == TypeOK /\ PhaseControl /\ RcvControl /\ SndControl

-----------------------------------------------------------------------------
(* What the steps do to the posted handlers.                               *)

TaskSet == [completion : CompletionSet, more : BOOLEAN]
Assumptions == MaxRequests \in Nat /\ MaxMessages \in Nat /\ MaxCalls \in Nat

(* The constants are numbers.                                              *)
LEMMA Constants == Assumptions
BY MaxRequestsAssumption, MaxMessagesAssumption, MaxCallsAssumption DEF Assumptions

(* A handler of a receive, with a result it may have, is of the right type.*)
LEMMA RcvTask ==
  ASSUME NEW call \in 1 .. MaxRequests,
         NEW res \in 1 .. MaxMessages \cup {Failed, Aborted}, NEW more \in BOOLEAN
  PROVE  /\ Completion("rcv", call, res) \in CompletionSet
         /\ Task(Completion("rcv", call, res), more) \in TaskSet
BY DEF Completion, Task, CompletionSet, TaskSet

(* And so is one of an end of sending.                                     *)
LEMMA SndTask ==
  ASSUME NEW call \in Func, NEW res \in {Flushed, Failed, Aborted}, NEW more \in BOOLEAN
  PROVE  /\ Completion("snd", call, res) \in CompletionSet
         /\ Task(Completion("snd", call, res), more) \in TaskSet
BY DEF Completion, Task, CompletionSet, TaskSet

(* One task of thread W answers the head request and those behind it.      *)
LEMMA CompletionsOf ==
  ASSUME NEW head \in 1 .. MaxRequests, NEW queue \in Seq(1 .. MaxRequests),
         NEW res \in 1 .. MaxMessages \cup {Failed, Aborted}
  PROVE  LET cs == Completions(head, queue, res)
         IN  /\ cs \in Seq(TaskSet) /\ Len(cs) = 1 + Len(queue)
             /\ cs[1].completion = Completion("rcv", head, res)
             /\ \A i \in 1 .. Len(queue) : cs[i + 1].completion = Completion("rcv", queue[i], res)
<1> DEFINE requests == <<head>> \o queue
           cs == Completions(head, queue, res)
<1>1. requests \in Seq(1 .. MaxRequests) /\ Len(requests) = 1 + Len(queue)
  OBVIOUS
<1>2. requests[1] = head /\ \A i \in 1 .. Len(queue) : requests[i + 1] = queue[i]
  OBVIOUS
<1>3. cs = [i \in 1 .. Len(requests) |-> Task(Completion("rcv", requests[i], res), i < Len(requests))]
  BY DEF Completions
<1> HIDE DEF requests, cs
<1>4. \A i \in 1 .. Len(requests) :
        Task(Completion("rcv", requests[i], res), i < Len(requests)) \in TaskSet
  <2> TAKE i \in 1 .. Len(requests)
  <2>1. requests[i] \in 1 .. MaxRequests
    BY <1>1, ElementOfSeq
  <2>2. (i < Len(requests)) \in BOOLEAN
    OBVIOUS
  <2> QED
    BY <2>1, <2>2, RcvTask
<1>5. cs \in Seq(TaskSet) /\ Len(cs) = Len(requests)
  <2>1. cs \in [1 .. Len(requests) -> TaskSet]
    BY <1>3, <1>4
  <2>2. Len(requests) \in Nat
    BY <1>1, LenProperties
  <2> QED
    BY <2>1, <2>2
<1>6. \A i \in 1 .. Len(requests) : cs[i].completion = Completion("rcv", requests[i], res)
  BY <1>3 DEF Task
<1>7. 1 \in 1 .. Len(requests) /\ \A i \in 1 .. Len(queue) : i + 1 \in 1 .. Len(requests)
  BY <1>1
<1> QED
  BY <1>1, <1>2, <1>5, <1>6, <1>7 DEF cs


(* Facts about joined sequences in the form used below.                    *)
LEMMA Joined ==
  ASSUME NEW S, NEW s \in Seq(S), NEW u \in Seq(S)
  PROVE  /\ s \o u \in Seq(S)
         /\ Len(s) \in Nat /\ Len(u) \in Nat /\ Len(s \o u) = Len(s) + Len(u)
         /\ \A i \in 1 .. Len(s) : (s \o u)[i] = s[i]
         /\ \A i \in 1 .. Len(u) : (s \o u)[Len(s) + i] = u[i]
         /\ \A i \in 1 .. Len(s \o u) :
              i \in 1 .. Len(s) \/ \E k \in 1 .. Len(u) : i = Len(s) + k
<1>1. Len(s) \in Nat /\ Len(u) \in Nat
  BY LenProperties
<1>2. /\ s \o u \in Seq(S) /\ Len(s \o u) = Len(s) + Len(u)
      /\ \A i \in 1 .. Len(s) + Len(u) :
           (s \o u)[i] = IF i <= Len(s) THEN s[i] ELSE u[i - Len(s)]
  BY ConcatProperties
<1> DEFINE su == s \o u
           m == Len(s)
           n == Len(u)
<1>3. /\ m \in Nat /\ n \in Nat /\ Len(su) = m + n
      /\ \A i \in 1 .. m + n : su[i] = IF i <= m THEN s[i] ELSE u[i - m]
  BY <1>1, <1>2
<1> HIDE DEF su, m, n
<1>4. \A i \in 1 .. m : su[i] = s[i]
  BY <1>3
<1>5. \A i \in 1 .. n : su[m + i] = u[i]
  BY <1>3
<1>6. \A i \in 1 .. Len(su) : i \in 1 .. m \/ \E k \in 1 .. n : i = m + k
  <2> TAKE i \in 1 .. Len(su)
  <2>1. CASE i > m
    <3>1. i - m \in 1 .. n /\ i = m + (i - m)
      BY <2>1, <1>3
    <3> QED
      BY <3>1
  <2>2. CASE i <= m
    BY <2>2, <1>3
  <2> QED
    BY <2>1, <2>2, <1>3
<1> QED
  BY <1>2, <1>3, <1>4, <1>5, <1>6 DEF su, m, n

(* The call of a handler of a receive is a number.                         *)
LEMMA CallIsNumber ==
  ASSUME NEW tasks \in Seq(TaskSet)
  PROVE  /\ Len(tasks) \in Nat
         /\ \A i \in 1 .. Len(tasks) : IsRcv(tasks[i]) => tasks[i].completion.call \in Int
<1>1. Len(tasks) \in Nat
  BY LenProperties
<1>2. ASSUME NEW i \in 1 .. Len(tasks), IsRcv(tasks[i]) PROVE tasks[i].completion.call \in Int
  <2>1. tasks[i] \in TaskSet
    BY ElementOfSeq
  <2> QED
    BY <1>2, <2>1 DEF IsRcv, TaskSet, CompletionSet
<1> QED
  BY <1>1, <1>2

(* The order goes on when the next requests in turn are posted.            *)
LEMMA OrderExtends ==
  ASSUME NEW tasks \in Seq(TaskSet), NEW more \in Seq(TaskSet),
         NEW lo \in Nat, NEW hi \in Nat, InOrder(tasks, lo, hi),
         \A i \in 1 .. Len(more) : IsRcv(more[i]) /\ more[i].completion.call = hi + i
  PROVE  InOrder(tasks \o more, lo, hi + Len(more))
<1> DEFINE both == tasks \o more
           m == Len(tasks)
           n == Len(more)
           Call(i) == both[i].completion.call
           OfRcv(i) == IsRcv(both[i])
<1>1. m \in Nat /\ n \in Nat /\ Len(both) = m + n
  BY Joined
<1>2. \A i \in 1 .. m : both[i] = tasks[i]
  BY Joined
<1>3. \A i \in 1 .. n : OfRcv(m + i) /\ Call(m + i) = hi + i
  <2>1. \A i \in 1 .. n : both[m + i] = more[i]
    BY Joined
  <2> QED
    BY <2>1
<1>4. /\ lo <= hi
      /\ \A i \in 1 .. m : OfRcv(i) => Call(i) \in Int /\ lo < Call(i) /\ Call(i) <= hi
      /\ \A c \in lo + 1 .. hi : \E i \in 1 .. m : OfRcv(i) /\ Call(i) = c
      /\ \A i, j \in 1 .. m : OfRcv(i) /\ OfRcv(j) /\ i < j => Call(i) < Call(j)
  BY <1>2, CallIsNumber DEF InOrder
<1>5. \A i \in 1 .. m + n : i \in 1 .. m \/ (i - m \in 1 .. n /\ i = m + (i - m))
  BY <1>1
<1> HIDE DEF both, m, n, Call, OfRcv
<1>6. \A i \in 1 .. m + n : OfRcv(i) => lo < Call(i) /\ Call(i) <= hi + n
  <2> SUFFICES ASSUME NEW i \in 1 .. m + n, OfRcv(i) PROVE lo < Call(i) /\ Call(i) <= hi + n
    OBVIOUS
  <2>1. CASE i \in 1 .. m
    BY <2>1, <1>1, <1>4
  <2>2. CASE i - m \in 1 .. n /\ i = m + (i - m)
    <3>1. Call(i) = hi + (i - m)
      BY <2>2, <1>3
    <3> QED
      BY <2>2, <3>1, <1>1, <1>4
  <2> QED
    BY <2>1, <2>2, <1>5
<1>7. \A c \in lo + 1 .. hi + n : \E i \in 1 .. m + n : OfRcv(i) /\ Call(i) = c
  <2> TAKE c \in lo + 1 .. hi + n
  <2>1. CASE c <= hi
    <3>1. PICK i \in 1 .. m : OfRcv(i) /\ Call(i) = c
      BY <2>1, <1>4
    <3>2. i \in 1 .. m + n
      BY <1>1
    <3> QED
      BY <3>1, <3>2
  <2>2. CASE c > hi
    <3>1. c - hi \in 1 .. n /\ m + (c - hi) \in 1 .. m + n
      BY <2>2, <1>1
    <3>2. OfRcv(m + (c - hi)) /\ Call(m + (c - hi)) = hi + (c - hi)
      BY <3>1, <1>3
    <3> QED
      BY <3>1, <3>2
  <2> QED
    BY <2>1, <2>2
<1>8. \A i, j \in 1 .. m + n : OfRcv(i) /\ OfRcv(j) /\ i < j => Call(i) < Call(j)
  <2> SUFFICES ASSUME NEW i \in 1 .. m + n, NEW j \in 1 .. m + n, OfRcv(i), OfRcv(j), i < j
               PROVE  Call(i) < Call(j)
    OBVIOUS
  <2>1. CASE i \in 1 .. m /\ j \in 1 .. m
    BY <2>1, <1>4
  <2>2. CASE i \in 1 .. m /\ j - m \in 1 .. n /\ j = m + (j - m)
    <3>1. Call(j) = hi + (j - m) /\ Call(i) <= hi /\ Call(i) \in Int
      BY <2>2, <1>3, <1>4
    <3> QED
      BY <2>2, <3>1, <1>1
  <2>3. CASE i - m \in 1 .. n /\ i = m + (i - m) /\ j - m \in 1 .. n /\ j = m + (j - m)
    <3>1. Call(j) = hi + (j - m) /\ Call(i) = hi + (i - m)
      BY <2>3, <1>3
    <3> QED
      BY <2>3, <3>1, <1>1
  <2>4. i \in 1 .. m \/ j \notin 1 .. m
    BY <1>1
  <2> QED
    BY <2>1, <2>2, <2>3, <2>4, <1>5
<1>9. lo <= hi + n
  BY <1>1, <1>4
<1> QED
  BY <1>1, <1>6, <1>7, <1>8, <1>9 DEF InOrder, both, m, n, Call, OfRcv

(* The order of the receives is not touched by what the other side posts.  *)
LEMMA OrderIgnores ==
  ASSUME NEW tasks \in Seq(TaskSet), NEW more \in Seq(TaskSet),
         NEW lo \in Nat, NEW hi \in Nat, InOrder(tasks, lo, hi),
         \A i \in 1 .. Len(more) : ~IsRcv(more[i])
  PROVE  InOrder(tasks \o more, lo, hi)
<1> DEFINE both == tasks \o more
           m == Len(tasks)
           n == Len(more)
<1>1. m \in Nat /\ n \in Nat /\ Len(both) = m + n
  BY Joined
<1>2. \A i \in 1 .. m : both[i] = tasks[i] /\ i \in 1 .. m + n
  BY Joined, <1>1
<1>3. \A i \in 1 .. Len(both) : IsRcv(both[i]) => i \in 1 .. m
  <2> SUFFICES ASSUME NEW i \in 1 .. Len(both), i \notin 1 .. m PROVE ~IsRcv(both[i])
    OBVIOUS
  <2>1. PICK k \in 1 .. n : i = m + k
    BY Joined
  <2>2. both[i] = more[k]
    BY <2>1, Joined
  <2> QED
    BY <2>2
<1> HIDE DEF both, m, n
<1>4. /\ lo <= hi
      /\ \A i \in 1 .. m : IsRcv(both[i]) =>
           lo < both[i].completion.call /\ both[i].completion.call <= hi
      /\ \A c \in lo + 1 .. hi : \E i \in 1 .. m : IsRcv(both[i]) /\ both[i].completion.call = c
      /\ \A i, j \in 1 .. m :
           IsRcv(both[i]) /\ IsRcv(both[j]) /\ i < j =>
             both[i].completion.call < both[j].completion.call
  BY <1>2 DEF InOrder, m
<1>5. \A c \in lo + 1 .. hi :
        \E i \in 1 .. Len(both) : IsRcv(both[i]) /\ both[i].completion.call = c
  BY <1>1, <1>2, <1>4
<1> QED
  BY <1>3, <1>4, <1>5 DEF InOrder, both

(* The first handler posted is the next in the order, and the rest is what *)
(* remains.                                                                *)
LEMMA OrderTail ==
  ASSUME NEW tasks \in Seq(TaskSet), tasks # <<>>,
         NEW lo \in Nat, NEW hi \in Nat, InOrder(tasks, lo, hi)
  PROVE  /\ IsRcv(Head(tasks)) =>
              /\ Head(tasks).completion.call = lo + 1 /\ lo + 1 <= hi
              /\ InOrder(Tail(tasks), lo + 1, hi)
         /\ ~IsRcv(Head(tasks)) => InOrder(Tail(tasks), lo, hi)
<1> DEFINE n == Len(tasks)
           rest == Tail(tasks)
           Call(i) == tasks[i].completion.call
           OfRcv(i) == IsRcv(tasks[i])
<1>1. n \in Nat /\ n >= 1 /\ Head(tasks) = tasks[1] /\ Len(rest) = n - 1
  BY HeadTailProperties, EmptySeq, LenProperties
<1>2. \A i \in 1 .. n - 1 : rest[i] = tasks[i + 1]
  BY HeadTailProperties
<1>3. /\ lo <= hi
      /\ \A i \in 1 .. n : OfRcv(i) => Call(i) \in Int /\ lo < Call(i) /\ Call(i) <= hi
      /\ \A c \in lo + 1 .. hi : \E i \in 1 .. n : OfRcv(i) /\ Call(i) = c
      /\ \A i, j \in 1 .. n : OfRcv(i) /\ OfRcv(j) /\ i < j => Call(i) < Call(j)
  BY CallIsNumber DEF InOrder
<1>4. \A low : InOrder(rest, low, hi) <=>
        /\ low <= hi
        /\ \A i \in 1 .. n - 1 : OfRcv(i + 1) => low < Call(i + 1) /\ Call(i + 1) <= hi
        /\ \A c \in low + 1 .. hi : \E i \in 1 .. n - 1 : OfRcv(i + 1) /\ Call(i + 1) = c
        /\ \A i, j \in 1 .. n - 1 :
             OfRcv(i + 1) /\ OfRcv(j + 1) /\ i < j => Call(i + 1) < Call(j + 1)
  BY <1>1, <1>2 DEF InOrder
<1> HIDE DEF n, rest, Call, OfRcv
<1>5. \A i, j \in 1 .. n - 1 : OfRcv(i + 1) /\ OfRcv(j + 1) /\ i < j => Call(i + 1) < Call(j + 1)
  <2> SUFFICES ASSUME NEW i \in 1 .. n - 1, NEW j \in 1 .. n - 1,
                      OfRcv(i + 1), OfRcv(j + 1), i < j
               PROVE  Call(i + 1) < Call(j + 1)
    OBVIOUS
  <2>1. i + 1 \in 1 .. n /\ j + 1 \in 1 .. n /\ i + 1 < j + 1
    BY <1>1
  <2> QED
    BY <2>1, <1>3
<1>6. ASSUME NEW low \in Nat, low >= lo, low <= hi,
             \A i \in 2 .. n : OfRcv(i) => low < Call(i),
             OfRcv(1) => Call(1) <= low
      PROVE  InOrder(rest, low, hi)
  <2>1. \A i \in 1 .. n - 1 : OfRcv(i + 1) => low < Call(i + 1) /\ Call(i + 1) <= hi
    <3> SUFFICES ASSUME NEW i \in 1 .. n - 1, OfRcv(i + 1)
                 PROVE  low < Call(i + 1) /\ Call(i + 1) <= hi
      OBVIOUS
    <3>1. i + 1 \in 1 .. n /\ i + 1 \in 2 .. n
      BY <1>1
    <3> QED
      BY <3>1, <1>3, <1>6
  <2>2. \A c \in low + 1 .. hi : \E i \in 1 .. n - 1 : OfRcv(i + 1) /\ Call(i + 1) = c
    <3> TAKE c \in low + 1 .. hi
    <3>1. c \in lo + 1 .. hi
      BY <1>6
    <3>2. PICK i \in 1 .. n : OfRcv(i) /\ Call(i) = c
      BY <3>1, <1>3
    <3>3. i # 1
      BY <3>2, <1>6
    <3>4. i - 1 \in 1 .. n - 1 /\ (i - 1) + 1 = i
      BY <3>3, <1>1
    <3> QED
      BY <3>2, <3>4
  <2> QED
    BY <2>1, <2>2, <1>4, <1>5, <1>6
<1>7. CASE OfRcv(1)
  <2>1. 1 \in 1 .. n
    BY <1>1
  <2>2. Call(1) \in Int /\ lo < Call(1) /\ Call(1) <= hi
    BY <1>7, <2>1, <1>3
  <2>3. Call(1) = lo + 1
    <3>1. PICK i \in 1 .. n : OfRcv(i) /\ Call(i) = lo + 1
      BY <2>2, <1>3
    <3>2. CASE i # 1
      <4>1. 1 < i
        BY <3>2, <1>1
      <4>2. Call(1) < lo + 1
        BY <3>1, <4>1, <2>1, <1>7, <1>3
      <4> QED
        BY <4>2, <2>2
    <3> QED
      BY <3>1, <3>2
  <2>4. \A i \in 2 .. n : OfRcv(i) => lo + 1 < Call(i)
    <3> SUFFICES ASSUME NEW i \in 2 .. n, OfRcv(i) PROVE lo + 1 < Call(i)
      OBVIOUS
    <3>1. i \in 1 .. n /\ 1 < i
      BY <1>1
    <3>2. Call(1) < Call(i)
      BY <3>1, <2>1, <1>7, <1>3
    <3> QED
      BY <3>2, <2>3
  <2>5. lo + 1 \in Nat /\ lo + 1 >= lo /\ lo + 1 <= hi
    BY <2>2, <2>3
  <2>6. InOrder(rest, lo + 1, hi)
    BY <2>3, <2>4, <2>5, <1>6
  <2> QED
    BY <1>1, <1>7, <2>3, <2>5, <2>6 DEF rest, Call, OfRcv
<1>8. CASE ~OfRcv(1)
  <2>1. \A i \in 2 .. n : OfRcv(i) => lo < Call(i)
    <3> SUFFICES ASSUME NEW i \in 2 .. n, OfRcv(i) PROVE lo < Call(i)
      OBVIOUS
    <3>1. i \in 1 .. n
      BY <1>1
    <3> QED
      BY <3>1, <1>3
  <2>2. InOrder(rest, lo, hi)
    BY <2>1, <1>3, <1>6, <1>8
  <2> QED
    BY <1>1, <1>8, <2>2 DEF rest, OfRcv
<1> QED
  BY <1>7, <1>8

-----------------------------------------------------------------------------
(* The steps of one adapter and the state of the other.                    *)

(* Handlers of one side are posted behind what is there.                   *)
PostsOnly(side) ==
  \E more \in Seq(TaskSet) :
    /\ posted' = posted \o more
    /\ \A i \in 1 .. Len(more) : more[i].completion.side = side

(* Types and lengths of the sequences in the state.                        *)
LEMMA Lengths ==
  ASSUME TypeOK
  PROVE  /\ posted \in Seq(TaskSet) /\ Len(posted) \in Nat
         /\ Ran \in Seq(CompletionSet) /\ Len(Ran) \in Nat
         /\ SndRan \in Seq(CompletionSet) /\ Len(SndRan) \in Nat
         /\ pendingUserRequests \in Seq(1 .. MaxRequests) /\ Len(pendingUserRequests) \in Nat
         /\ issued \in Nat /\ received \in Nat /\ calls \in Nat
<1>1. /\ posted \in Seq(TaskSet) /\ Ran \in Seq(CompletionSet) /\ SndRan \in Seq(CompletionSet)
      /\ pendingUserRequests \in Seq(1 .. MaxRequests)
  BY DEF TypeOK, TaskSet, Ran, SndRan, Side
<1>2. issued \in Nat /\ received \in Nat /\ calls \in Nat
  BY Constants DEF TypeOK, Assumptions
<1> QED
  BY <1>1, <1>2, LenProperties

(* What is posted behind the handlers that wait.                           *)
LEMMA Posting ==
  ASSUME TypeOK, NEW more \in Seq(TaskSet), posted' = posted \o more
  PROVE  /\ posted' \in Seq(TaskSet)
         /\ Len(posted) \in Nat /\ Len(more) \in Nat /\ Len(posted') = Len(posted) + Len(more)
         /\ \A i \in 1 .. Len(posted) : posted'[i] = posted[i]
         /\ \A i \in 1 .. Len(posted') :
              i \in 1 .. Len(posted) \/ \E k \in 1 .. Len(more) : posted'[i] = more[k]
<1> DEFINE both == posted \o more
           m == Len(posted)
<1>1. /\ both \in Seq(TaskSet)
      /\ m \in Nat /\ Len(more) \in Nat /\ Len(both) = m + Len(more)
      /\ \A i \in 1 .. m : both[i] = posted[i]
      /\ \A i \in 1 .. Len(more) : both[m + i] = more[i]
      /\ \A i \in 1 .. Len(both) : i \in 1 .. m \/ \E k \in 1 .. Len(more) : i = m + k
  BY Lengths, Joined
<1>2. posted' = both
  OBVIOUS
<1> HIDE DEF both
<1>3. \A i \in 1 .. Len(both) : i \in 1 .. m \/ \E k \in 1 .. Len(more) : both[i] = more[k]
  BY <1>1
<1> QED
  BY <1>1, <1>2, <1>3 DEF m

sndFrame == <<sndVars, done, phase, inHandler>>
rcvFrame == <<rcvVars, done, phase, inHandler, looping>>

(* Handlers of receives do not concern the accepted ends of sending.       *)
LEMMA RcvStepKeepsSnd ==
  ASSUME TypeOK, SndControl, PostsOnly("rcv"), UNCHANGED sndFrame
  PROVE  SndControl'
<1> USE DEF sndFrame, sndVars, coreSndVars
<1>1. PICK more \in Seq(TaskSet) :
        posted' = posted \o more /\ \A i \in 1 .. Len(more) : more[i].completion.side = "rcv"
  BY DEF PostsOnly
<1> DEFINE m == Len(posted)
<1>2. /\ m \in Nat /\ Len(posted') \in Nat /\ m <= Len(posted')
      /\ \A i \in 1 .. m : posted'[i] = posted[i]
  BY <1>1, Posting
<1>3. \A i \in 1 .. Len(posted') : IsPosted(i, "snd")' => i \in 1 .. m
  <2> SUFFICES ASSUME NEW i \in 1 .. Len(posted'), i \notin 1 .. m PROVE ~IsPosted(i, "snd")'
    OBVIOUS
  <2>1. PICK k \in 1 .. Len(more) : posted'[i] = more[k]
    BY <1>1, Posting
  <2> QED
    BY <2>1, <1>1 DEF IsPosted
<1> HIDE DEF m
<1>4. \A i \in 1 .. m :
        /\ i \in 1 .. Len(posted')
        /\ IsPosted(i, "snd")' <=> IsPosted(i, "snd")
        /\ PostedCall(i)' = PostedCall(i)
  BY <1>2 DEF IsPosted, PostedCall
<1>5. \A f : InPosted(f)' <=> InPosted(f)
  BY <1>3, <1>4 DEF InPosted, m
<1>6. SndRan' = SndRan /\ \A f : InRan(f)' <=> InRan(f)
  BY DEF InRan, SndRan
<1> QED
  BY <1>3, <1>4, <1>5, <1>6 DEF SndControl, SavedHandlerRan, m

(* An end of sending posted does not concern the requests.                 *)
LEMMA SndStepKeepsRcv ==
  ASSUME TypeOK, RcvControl, PostsOnly("snd"), UNCHANGED rcvFrame
  PROVE  RcvControl'
<1> USE DEF rcvFrame, rcvVars, slotVars, coreRcvVars
<1>1. PICK more \in Seq(TaskSet) :
        posted' = posted \o more /\ \A i \in 1 .. Len(more) : more[i].completion.side = "snd"
  BY DEF PostsOnly
<1> DEFINE m == Len(posted)
<1>2. /\ m \in Nat /\ Len(posted') \in Nat /\ m <= Len(posted')
      /\ \A i \in 1 .. m : posted'[i] = posted[i]
  BY <1>1, Posting
<1>3. \A i \in 1 .. Len(posted') : IsRcv(posted'[i]) => i \in 1 .. m
  <2> SUFFICES ASSUME NEW i \in 1 .. Len(posted'), i \notin 1 .. m PROVE ~IsRcv(posted'[i])
    OBVIOUS
  <2>1. PICK k \in 1 .. Len(more) : posted'[i] = more[k]
    BY <1>1, Posting
  <2> QED
    BY <2>1, <1>1 DEF IsRcv
<1> HIDE DEF m
<1>4. Ran' = Ran /\ Served' = Served /\ (BeforeAborts' <=> BeforeAborts)
  BY DEF Ran, Served, HeadCount, BeforeAborts
<1>5. SlotControl' /\ RanControl'
  BY <1>4 DEF RcvControl, SlotControl, RanControl
<1>6. PostedControl'
  <2> SUFFICES ASSUME BeforeAborts PROVE InOrder(posted', Len(Ran), Served)
    BY <1>4 DEF PostedControl
  <2>1. InOrder(posted, Len(Ran), Served)
    BY DEF RcvControl, PostedControl
  <2>2. \A i \in 1 .. Len(more) : ~IsRcv(more[i])
    BY <1>1 DEF IsRcv
  <2>3. Len(Ran) \in Nat /\ Served \in Nat
    BY <2>1, Lengths DEF Served, HeadCount, InOrder
  <2> QED
    BY <2>1, <2>2, <2>3, <1>1, Lengths, OrderIgnores
<1>7. ResultControl'
  <2> SUFFICES ASSUME BeforeAborts PROVE ResultControl'
    BY <1>4 DEF ResultControl
  <2>1. \A c : Due(c)' = Due(c)
    BY DEF Due
  <2>2. \A i \in 1 .. Len(posted') :
          IsRcv(posted'[i]) => posted'[i].completion.res = Due(posted'[i].completion.call)
    BY <1>2, <1>3 DEF RcvControl, ResultControl, m
  <2> QED
    BY <1>4, <2>1, <2>2 DEF RcvControl, ResultControl
<1> QED
  BY <1>5, <1>6, <1>7 DEF RcvControl

-----------------------------------------------------------------------------
(* A request is answered: process_msg_or_error().                          *)

(* What is left behind the request answered: after an error nothing, after *)
(* a message the next one moves to the head slot.                          *)
LEMMA Promotion ==
  ASSUME NEW head \in 1 .. MaxRequests, NEW queue \in Seq(1 .. MaxRequests),
         \A i \in 1 .. Len(queue) : queue[i] = head + i
  PROVE  /\ AfterPromotion(queue) \in Seq(1 .. MaxRequests)
         /\ Promoted(queue) \in 0 .. MaxRequests
         /\ Promoted(queue) = NoRequest <=> queue = <<>>
         /\ queue = <<>> => AfterPromotion(queue) = <<>>
         /\ queue # <<>> =>
              /\ Promoted(queue) = head + 1
              /\ Len(AfterPromotion(queue)) = Len(queue) - 1
              /\ \A i \in 1 .. Len(AfterPromotion(queue)) :
                   AfterPromotion(queue)[i] = head + 1 + i
<1> USE MaxRequestsAssumption DEF AfterPromotion, Promoted, NoRequest
<1>1. CASE queue = <<>>
  BY <1>1, EmptySeq
<1>2. CASE queue # <<>>
  <2>1. Len(queue) \in Nat /\ Len(queue) >= 1
    BY <1>2, EmptySeq, LenProperties
  <2>2. Head(queue) = queue[1] /\ queue[1] = head + 1 /\ queue[1] \in 1 .. MaxRequests
    BY <1>2, <2>1, ElementOfSeq
  <2>3. /\ Tail(queue) \in Seq(1 .. MaxRequests) /\ Len(Tail(queue)) = Len(queue) - 1
        /\ \A i \in 1 .. Len(Tail(queue)) : Tail(queue)[i] = queue[i + 1]
    BY <1>2, HeadTailProperties
  <2>4. \A i \in 1 .. Len(Tail(queue)) : i + 1 \in 1 .. Len(queue) /\ i \in Int
    BY <2>1, <2>3
  <2>5. \A i \in 1 .. Len(Tail(queue)) : Tail(queue)[i] = head + 1 + i
    BY <2>3, <2>4
  <2> QED
    BY <1>2, <2>2, <2>3, <2>5
<1> QED
  BY <1>1, <1>2

(* The answer is due to the request, whichever of the call, the event and  *)
(* the loop finds it: the order and the results go on.                     *)
LEMMA AnswerKeepsRcv ==
  ASSUME TypeOK, RcvControl, BeforeAborts,
         NEW head \in 1 .. MaxRequests, NEW res \in Answer,
         head = Served + 1, issued' \in 0 .. MaxRequests,
         issued' = head + Len(pendingUserRequests),
         \A i \in 1 .. Len(pendingUserRequests) : pendingUserRequests[i] = head + i,
         CoreAnswers(res), ProcessMsgOrError(head, pendingUserRequests, res),
         looping' => userRequest' # NoRequest,
         UNCHANGED <<done, phase>>
  PROVE  RcvControl' /\ PostsOnly("rcv")
<1> USE Constants DEF Assumptions
<1> DEFINE queue == pendingUserRequests
           n == Len(queue)
           NowDue(c) == IF c <= received' THEN c ELSE Failed
<1>1. /\ queue \in Seq(1 .. MaxRequests) /\ n \in Nat
      /\ issued \in Nat /\ received \in Nat
      /\ Len(posted) \in Nat /\ Len(Ran) \in Nat
  BY Lengths
<1>2. res \in 1 .. MaxMessages \cup {Failed, Aborted}
  BY DEF Answer, TypeOK, Failed
<1>3. Served = head - 1 /\ Served \in Nat
  BY <1>1 DEF Served, HeadCount
<1>4. received <= Served /\ (~coreErr => received = Served)
  BY DEF RcvControl, ResultControl
<1>5. Ran' = Ran /\ BeforeAborts' /\ phase' = phase
  BY DEF Ran, BeforeAborts
<1>6. RanControl'
  BY <1>5 DEF RcvControl, RanControl, BeforeAborts
<1>7. InOrder(posted, Len(Ran), Served)
  BY DEF RcvControl, PostedControl
<1>8. Len(Ran) <= Served
  BY <1>7 DEF InOrder
<1>9. /\ issued' = head + n
      /\ \A i \in 1 .. n : queue[i] = head + i
  OBVIOUS
<1>10. /\ \A i \in 1 .. Len(posted) :
            IsRcv(posted[i]) =>
              /\ posted[i].completion.call \in Int /\ posted[i].completion.call <= Served
              /\ posted[i].completion.res = Due(posted[i].completion.call)
       /\ \A i \in 1 .. Len(Ran) : Ran[i].res = Due(i)
  <2>1. posted \in Seq(TaskSet)
    BY Lengths
  <2> QED
    BY <2>1, <1>7, CallIsNumber DEF RcvControl, ResultControl, InOrder
<1> HIDE DEF queue, n, NowDue
<1>11. ASSUME NEW more \in Seq(TaskSet), posted' = posted \o more,
              Served' = Served + Len(more),
              \A i \in 1 .. Len(more) :
                 more[i].completion = Completion("rcv", Served + i, NowDue(Served + i)),
              received' <= Served', ~coreErr' => received' = Served',
              \A c \in Int : c <= Served => NowDue(c) = Due(c)
       PROVE  PostedControl' /\ ResultControl' /\ PostsOnly("rcv")
  <2>1. \A i \in 1 .. Len(more) :
          /\ IsRcv(more[i]) /\ more[i].completion.side = "rcv"
          /\ more[i].completion.call = Served + i
          /\ more[i].completion.res = NowDue(more[i].completion.call)
    <3> TAKE i \in 1 .. Len(more)
    <3>1. more[i].completion = Completion("rcv", Served + i, NowDue(Served + i))
      BY <1>11
    <3>2. /\ more[i].completion.side = "rcv" /\ more[i].completion.call = Served + i
          /\ more[i].completion.res = NowDue(Served + i)
      BY <3>1 DEF Completion
    <3> QED
      BY <3>2 DEF IsRcv
  <2>2. PostedControl'
    <3>1. posted \in Seq(TaskSet)
      BY Lengths
    <3>2. InOrder(posted \o more, Len(Ran), Served + Len(more))
      BY <1>1, <1>3, <1>7, <2>1, <3>1, OrderExtends
    <3>3. PostedControl' <=> (BeforeAborts' => InOrder(posted', Len(Ran'), Served'))
      BY DEF PostedControl
    <3> QED
      BY <3>2, <3>3, <1>5, <1>11
  <2>3. ASSUME NEW i \in 1 .. Len(posted'), IsRcv(posted'[i])
        PROVE  posted'[i].completion.res = NowDue(posted'[i].completion.call)
    <3>1. i \in 1 .. Len(posted) \/ \E k \in 1 .. Len(more) : posted'[i] = more[k]
      BY <1>11, Posting
    <3>2. CASE i \in 1 .. Len(posted)
      <4>1. posted'[i] = posted[i]
        BY <3>2, <1>11, Posting
      <4> QED
        BY <3>2, <4>1, <2>3, <1>10, <1>11
    <3>3. CASE \E k \in 1 .. Len(more) : posted'[i] = more[k]
      BY <3>3, <2>1
    <3> QED
      BY <3>1, <3>2, <3>3
  <2>4. \A i \in 1 .. Len(Ran') : Ran'[i].res = NowDue(i)
    <3>1. \A i \in 1 .. Len(Ran) : i \in Int /\ i <= Served
      BY <1>1, <1>3, <1>8
    <3> QED
      BY <3>1, <1>5, <1>10, <1>11
  <2>5. ResultControl'
    BY <2>3, <2>4, <1>11 DEF ResultControl, Due, NowDue
  <2> QED
    BY <2>1, <2>2, <2>5, <1>11 DEF PostsOnly
<1>12. CASE res = Failed
  <2> DEFINE cs == Completions(head, queue, res)
  <2>1. posted' = posted \o cs /\ userRequest' = NoRequest /\ pendingUserRequests' = <<>>
    BY <1>12 DEF ProcessMsgOrError, queue
  <2>2. /\ cs \in Seq(TaskSet) /\ Len(cs) = 1 + n
        /\ cs[1].completion = Completion("rcv", head, res)
        /\ \A i \in 1 .. n : cs[i + 1].completion = Completion("rcv", queue[i], res)
    BY <1>1, <1>2, CompletionsOf DEF n
  <2> HIDE DEF cs
  <2>3. Served' = issued'
    BY <2>1, <1>1, <1>9 DEF Served, HeadCount
  <2>4. received' = received /\ coreErr'
    BY <1>12 DEF CoreAnswers
  <2>5. \A c : NowDue(c) = Due(c)
    BY <2>4 DEF Due, NowDue
  <2>6. \A i \in 1 .. Len(cs) : cs[i].completion = Completion("rcv", Served + i, NowDue(Served + i))
    <3> TAKE i \in 1 .. Len(cs)
    <3>1. Due(Served + i) = Failed
      BY <1>3, <1>4, <1>1, <2>2 DEF Due
    <3>2. CASE i = 1
      BY <2>2, <2>5, <3>1, <3>2, <1>3, <1>12
    <3>3. CASE i # 1
      <4>1. i - 1 \in 1 .. n /\ i = (i - 1) + 1
        BY <3>3, <2>2, <1>1
      <4>2. queue[i - 1] = Served + i
        BY <4>1, <1>3, <1>9
      <4>3. cs[i].completion = Completion("rcv", queue[i - 1], res)
        BY <2>2, <4>1
      <4> QED
        BY <4>2, <4>3, <2>5, <3>1, <1>12
    <3> QED
      BY <3>2, <3>3
  <2>7. Served' = Served + Len(cs)
    <3>1. Len(cs) = 1 + n /\ Served' = head + n
      BY <2>2, <2>3, <1>9
    <3> QED
      BY <3>1, <1>1, <1>3
  <2>8. received' <= Served'
    BY <2>2, <2>4, <2>7, <1>1, <1>3, <1>4
  <2>9. PostedControl' /\ ResultControl' /\ PostsOnly("rcv")
    BY <2>1, <2>2, <2>4, <2>5, <2>6, <2>7, <2>8, <1>11
  <2>10. SlotControl'
    BY <2>1 DEF SlotControl, CoreAnswers, NoRequest
  <2> QED
    BY <2>9, <2>10, <1>6 DEF RcvControl
<1>13. CASE res # Failed
  <2>1. ~coreErr /\ res = received + 1 /\ received' = res /\ coreErr' = FALSE /\ coreBusy' = FALSE
    BY <1>13, <1>1 DEF Answer, CoreAnswers
  <2>2. res = head /\ res = Served + 1
    BY <2>1, <1>1, <1>3, <1>4
  <2> DEFINE cs == Completions(head, <<>>, res)
  <2>3. /\ posted' = posted \o cs
        /\ userRequest' = Promoted(queue) /\ pendingUserRequests' = AfterPromotion(queue)
    BY <1>13 DEF ProcessMsgOrError, queue
  <2>4. cs \in Seq(TaskSet) /\ Len(cs) = 1 /\ cs[1].completion = Completion("rcv", head, head)
    <3> DEFINE none == <<>>
    <3>1. none \in Seq(1 .. MaxRequests) /\ Len(none) = 0 /\ cs = Completions(head, none, res)
      BY EmptySeq
    <3> HIDE DEF none, cs
    <3>2. cs \in Seq(TaskSet) /\ Len(cs) = 1 + Len(none) /\ cs[1].completion = Completion("rcv", head, res)
      BY <3>1, <1>2, CompletionsOf
    <3> QED
      BY <3>1, <3>2, <2>2
  <2> HIDE DEF cs
  <2>5. /\ AfterPromotion(queue) \in Seq(1 .. MaxRequests)
        /\ Promoted(queue) = NoRequest <=> queue = <<>>
        /\ queue = <<>> => AfterPromotion(queue) = <<>>
        /\ queue # <<>> =>
             /\ Promoted(queue) = head + 1
             /\ Len(AfterPromotion(queue)) = n - 1
             /\ \A i \in 1 .. Len(AfterPromotion(queue)) :
                  AfterPromotion(queue)[i] = head + 1 + i
    BY <1>1, <1>9, Promotion DEF n
  <2>6. queue = <<>> <=> n = 0
    BY <1>1, EmptySeq DEF n
  <2>7. Served' = head
    <3>1. CASE queue = <<>>
      BY <3>1, <2>3, <2>5, <2>6, <1>1, <1>9 DEF Served, HeadCount
    <3>2. CASE queue # <<>>
      <4>1. userRequest' # NoRequest /\ Len(pendingUserRequests') = n - 1 /\ issued' = head + n
        BY <3>2, <2>3, <2>5, <1>9
      <4>2. Served' = issued' - Len(pendingUserRequests') - 1
        BY <4>1 DEF Served, HeadCount
      <4>3. Served' = (head + n) - (n - 1) - 1
        BY <4>1, <4>2
      <4>4. n \in Int /\ head \in Int
        BY <1>1
      <4> QED
        BY <4>3, <4>4
    <3> QED
      BY <3>1, <3>2
  <2>8. SlotControl'
    <3>1. CASE queue = <<>>
      BY <3>1, <2>1, <2>3, <2>5, <2>6, <1>1, <1>9 DEF SlotControl, NoRequest
    <3>2. CASE queue # <<>>
      <4>1. /\ userRequest' # NoRequest /\ userRequest' = head + 1
            /\ Len(pendingUserRequests') = n - 1 /\ issued' = head + n
        BY <3>2, <2>3, <2>5, <1>9
      <4>2. \A i \in 1 .. Len(pendingUserRequests') : pendingUserRequests'[i] = head + 1 + i
        BY <3>2, <2>3, <2>5
      <4>3. issued' - Len(pendingUserRequests') = head + 1 /\ Len(pendingUserRequests') <= issued'
        <5>1. n \in Int /\ head \in Int /\ head >= 1
          BY <1>1
        <5>2. (head + n) - (n - 1) = head + 1 /\ n - 1 <= head + n
          BY <5>1
        <5> QED
          BY <4>1, <5>2
      <4> QED
        BY <4>1, <4>2, <4>3 DEF SlotControl
    <3> QED
      BY <3>1, <3>2
  <2>9. \A c \in Int : c <= Served => NowDue(c) = Due(c)
    BY <2>1, <2>2, <1>1, <1>3, <1>4 DEF Due, NowDue
  <2>10. \A i \in 1 .. Len(cs) :
           cs[i].completion = Completion("rcv", Served + i, NowDue(Served + i))
    <3>1. NowDue(head) = head
      BY <2>1, <2>2 DEF NowDue
    <3>2. \A i \in 1 .. Len(cs) : i = 1
      BY <2>4
    <3> QED
      BY <2>2, <2>4, <3>1, <3>2
  <2>11. Served' = Served + Len(cs) /\ received' = Served' /\ received' <= Served'
    BY <2>1, <2>2, <2>4, <2>7, <1>3
  <2>12. PostedControl' /\ ResultControl' /\ PostsOnly("rcv")
    BY <2>3, <2>4, <2>9, <2>10, <2>11, <1>3, <1>11
  <2> QED
    BY <2>8, <2>12, <1>6 DEF RcvControl
<1> QED
  BY <1>12, <1>13

-----------------------------------------------------------------------------
(* Handlers run.                                                           *)

(* A sequence with one more at its end.                                    *)
LEMMA Grown ==
  ASSUME NEW S, NEW s \in Seq(S), NEW e \in S
  PROVE  /\ Append(s, e) \in Seq(S)
         /\ Len(s) \in Nat /\ Len(Append(s, e)) = Len(s) + 1
         /\ \A i \in 1 .. Len(s) : Append(s, e)[i] = s[i] /\ i \in 1 .. Len(s) + 1
         /\ Append(s, e)[Len(s) + 1] = e /\ Len(s) + 1 \in 1 .. Len(s) + 1
         /\ \A i \in 1 .. Len(s) + 1 : i \in 1 .. Len(s) \/ i = Len(s) + 1
<1>1. Len(s) \in Nat
  BY LenProperties
<1>2. /\ Append(s, e) \in Seq(S) /\ Len(Append(s, e)) = Len(s) + 1
      /\ \A i \in 1 .. Len(s) : Append(s, e)[i] = s[i]
      /\ Append(s, e)[Len(s) + 1] = e
  BY AppendProperties
<1> QED
  BY <1>1, <1>2

(* A handler that is run is the last of its side.                          *)
LEMMA Running ==
  ASSUME TypeOK, NEW c \in CompletionSet, RunHandler(c)
  PROVE  /\ done' \in [Side -> Seq(CompletionSet)] /\ inHandler' = TRUE /\ ~inHandler
         /\ c.side = "rcv" => Ran' = Append(Ran, c) /\ SndRan' = SndRan
         /\ c.side = "snd" => SndRan' = Append(SndRan, c) /\ Ran' = Ran
<1>1. done \in [Side -> Seq(CompletionSet)]
  BY DEF TypeOK
<1>2. c.side \in {"rcv", "snd"}
  BY DEF CompletionSet
<1>3. CASE c.side = "rcv"
  <2>1. done' = [done EXCEPT !["rcv"] = Append(done["rcv"], c)]
    BY <1>3 DEF RunHandler
  <2>2. Append(done["rcv"], c) \in Seq(CompletionSet)
    BY <1>1, AppendProperties DEF Side
  <2> QED
    BY <2>1, <2>2, <1>1, <1>3 DEF Ran, SndRan, Side, RunHandler
<1>4. CASE c.side = "snd"
  <2>1. done' = [done EXCEPT !["snd"] = Append(done["snd"], c)]
    BY <1>4 DEF RunHandler
  <2>2. Append(done["snd"], c) \in Seq(CompletionSet)
    BY <1>1, AppendProperties DEF Side
  <2> QED
    BY <2>1, <2>2, <1>1, <1>4 DEF Ran, SndRan, Side, RunHandler
<1> QED
  BY <1>2, <1>3, <1>4

-----------------------------------------------------------------------------
(* Steps that leave one side as it is.                                     *)

(* The ends of sending see of the rest only whether the destructor has run *)
(* the saved handler.                                                      *)
LEMMA SndLeftAlone ==
  ASSUME SndControl, UNCHANGED <<sndVars, posted>>, SndRan' = SndRan,
         SavedHandlerRan' <=> SavedHandlerRan
  PROVE  SndControl'
BY DEF SndControl, sndVars, coreSndVars, IsPosted, PostedCall, InPosted, InRan

(* The receives see of the destructor only how far it is.                  *)
LEMMA RcvLeftAlone ==
  ASSUME RcvControl, UNCHANGED <<rcvVars, posted, looping>>, Ran' = Ran,
         (BeforeAborts /\ BeforeAborts') \/ UNCHANGED <<phase, inHandler>>
  PROVE  RcvControl'
<1> USE DEF rcvVars, slotVars, coreRcvVars
<1>1. Served' = Served /\ \A c : Due(c)' = Due(c)
  BY DEF Served, HeadCount, Due
<1>2. SlotControl'
  BY DEF RcvControl, SlotControl, BeforeAborts
<1>3. RanControl'
  BY <1>1 DEF RcvControl, RanControl, BeforeAborts
<1>4. PostedControl'
  BY <1>1 DEF RcvControl, PostedControl, BeforeAborts
<1>5. ResultControl'
  BY <1>1 DEF RcvControl, ResultControl, BeforeAborts
<1> QED
  BY <1>2, <1>3, <1>4, <1>5 DEF RcvControl

-----------------------------------------------------------------------------
(* The steps of the receiving adapter.                                     *)

(* Where a receive may be made: not once the destructor is past the adapter.*)
LEMMA ReceivePhase ==
  ASSUME IInv, MayReceive
  PROVE  /\ BeforeAborts \/ (phase \in {"abortHead", "abortQueue"} /\ inHandler)
         /\ userRequest = NoRequest => BeforeAborts
         /\ issued + 1 \in 1 .. MaxRequests /\ ~looping
<1>1. issued \in Nat /\ issued < MaxRequests /\ MaxRequests \in Nat
  BY Lengths, Constants DEF IInv, MayReceive, Assumptions
<1>2. BeforeAborts \/ (phase \in {"abortHead", "abortQueue"} /\ inHandler)
  BY DEF MayReceive, MayCall, BeforeAborts
<1>3. userRequest = NoRequest => BeforeAborts
  BY <1>2 DEF IInv, PhaseControl
<1> QED
  BY <1>1, <1>2, <1>3 DEF MayReceive

LEMMA QueueRequestStep ==
  ASSUME IInv, QueueRequest, UNCHANGED <<sndVars, adapters>>
  PROVE  IInv'
<1> USE DEF QueueRequest, workerVars, taskVars, coreRcvVars
<1> DEFINE queue == pendingUserRequests
           n == Len(queue)
           queue1 == Append(queue, issued + 1)
<1>1. /\ queue \in Seq(1 .. MaxRequests) /\ n \in Nat /\ issued \in Nat
      /\ issued + 1 \in 1 .. MaxRequests
  BY Lengths, ReceivePhase DEF IInv
<1>2. /\ queue1 \in Seq(1 .. MaxRequests) /\ Len(queue1) = n + 1
      /\ \A i \in 1 .. n : queue1[i] = queue[i]
      /\ queue1[n + 1] = issued + 1
      /\ \A i \in 1 .. n + 1 : i \in 1 .. n \/ i = n + 1
  BY <1>1, Grown
<1>3. pendingUserRequests' = queue1 /\ issued' = issued + 1
  OBVIOUS
<1>4. /\ TypeOK /\ PhaseControl /\ SlotControl /\ RanControl /\ PostedControl /\ ResultControl
      /\ SndControl /\ userRequest # NoRequest /\ n <= issued
  BY DEF IInv, RcvControl, SlotControl
<1>5. TypeOK'
  BY <1>1, <1>2, <1>3, <1>4 DEF TypeOK, sndVars, coreSndVars
<1> HIDE DEF queue1
<1>6. queue1 # <<>>
  BY <1>1, <1>2
<1>7. PhaseControl'
  BY <1>3, <1>4, <1>6 DEF PhaseControl, sndVars
<1>8. \A i \in 1 .. n : queue[i] = issued - n + i
  BY <1>4 DEF SlotControl
<1>9. issued' - Len(queue1) = issued - n
  BY <1>1, <1>2, <1>3
<1>10. SlotControl'
  <2>1. \A i \in 1 .. n + 1 : queue1[i] = issued - n + i
    BY <1>1, <1>2, <1>8
  <2>2. phase \notin {"abortQueue", "abortSnd", "gone"} => userRequest = issued - n
    BY <1>4 DEF SlotControl
  <2>3. Len(queue1) <= issued'
    BY <1>1, <1>2, <1>3, <1>4
  <2> HIDE DEF n, queue
  <2>4. /\ \A i \in 1 .. Len(queue1) : queue1[i] = issued' - Len(queue1) + i
        /\ phase' \notin {"abortQueue", "abortSnd", "gone"} => userRequest' = issued' - Len(queue1)
    BY <1>2, <1>9, <2>1, <2>2
  <2> QED
    BY <1>3, <1>4, <2>3, <2>4 DEF SlotControl
<1>11. Served' = Served
  <2>1. Served = issued - n - 1 /\ Served' = issued' - Len(queue1) - 1
    BY <1>3, <1>4 DEF Served, HeadCount
  <2> QED
    BY <2>1, <1>9
<1>12. Ran' = Ran /\ (BeforeAborts' <=> BeforeAborts) /\ \A c : Due(c)' = Due(c)
  BY DEF Ran, BeforeAborts, Due
<1>13. phase \notin {"abortSnd", "gone"}
  BY ReceivePhase DEF BeforeAborts
<1>14. RanControl'
  BY <1>3, <1>4, <1>9, <1>11, <1>12, <1>13 DEF RanControl
<1>15. PostedControl'
  BY <1>4, <1>11, <1>12 DEF PostedControl
<1>16. ResultControl'
  BY <1>4, <1>11, <1>12 DEF ResultControl
<1>17. SndControl'
  BY <1>4, SndLeftAlone DEF SndRan, SavedHandlerRan
<1> QED
  BY <1>5, <1>7, <1>10, <1>14, <1>15, <1>16, <1>17 DEF IInv, RcvControl

LEMMA ReceiveWouldBlockStep ==
  ASSUME IInv, ReceiveWouldBlock, UNCHANGED <<sndVars, adapters>>
  PROVE  IInv'
<1> USE DEF ReceiveWouldBlock, workerVars, taskVars
<1>1. /\ issued \in Nat /\ issued + 1 \in 1 .. MaxRequests /\ BeforeAborts /\ ~looping
      /\ TypeOK /\ PhaseControl /\ SlotControl /\ RanControl /\ PostedControl /\ ResultControl
      /\ SndControl
  BY Lengths, ReceivePhase DEF IInv, RcvControl
<1>2. pendingUserRequests = <<>> /\ Len(pendingUserRequests) = 0
  BY <1>1, EmptySeq DEF SlotControl
<1>3. issued' = issued + 1 /\ userRequest' = issued + 1 /\ userRequest' # NoRequest
  BY <1>1 DEF NoRequest
<1>4. Served = issued /\ Served' = issued
  BY <1>1, <1>2, <1>3 DEF Served, HeadCount
<1>5. Ran' = Ran /\ BeforeAborts' /\ \A c : Due(c)' = Due(c)
  BY <1>1 DEF Ran, BeforeAborts, Due
<1>6. TypeOK'
  BY <1>1, <1>3, Constants DEF TypeOK, sndVars, coreSndVars, Assumptions
<1>7. PhaseControl'
  BY <1>1, <1>3 DEF PhaseControl, sndVars, BeforeAborts
<1>8. SlotControl'
  BY <1>1, <1>2, <1>3 DEF SlotControl
<1>9. RanControl'
  BY <1>1, <1>5 DEF RanControl, BeforeAborts
<1>10. PostedControl' /\ ResultControl'
  BY <1>1, <1>4, <1>5 DEF PostedControl, ResultControl
<1>11. SndControl'
  BY <1>1, SndLeftAlone DEF SndRan, SavedHandlerRan
<1> QED
  BY <1>6, <1>7, <1>8, <1>9, <1>10, <1>11 DEF IInv, RcvControl

(* A request answered, by whichever of the three finds the answer.         *)
LEMMA AnsweredStep ==
  ASSUME IInv, BeforeAborts,
         NEW head \in 1 .. MaxRequests, NEW res \in Answer,
         head = Served + 1, issued' \in 0 .. MaxRequests,
         issued' = head + Len(pendingUserRequests),
         \A i \in 1 .. Len(pendingUserRequests) : pendingUserRequests[i] = head + i,
         CoreAnswers(res), ProcessMsgOrError(head, pendingUserRequests, res),
         looping' \in BOOLEAN, looping' => userRequest' # NoRequest,
         UNCHANGED <<sndVars, adapters, inTask, inHandler, phase, done>>
  PROVE  IInv'
<1>1. TypeOK /\ RcvControl /\ SndControl
  BY DEF IInv
<1>2. RcvControl' /\ PostsOnly("rcv")
  BY <1>1, AnswerKeepsRcv
<1>3. SndControl'
  BY <1>1, <1>2, RcvStepKeepsSnd DEF sndFrame
<1>4. PhaseControl'
  BY DEF PhaseControl, BeforeAborts, Aborting
<1>5. posted' \in Seq(TaskSet)
  <2>1. PICK more \in Seq(TaskSet) : posted' = posted \o more
    BY <1>2 DEF PostsOnly
  <2> QED
    BY <1>1, <2>1, Posting
<1>6. userRequest' \in 0 .. MaxRequests /\ pendingUserRequests' \in Seq(1 .. MaxRequests)
  <2>1. CASE res = Failed
    BY <2>1, Constants, EmptySeq DEF ProcessMsgOrError, NoRequest, Assumptions
  <2>2. CASE res # Failed
    <3>1. pendingUserRequests \in Seq(1 .. MaxRequests)
      BY <1>1, Lengths
    <3>2. /\ userRequest' = Promoted(pendingUserRequests)
          /\ pendingUserRequests' = AfterPromotion(pendingUserRequests)
      BY <2>2 DEF ProcessMsgOrError
    <3> QED
      BY <3>1, <3>2, Promotion
  <2> QED
    BY <2>1, <2>2
<1>7. coreBusy' \in BOOLEAN /\ coreErr' \in BOOLEAN /\ received' \in 0 .. MaxMessages
  <2>1. received \in 0 .. MaxMessages /\ coreErr \in BOOLEAN
    BY <1>1 DEF TypeOK
  <2>2. CASE res = Failed
    BY <2>1, <2>2 DEF CoreAnswers
  <2>3. CASE res # Failed
    <3>1. received < MaxMessages
      <4>1. ~(received < MaxMessages) => Answer = {Failed}
        BY DEF Answer
      <4> QED
        BY <4>1, <2>3
    <3>2. coreBusy' = FALSE /\ coreErr' = FALSE /\ received' = received + 1
      BY <2>3 DEF CoreAnswers
    <3>3. received + 1 \in 0 .. MaxMessages
      BY <2>1, <3>1, Constants DEF Assumptions
    <3> QED
      BY <3>2, <3>3
  <2> QED
    BY <2>2, <2>3
<1>8. TypeOK'
  BY <1>1, <1>5, <1>6, <1>7 DEF TypeOK, TaskSet, sndVars, coreSndVars
<1> QED
  BY <1>2, <1>3, <1>4, <1>8 DEF IInv

(* The request in the head slot is the next to be answered.                *)
LEMMA HeadIsNext ==
  ASSUME IInv, BeforeAborts, userRequest # NoRequest
  PROVE  /\ userRequest \in 1 .. MaxRequests /\ userRequest = Served + 1
         /\ issued = userRequest + Len(pendingUserRequests)
         /\ \A i \in 1 .. Len(pendingUserRequests) : pendingUserRequests[i] = userRequest + i
<1> DEFINE n == Len(pendingUserRequests)
<1>1. n \in Nat /\ issued \in Nat /\ userRequest \in 1 .. MaxRequests
  BY Lengths, Constants DEF IInv, TypeOK, NoRequest, Assumptions
<1>2. /\ userRequest = issued - n
      /\ \A i \in 1 .. n : pendingUserRequests[i] = issued - n + i
  BY DEF IInv, RcvControl, SlotControl, BeforeAborts
<1> HIDE DEF n
<1>3. Served = issued - n - 1
  BY DEF Served, HeadCount, n
<1> QED
  BY <1>1, <1>2, <1>3 DEF n

LEMMA ReceiveAtOnceStep ==
  ASSUME IInv, ReceiveAtOnce, UNCHANGED <<sndVars, adapters>>
  PROVE  IInv'
<1> USE DEF ReceiveAtOnce, taskVars
<1>1. issued \in Nat /\ issued' \in 1 .. MaxRequests /\ BeforeAborts /\ ~looping
  BY Lengths, ReceivePhase DEF IInv
<1>2. pendingUserRequests = <<>> /\ Len(pendingUserRequests) = 0
  BY EmptySeq DEF IInv, RcvControl, SlotControl
<1>3. issued' = Served + 1 /\ issued' = issued' + Len(pendingUserRequests)
  BY <1>1, <1>2 DEF Served, HeadCount
<1>4. PICK res \in Answer :
        CoreAnswers(res) /\ ProcessMsgOrError(issued', pendingUserRequests, res)
  OBVIOUS
<1>5. /\ \A i \in 1 .. Len(pendingUserRequests) : pendingUserRequests[i] = issued' + i
      /\ looping' = FALSE /\ issued' \in 0 .. MaxRequests
  BY <1>1, <1>2
<1> QED
  BY <1>1, <1>3, <1>4, <1>5, AnsweredStep

LEMMA OnSyncIoRcvDoneStep ==
  ASSUME IInv, OnSyncIoRcvDone, UNCHANGED <<sndVars, adapters>>
  PROVE  IInv'
<1> USE DEF OnSyncIoRcvDone
<1>1. BeforeAborts /\ userRequest # NoRequest
  BY DEF BeforeAborts, WorkerRuns, IInv, RcvControl, SlotControl
<1>2. PICK res \in Answer :
        CoreAnswers(res) /\ ProcessMsgOrError(userRequest, pendingUserRequests, res)
  OBVIOUS
<1>3. looping' \in BOOLEAN /\ issued' \in 0 .. MaxRequests /\ issued' = issued
  BY DEF IInv, TypeOK
<1> QED
  BY <1>1, <1>2, <1>3, HeadIsNext, AnsweredStep

LEMMA ServeNextAtOnceStep ==
  ASSUME IInv, ServeNextAtOnce, UNCHANGED <<sndVars, adapters>>
  PROVE  IInv'
<1> USE DEF ServeNextAtOnce
<1>1. BeforeAborts /\ userRequest # NoRequest
  BY DEF BeforeAborts, IInv, TypeOK, PhaseControl, Aborting, RcvControl, SlotControl
<1>2. PICK res \in Answer :
        CoreAnswers(res) /\ ProcessMsgOrError(userRequest, pendingUserRequests, res)
  OBVIOUS
<1>3. looping' \in BOOLEAN /\ issued' \in 0 .. MaxRequests /\ issued' = issued
  BY DEF IInv, TypeOK
<1> QED
  BY <1>1, <1>2, <1>3, HeadIsNext, AnsweredStep

LEMMA ServeNextWouldBlockStep ==
  ASSUME IInv, ServeNextWouldBlock, UNCHANGED <<sndVars, adapters>>
  PROVE  IInv'
<1> USE DEF ServeNextWouldBlock, slotVars
<1>1. BeforeAborts /\ userRequest # NoRequest
  BY DEF BeforeAborts, IInv, TypeOK, PhaseControl, Aborting, RcvControl, SlotControl
<1>2. TypeOK'
  BY DEF IInv, TypeOK, sndVars, coreSndVars
<1>3. PhaseControl'
  BY <1>1 DEF PhaseControl, BeforeAborts, Aborting
<1>4. /\ Served' = Served /\ Ran' = Ran /\ BeforeAborts' /\ \A c : Due(c)' = Due(c)
      /\ RcvControl
  BY <1>1 DEF Served, HeadCount, Ran, BeforeAborts, Due, IInv
<1>5. SlotControl'
  BY <1>1, <1>4 DEF RcvControl, SlotControl
<1>6. RanControl' /\ PostedControl' /\ ResultControl'
  BY <1>1, <1>4 DEF RcvControl, RanControl, PostedControl, ResultControl, BeforeAborts
<1>7. SndControl'
  BY SndLeftAlone DEF SndRan, SavedHandlerRan, IInv
<1> QED
  BY <1>2, <1>3, <1>5, <1>6, <1>7 DEF IInv, RcvControl

-----------------------------------------------------------------------------
(* The steps of the destructor of the receiving adapter.                   *)

(* Nothing is posted any more, and the core does not answer.               *)
LEMMA PastPolling ==
  ASSUME phase' \in Aborting PROVE PostedControl' /\ ResultControl'
BY DEF PostedControl, ResultControl, BeforeAborts, Aborting

LEMMA AbortHeadStep ==
  ASSUME IInv, AbortHead, UNCHANGED <<sndVars, adapters>>
  PROVE  IInv'
<1> USE DEF AbortHead, rcvVars, slotVars, coreRcvVars, taskVars
<1>1. TypeOK /\ PhaseControl /\ SlotControl /\ RanControl /\ SndControl
  BY DEF IInv, RcvControl
<1>2. /\ userRequest \in 1 .. MaxRequests
      /\ userRequest = issued - Len(pendingUserRequests)
  BY <1>1, Constants DEF TypeOK, SlotControl, NoRequest, Assumptions
<1> DEFINE c == Completion("rcv", userRequest, Aborted)
<1>3. c \in CompletionSet /\ c.side = "rcv" /\ c.call = userRequest
  BY <1>2 DEF Completion, CompletionSet
<1> HIDE DEF c
<1>4. RunHandler(c)
  BY DEF c
<1>5. /\ done' \in [Side -> Seq(CompletionSet)] /\ inHandler' = TRUE /\ ~inHandler
      /\ Ran' = Append(Ran, c) /\ SndRan' = SndRan
  BY <1>1, <1>3, <1>4, Running
<1>6. /\ Ran \in Seq(CompletionSet) /\ issued \in Nat /\ Len(pendingUserRequests) \in Nat
      /\ Len(Ran) \in Nat
  BY <1>1, Lengths
<1>7. Served = userRequest - 1 /\ Served' = Served
  BY <1>2, <1>6 DEF Served, HeadCount
<1>8. Len(Ran) = Served
  BY <1>1, <1>5, <1>6, <1>7, <1>2 DEF RanControl
<1>9. Len(Ran') = Len(Ran) + 1 /\ \A i \in 1 .. Len(Ran') : Ran'[i].side = "rcv" /\ Ran'[i].call = i
  <2> DEFINE ran1 == Append(Ran, c)
  <2>1. /\ Len(ran1) = Len(Ran) + 1 /\ \A i \in 1 .. Len(Ran) : ran1[i] = Ran[i]
        /\ ran1[Len(Ran) + 1] = c
        /\ \A i \in 1 .. Len(Ran) + 1 : i \in 1 .. Len(Ran) \/ i = Len(Ran) + 1
    BY <1>3, <1>6, Grown
  <2>2. \A i \in 1 .. Len(Ran) : Ran[i].side = "rcv" /\ Ran[i].call = i
    BY <1>1 DEF RanControl
  <2>3. c.call = Len(Ran) + 1
    BY <1>2, <1>3, <1>6, <1>7, <1>8
  <2> HIDE DEF ran1
  <2>4. \A i \in 1 .. Len(ran1) : ran1[i].side = "rcv" /\ ran1[i].call = i
    BY <2>1, <2>2, <2>3, <1>3
  <2> QED
    BY <1>5, <2>1, <2>4 DEF ran1
<1>10. TypeOK'
  BY <1>1, <1>5 DEF TypeOK, sndVars, coreSndVars
<1>11. PhaseControl'
  BY <1>1, <1>5 DEF PhaseControl, sndVars
<1>12. SlotControl'
  BY <1>1 DEF SlotControl
<1>13. RanControl'
  BY <1>5, <1>7, <1>8, <1>9 DEF RanControl
<1>14. SndControl'
  BY <1>1, <1>5, SndLeftAlone DEF SavedHandlerRan
<1> QED
  BY <1>10, <1>11, <1>12, <1>13, <1>14, PastPolling DEF IInv, RcvControl, Aborting

LEMMA AbortHeadReturnsStep ==
  ASSUME IInv, AbortHeadReturns, UNCHANGED <<sndVars, adapters>>
  PROVE  IInv'
<1> USE DEF AbortHeadReturns, rcvVars, slotVars, coreRcvVars, taskVars
<1>1. TypeOK /\ PhaseControl /\ SlotControl /\ RanControl /\ SndControl /\ userRequest # NoRequest
  BY DEF IInv, RcvControl, PhaseControl
<1>2. issued \in Nat /\ Len(pendingUserRequests) \in Nat /\ Len(Ran) \in Nat
  BY <1>1, Lengths
<1>3. Served = issued - Len(pendingUserRequests) - 1 /\ Len(Ran) = Served + 1 /\ Ran' = Ran
  BY <1>1 DEF Served, HeadCount, RanControl, Ran
<1>4. Len(Ran) = issued - Len(pendingUserRequests)
  BY <1>2, <1>3
<1>5. TypeOK'
  BY <1>1 DEF TypeOK, sndVars, coreSndVars
<1>6. PhaseControl'
  BY <1>1 DEF PhaseControl, sndVars, Aborting
<1>7. SlotControl'
  BY <1>1 DEF SlotControl
<1>8. RanControl'
  BY <1>1, <1>2, <1>3, <1>4 DEF RanControl
<1>9. SndControl'
  BY <1>1, SndLeftAlone DEF SavedHandlerRan, SndRan
<1> QED
  BY <1>5, <1>6, <1>7, <1>8, <1>9, PastPolling DEF IInv, RcvControl, Aborting

(* What is left of the queue without its first request.                    *)
LEMMA QueueTail ==
  ASSUME TypeOK, SlotControl, pendingUserRequests # <<>>
  PROVE  /\ Tail(pendingUserRequests) \in Seq(1 .. MaxRequests)
         /\ Len(Tail(pendingUserRequests)) = Len(pendingUserRequests) - 1
         /\ Len(pendingUserRequests) \in Nat /\ Len(pendingUserRequests) >= 1
         /\ Head(pendingUserRequests) \in 1 .. MaxRequests
         /\ Head(pendingUserRequests) = issued - Len(pendingUserRequests) + 1
         /\ \A i \in 1 .. Len(pendingUserRequests) - 1 :
              Tail(pendingUserRequests)[i] = issued - (Len(pendingUserRequests) - 1) + i
<1> DEFINE queue == pendingUserRequests
           n == Len(queue)
<1>1. queue \in Seq(1 .. MaxRequests) /\ n \in Nat /\ n >= 1 /\ issued \in Nat
  BY Lengths, EmptySeq, LenProperties
<1>2. /\ Head(queue) = queue[1] /\ Tail(queue) \in Seq(1 .. MaxRequests)
      /\ Len(Tail(queue)) = n - 1 /\ \A i \in 1 .. n - 1 : Tail(queue)[i] = queue[i + 1]
  BY <1>1, HeadTailProperties
<1>3. queue[1] \in 1 .. MaxRequests
  <2>1. 1 \in 1 .. n
    BY <1>1
  <2> QED
    BY <1>1, <2>1, ElementOfSeq
<1>4. \A i \in 1 .. n : queue[i] = issued - n + i
  BY DEF SlotControl
<1> HIDE DEF queue, n
<1>5. \A i \in 1 .. n - 1 : Tail(queue)[i] = issued - (n - 1) + i
  <2> TAKE i \in 1 .. n - 1
  <2>1. i + 1 \in 1 .. n /\ i \in Int
    BY <1>1
  <2>2. Tail(queue)[i] = queue[i + 1] /\ queue[i + 1] = issued - n + (i + 1)
    BY <2>1, <1>2, <1>4
  <2>3. issued - n + (i + 1) = issued - (n - 1) + i
    BY <2>1, <1>1
  <2> QED
    BY <2>2, <2>3
<1>6. queue[1] = issued - n + 1
  BY <1>1, <1>4
<1> QED
  BY <1>1, <1>2, <1>3, <1>5, <1>6 DEF queue, n

LEMMA AbortQueuedStep ==
  ASSUME IInv, AbortQueued, UNCHANGED <<sndVars, adapters>>
  PROVE  IInv'
<1> USE DEF AbortQueued, rcvVars, slotVars, coreRcvVars, taskVars
<1>1. TypeOK /\ PhaseControl /\ SlotControl /\ RanControl /\ SndControl
  BY DEF IInv, RcvControl
<1> DEFINE first == Head(pendingUserRequests)
           c == Completion("rcv", first, Aborted)
<1>2. first \in 1 .. MaxRequests /\ first = issued - Len(pendingUserRequests) + 1
  BY <1>1, QueueTail
<1>3. c \in CompletionSet /\ c.side = "rcv" /\ c.call = first
  BY <1>2 DEF Completion, CompletionSet
<1> HIDE DEF first, c
<1>4. RunHandler(c)
  BY DEF c, first
<1>5. /\ done' \in [Side -> Seq(CompletionSet)] /\ inHandler' = TRUE /\ ~inHandler
      /\ Ran' = Append(Ran, c) /\ SndRan' = SndRan
  BY <1>1, <1>3, <1>4, Running
<1>6. /\ Ran \in Seq(CompletionSet) /\ issued \in Nat /\ Len(pendingUserRequests) \in Nat
      /\ Len(Ran) \in Nat
  BY <1>1, Lengths
<1>7. Len(Ran) = issued - Len(pendingUserRequests)
  BY <1>1, <1>5, <1>6 DEF RanControl
<1>8. Len(Ran') = Len(Ran) + 1 /\ \A i \in 1 .. Len(Ran') : Ran'[i].side = "rcv" /\ Ran'[i].call = i
  <2> DEFINE ran1 == Append(Ran, c)
  <2>1. /\ Len(ran1) = Len(Ran) + 1 /\ \A i \in 1 .. Len(Ran) : ran1[i] = Ran[i]
        /\ ran1[Len(Ran) + 1] = c
        /\ \A i \in 1 .. Len(Ran) + 1 : i \in 1 .. Len(Ran) \/ i = Len(Ran) + 1
    BY <1>3, <1>6, Grown
  <2>2. \A i \in 1 .. Len(Ran) : Ran[i].side = "rcv" /\ Ran[i].call = i
    BY <1>1 DEF RanControl
  <2>3. c.call = Len(Ran) + 1
    BY <1>2, <1>3, <1>6, <1>7
  <2> HIDE DEF ran1
  <2>4. \A i \in 1 .. Len(ran1) : ran1[i].side = "rcv" /\ ran1[i].call = i
    BY <2>1, <2>2, <2>3, <1>3
  <2> QED
    BY <1>5, <2>1, <2>4 DEF ran1
<1>9. Len(Ran') = issued' - Len(pendingUserRequests') + 1
  BY <1>6, <1>7, <1>8
<1>10. TypeOK'
  BY <1>1, <1>5 DEF TypeOK, sndVars, coreSndVars
<1>11. PhaseControl'
  BY <1>1, <1>5 DEF PhaseControl, sndVars
<1>12. SlotControl'
  BY <1>1 DEF SlotControl
<1>13. RanControl'
  BY <1>5, <1>8, <1>9 DEF RanControl
<1>14. SndControl'
  BY <1>1, <1>5, SndLeftAlone DEF SavedHandlerRan
<1> QED
  BY <1>10, <1>11, <1>12, <1>13, <1>14, PastPolling DEF IInv, RcvControl, Aborting

LEMMA AbortQueuedReturnsStep ==
  ASSUME IInv, AbortQueuedReturns, UNCHANGED <<sndVars, adapters>>
  PROVE  IInv'
<1> USE DEF AbortQueuedReturns, rcvVars, slotVars, coreRcvVars, taskVars
<1> DEFINE n == Len(pendingUserRequests)
           rest == Tail(pendingUserRequests)
<1>1. /\ TypeOK /\ PhaseControl /\ SlotControl /\ RanControl /\ SndControl
      /\ userRequest # NoRequest /\ pendingUserRequests # <<>>
  BY DEF IInv, RcvControl, PhaseControl
<1>2. issued \in Nat /\ Len(Ran) \in Nat /\ n <= issued
  BY <1>1, Lengths DEF SlotControl
<1>3. /\ n \in Nat /\ n >= 1 /\ rest \in Seq(1 .. MaxRequests) /\ Len(rest) = n - 1
      /\ \A i \in 1 .. n - 1 : rest[i] = issued - (n - 1) + i
  BY <1>1, QueueTail
<1>4. pendingUserRequests' = rest /\ Ran' = Ran
  BY DEF Ran
<1>5. Len(Ran) = issued - n + 1
  BY <1>1 DEF RanControl
<1> HIDE DEF n, rest
<1>6. Len(Ran) = issued - Len(rest) /\ Len(rest) <= issued
  BY <1>2, <1>3, <1>5
<1>7. TypeOK'
  BY <1>1, <1>3, <1>4 DEF TypeOK, sndVars, coreSndVars
<1>8. PhaseControl'
  BY <1>1 DEF PhaseControl, sndVars, Aborting
<1>9. SlotControl'
  BY <1>1, <1>3, <1>4, <1>6 DEF SlotControl
<1>10. RanControl'
  <2>1. Len(Ran') = issued' - Len(pendingUserRequests')
    BY <1>4, <1>6
  <2>2. issued' - Len(pendingUserRequests') + 0 = issued' - Len(pendingUserRequests')
    BY <1>2, <1>3, <1>4
  <2>3. Len(Ran') = issued' - Len(pendingUserRequests') + 0
    BY <2>1, <2>2
  <2> QED
    BY <1>1, <1>4, <2>3 DEF RanControl
<1>11. SndControl'
  BY <1>1, SndLeftAlone DEF SavedHandlerRan, SndRan
<1> QED
  BY <1>7, <1>8, <1>9, <1>10, <1>11, PastPolling DEF IInv, RcvControl, Aborting

LEMMA NoneAbortedStep ==
  ASSUME IInv, NoneAborted, UNCHANGED <<sndVars, adapters>>
  PROVE  IInv'
<1> USE DEF NoneAborted, rcvVars, slotVars, coreRcvVars, taskVars
<1>1. TypeOK /\ PhaseControl /\ SlotControl /\ RanControl /\ SndControl
  BY DEF IInv, RcvControl
<1>2. issued \in Nat /\ Len(Ran) \in Nat /\ Ran' = Ran /\ Len(<<>>) = 0
  BY <1>1, Lengths DEF Ran
<1>3. pendingUserRequests = <<>>
  BY <1>1 DEF SlotControl
<1>4. Len(pendingUserRequests) = 0
  BY <1>2, <1>3
<1>5. Len(Ran) = issued
  <2>1. CASE phase = "abortHead" /\ userRequest = NoRequest
    <3>1. Served = issued
      BY <2>1, <1>2, <1>4 DEF Served, HeadCount
    <3> QED
      BY <2>1, <3>1, <1>1, <1>2 DEF RanControl
  <2>2. CASE phase = "abortQueue"
    BY <2>2, <1>1, <1>2, <1>4 DEF RanControl
  <2> QED
    BY <2>1, <2>2
<1>6. TypeOK'
  BY <1>1 DEF TypeOK, sndVars, coreSndVars
<1>7. PhaseControl'
  BY <1>1 DEF PhaseControl, sndVars, Aborting
<1>8. SlotControl'
  BY <1>1 DEF SlotControl
<1>9. RanControl'
  BY <1>1, <1>2, <1>5 DEF RanControl
<1>10. SndControl'
  BY <1>1, SndLeftAlone DEF SavedHandlerRan, SndRan
<1> QED
  BY <1>6, <1>7, <1>8, <1>9, <1>10, PastPolling DEF IInv, RcvControl, Aborting

-----------------------------------------------------------------------------
(* The steps of the sending adapter.                                       *)

(* Where a call may be made: with no handler saved, not while the          *)
(* destructor runs one.                                                    *)
LEMMA CallPhase ==
  ASSUME IInv, CallWithHandler
  PROVE  /\ calls \in Nat /\ calls' = calls + 1 /\ calls' \in Func /\ calls' \in 0 .. MaxCalls
         /\ calls' # NoFunc
         /\ onDoneFunc = NoFunc => BeforeAborts /\ ~SavedHandlerRan
         /\ \A f \in accepted : f <= calls /\ f \in Nat
         /\ calls' \notin accepted /\ ~InPosted(calls') /\ ~InRan(calls')
<1>1. calls \in Nat /\ calls' = calls + 1 /\ calls < MaxCalls /\ MaxCalls \in Nat
  BY Lengths, Constants DEF IInv, CallWithHandler, Assumptions
<1>2. calls' \in Func /\ calls' \in 0 .. MaxCalls /\ calls' # NoFunc
  BY <1>1 DEF Func, NoFunc
<1>3. onDoneFunc = NoFunc => BeforeAborts
  BY DEF IInv, PhaseControl, CallWithHandler, MayEnd, MayCall, BeforeAborts
<1>4. \A f \in accepted : f <= calls /\ f \in Nat
  <2>1. \A f \in accepted : f <= calls /\ f \in Func
    BY DEF IInv, SndControl, TypeOK
  <2> QED
    BY <1>1, <2>1 DEF Func
<1>5. calls' \notin accepted
  BY <1>1, <1>4
<1>6. ~InPosted(calls') /\ ~InRan(calls')
  BY <1>5 DEF InPosted, InRan, IInv, SndControl
<1> QED
  BY <1>1, <1>2, <1>3, <1>4, <1>5, <1>6 DEF BeforeAborts, SavedHandlerRan

(* A handler of an end of sending is posted: it leaves the slot, if it was *)
(* there.                                                                  *)
LEMMA PostSnd ==
  ASSUME TypeOK, SndControl, NEW f \in Func, NEW res \in {Flushed, Failed},
         OnSyncIoEndSendingDone(f, res), accepted' = accepted \cup {f},
         onDoneFunc \in {NoFunc, f}, ~InPosted(f), ~InRan(f), ~SavedHandlerRan,
         \A g \in accepted' : g <= calls', ~coreFlushing',
         UNCHANGED <<done, phase, inHandler>>
  PROVE  SndControl' /\ PostsOnly("snd") /\ posted' \in Seq(TaskSet)
<1> DEFINE t == Task(Completion("snd", f, res), FALSE)
           m == Len(posted)
           posted1 == Append(posted, t)
<1>1. t \in TaskSet /\ t.completion.side = "snd" /\ t.completion.call = f
  <2>1. t \in TaskSet
    BY SndTask
  <2> QED
    BY <2>1 DEF Task, Completion
<1>2. posted \in Seq(TaskSet) /\ posted' = posted1 /\ onDoneFunc' = NoFunc
  BY Lengths DEF OnSyncIoEndSendingDone
<1> HIDE DEF t
<1>3. /\ posted1 \in Seq(TaskSet) /\ m \in Nat /\ Len(posted1) = m + 1
      /\ \A i \in 1 .. m : posted1[i] = posted[i] /\ i \in 1 .. m + 1
      /\ posted1[m + 1] = t /\ m + 1 \in 1 .. m + 1
      /\ \A i \in 1 .. m + 1 : i \in 1 .. m \/ i = m + 1
  BY <1>1, <1>2, Grown
<1>4. PostsOnly("snd")
  <2> DEFINE more == <<t>>
  <2>1. more \in Seq(TaskSet) /\ Len(more) = 1 /\ more[1] = t
    BY <1>1
  <2>2. posted1 = posted \o more
    BY <1>1, <1>2, AppendIsConcat
  <2> HIDE DEF more
  <2>3. \A i \in 1 .. Len(more) : more[i].completion.side = "snd"
    BY <2>1, <1>1
  <2> QED
    BY <1>2, <2>1, <2>2, <2>3 DEF PostsOnly
<1> HIDE DEF m, posted1
<1> DEFINE OfSnd(i) == posted1[i].completion.side = "snd"
           Call(i) == posted1[i].completion.call
<1>5. \A i \in 1 .. m : (OfSnd(i) <=> IsPosted(i, "snd")) /\ Call(i) = PostedCall(i)
  BY <1>3 DEF IsPosted, PostedCall
<1>6. OfSnd(m + 1) /\ Call(m + 1) = f
  BY <1>1, <1>3
<1>7. /\ \A i \in 1 .. Len(posted') : (IsPosted(i, "snd")' <=> OfSnd(i)) /\ PostedCall(i)' = Call(i)
      /\ Len(posted') = m + 1 /\ \A i \in 1 .. m + 1 : i \in 1 .. m \/ i = m + 1
      /\ m + 1 \in 1 .. m + 1 /\ \A i \in 1 .. m : i \in 1 .. m + 1
  BY <1>2, <1>3 DEF IsPosted, PostedCall
<1> HIDE DEF OfSnd, Call
<1>8. \A g : InPosted(g)' <=> InPosted(g) \/ g = f
  <2>1. \A g : InPosted(g) <=> \E i \in 1 .. m : OfSnd(i) /\ Call(i) = g
    BY <1>5 DEF InPosted, m
  <2>2. \A g : InPosted(g)' <=> \E i \in 1 .. m + 1 : OfSnd(i) /\ Call(i) = g
    BY <1>7 DEF InPosted
  <2> QED
    BY <2>1, <2>2, <1>6, <1>7
<1>9. \A i \in 1 .. m : OfSnd(i) => Call(i) # f /\ Call(i) \in accepted /\ ~InRan(Call(i))
  BY <1>5 DEF InPosted, SndControl, m
<1>10. SndRan' = SndRan /\ (\A g : InRan(g)' <=> InRan(g)) /\ (SavedHandlerRan' <=> SavedHandlerRan)
  BY DEF SndRan, InRan, SavedHandlerRan
<1>11. \A i \in 1 .. m + 1 : OfSnd(i) => Call(i) \in accepted' /\ ~InRan(Call(i))
  BY <1>6, <1>7, <1>9
<1>12. ASSUME NEW i \in 1 .. m + 1, NEW j \in 1 .. m + 1, OfSnd(i), OfSnd(j), Call(i) = Call(j)
       PROVE  i = j
  <2>1. CASE i \in 1 .. m /\ j \in 1 .. m
    BY <2>1, <1>5, <1>12 DEF SndControl, m
  <2>2. CASE i = m + 1 \/ j = m + 1
    BY <2>2, <1>6, <1>7, <1>9, <1>12
  <2> QED
    BY <2>1, <2>2, <1>7
<1>13. \A g \in accepted' : InPosted(g)' \/ InRan(g)'
  <2>1. NoFunc \notin accepted
    BY DEF TypeOK, Func, NoFunc
  <2> QED
    BY <2>1, <1>8, <1>10 DEF SndControl
<1>14. \A i \in 1 .. Len(SndRan') : SndRan'[i].call \in accepted'
  BY <1>10 DEF SndControl
<1>15. \A i \in 1 .. Len(posted') : IsPosted(i, "snd")' => PostedCall(i)' \in accepted' /\ ~InRan(PostedCall(i))'
  <2> SUFFICES ASSUME NEW i \in 1 .. Len(posted'), IsPosted(i, "snd")'
               PROVE  PostedCall(i)' \in accepted' /\ ~InRan(PostedCall(i))'
    OBVIOUS
  <2>1. OfSnd(i) /\ i \in 1 .. m + 1 /\ PostedCall(i)' = Call(i)
    BY <1>7
  <2> QED
    BY <2>1, <1>10, <1>11 DEF InRan
<1>16. SndControl'
  <2>1. \A i, j \in 1 .. Len(posted') :
          IsPosted(i, "snd")' /\ IsPosted(j, "snd")' /\ PostedCall(i)' = PostedCall(j)' => i = j
    BY <1>7, <1>12
  <2>2. \A i, j \in 1 .. Len(SndRan') : SndRan'[i].call = SndRan'[j].call => i = j
    BY <1>10 DEF SndControl
  <2> QED
    BY <1>2, <1>13, <1>14, <1>15, <2>1, <2>2 DEF SndControl
<1> QED
  BY <1>2, <1>3, <1>4, <1>16

LEMMA EndSendingStep ==
  ASSUME IInv, EndSending, UNCHANGED <<rcvVars, adapters>>
  PROVE  IInv'
<1> USE DEF EndSending, workerVars, taskVars
<1>1. TypeOK'
  BY DEF IInv, TypeOK, rcvVars, slotVars, coreRcvVars
<1>2. PhaseControl'
  BY DEF IInv, PhaseControl, rcvVars, slotVars
<1>3. RcvControl'
  BY RcvLeftAlone DEF IInv, Ran
<1>4. SndControl'
  BY DEF IInv, SndControl, IsPosted, PostedCall, InPosted, InRan, SndRan, SavedHandlerRan
<1> QED
  BY <1>1, <1>2, <1>3, <1>4 DEF IInv

LEMMA RefusedStep ==
  ASSUME IInv, RefusedByAdapter \/ RefusedByCore, UNCHANGED <<rcvVars, adapters>>
  PROVE  IInv'
<1> USE DEF RefusedByAdapter, RefusedByCore, KeptOnRefusal, workerVars, taskVars, coreSndVars
<1>1. /\ calls' \in 0 .. MaxCalls /\ onDoneFunc' = onDoneFunc
      /\ \A f \in accepted : f <= calls /\ f \in Nat
      /\ calls \in Nat /\ calls' = calls + 1
  BY CallPhase
<1>2. TypeOK'
  BY <1>1 DEF IInv, TypeOK, rcvVars, slotVars, coreRcvVars
<1>3. PhaseControl'
  BY <1>1 DEF IInv, PhaseControl, rcvVars, slotVars
<1>4. RcvControl'
  BY RcvLeftAlone DEF IInv, Ran
<1>5. \A f \in accepted' : f <= calls'
  BY <1>1
<1>6. SndControl'
  <2>1. SndControl /\ UNCHANGED <<onDoneFunc, coreSndVars, accepted, posted, done, phase, inHandler>>
    BY <1>1 DEF IInv
  <2> QED
    BY ONLY <1>5, <2>1
    DEF SndControl, coreSndVars, IsPosted, PostedCall, InPosted, InRan, SndRan, SavedHandlerRan
<1> QED
  BY <1>2, <1>3, <1>4, <1>6 DEF IInv

LEMMA AcceptedWouldBlockStep ==
  ASSUME IInv, AcceptedWouldBlock, UNCHANGED <<rcvVars, adapters>>
  PROVE  IInv'
<1> USE DEF AcceptedWouldBlock, workerVars, taskVars
<1>1. /\ calls \in Nat /\ calls' = calls + 1 /\ calls' \in Func /\ calls' \in 0 .. MaxCalls
      /\ calls' # NoFunc /\ BeforeAborts /\ ~SavedHandlerRan
      /\ \A f \in accepted : f <= calls /\ f \in Nat
      /\ ~InPosted(calls') /\ ~InRan(calls')
  BY CallPhase
<1>2. TypeOK'
  BY <1>1 DEF IInv, TypeOK, rcvVars, slotVars, coreRcvVars
<1>3. PhaseControl'
  BY <1>1 DEF PhaseControl, BeforeAborts, Aborting
<1>4. RcvControl'
  BY RcvLeftAlone DEF IInv, Ran
<1>5. \A f \in accepted' : f <= calls'
  BY <1>1
<1>6. /\ SndRan' = SndRan /\ \A f : (InPosted(f)' <=> InPosted(f)) /\ (InRan(f)' <=> InRan(f))
      /\ \A i \in 1 .. Len(posted) :
           (IsPosted(i, "snd")' <=> IsPosted(i, "snd")) /\ PostedCall(i)' = PostedCall(i)
      /\ SavedHandlerRan' <=> SavedHandlerRan
  BY DEF IsPosted, PostedCall, InPosted, InRan, SndRan, SavedHandlerRan
<1>7. \A f \in accepted' : onDoneFunc' = f \/ InPosted(f)' \/ InRan(f)'
  <2>1. NoFunc \notin accepted
    BY DEF IInv, TypeOK, Func, NoFunc
  <2> QED
    BY <2>1, <1>6 DEF IInv, SndControl
<1>8. ~InPosted(onDoneFunc)' /\ ~InRan(onDoneFunc)'
  <2>1. InPosted(onDoneFunc)' <=> InPosted(calls')
    BY DEF InPosted, IsPosted, PostedCall
  <2>2. InRan(onDoneFunc)' <=> InRan(calls')
    BY DEF InRan, SndRan
  <2> QED
    BY <1>1, <2>1, <2>2
<1>9. \A i \in 1 .. Len(posted') : IsPosted(i, "snd")' => PostedCall(i)' \in accepted' /\ ~InRan(PostedCall(i))'
  BY <1>6 DEF IInv, SndControl, InRan
<1>10. SndControl'
  BY <1>1, <1>5, <1>6, <1>7, <1>8, <1>9 DEF IInv, SndControl
<1> QED
  BY <1>2, <1>3, <1>4, <1>10 DEF IInv

LEMMA AcceptedAtOnceStep ==
  ASSUME IInv, AcceptedAtOnce, UNCHANGED <<rcvVars, adapters>>
  PROVE  IInv'
<1> USE DEF AcceptedAtOnce, taskVars
<1>1. /\ calls \in Nat /\ calls' = calls + 1 /\ calls' \in Func /\ calls' \in 0 .. MaxCalls
      /\ BeforeAborts /\ ~SavedHandlerRan
      /\ \A f \in accepted : f <= calls /\ f \in Nat
      /\ ~InPosted(calls') /\ ~InRan(calls')
  BY CallPhase
<1>2. PICK res \in {Flushed, Failed} : OnSyncIoEndSendingDone(calls', res)
  OBVIOUS
<1>3. TypeOK /\ SndControl /\ RcvControl
  BY DEF IInv
<1>4. (\A f \in accepted' : f <= calls') /\ ~coreFlushing'
  <2>1. coreFlushing = FALSE
    BY <1>3 DEF SndControl, TypeOK
  <2> QED
    BY <1>1, <2>1
<1>5. SndControl' /\ PostsOnly("snd") /\ posted' \in Seq(TaskSet)
  BY <1>1, <1>2, <1>3, <1>4, PostSnd
<1>6. RcvControl'
  BY <1>3, <1>5, SndStepKeepsRcv DEF rcvFrame
<1>7. PhaseControl'
  BY <1>1 DEF PhaseControl, BeforeAborts, Aborting
<1>8. TypeOK'
  BY <1>1, <1>2, <1>3, <1>5
  DEF TypeOK, TaskSet, OnSyncIoEndSendingDone, rcvVars, slotVars, coreRcvVars
<1> QED
  BY <1>5, <1>6, <1>7, <1>8 DEF IInv

LEMMA CoreFlushedStep ==
  ASSUME IInv, CoreFlushed, UNCHANGED <<rcvVars, adapters>>
  PROVE  IInv'
<1> USE DEF CoreFlushed, taskVars
<1>1. TypeOK /\ SndControl /\ RcvControl /\ BeforeAborts /\ ~SavedHandlerRan
  BY DEF IInv, WorkerRuns, BeforeAborts, SavedHandlerRan
<1>2. PhaseControl'
  BY <1>1 DEF PhaseControl, BeforeAborts, Aborting
<1>3. CASE coreKeepsHandler
  <2>1. PICK res \in {Flushed, Failed} : OnSyncIoEndSendingDone(onDoneFunc, res)
    BY <1>3
  <2>2. /\ onDoneFunc \in accepted /\ onDoneFunc \in Func
        /\ ~InPosted(onDoneFunc) /\ ~InRan(onDoneFunc)
    BY <1>1, <1>3 DEF SndControl, TypeOK
  <2>3. accepted' = accepted \cup {onDoneFunc} /\ ~coreFlushing' /\ \A g \in accepted' : g <= calls'
    BY <1>1, <2>2 DEF SndControl
  <2>4. SndControl' /\ PostsOnly("snd") /\ posted' \in Seq(TaskSet)
    BY <1>1, <2>1, <2>2, <2>3, PostSnd
  <2>5. RcvControl'
    BY <1>1, <2>4, SndStepKeepsRcv DEF rcvFrame
  <2>6. TypeOK'
    BY <1>1, <2>1, <2>4
    DEF TypeOK, TaskSet, OnSyncIoEndSendingDone, rcvVars, slotVars, coreRcvVars
  <2> QED
    BY <1>2, <2>4, <2>5, <2>6 DEF IInv
<1>4. CASE ~coreKeepsHandler
  <2>1. UNCHANGED <<posted, onDoneFunc>>
    BY <1>4
  <2>2. TypeOK'
    BY <1>1, <2>1 DEF TypeOK, rcvVars, slotVars, coreRcvVars
  <2>3. RcvControl'
    BY <1>1, <2>1, RcvLeftAlone DEF Ran
  <2>4. SndControl'
    BY <1>1, <2>1 DEF SndControl, IsPosted, PostedCall, InPosted, InRan, SndRan, SavedHandlerRan
  <2> QED
    BY <1>2, <2>2, <2>3, <2>4 DEF IInv
<1> QED
  BY <1>3, <1>4

(* A handler that has not run runs.                                        *)
LEMMA RunSnd ==
  ASSUME TypeOK, SndControl, NEW c \in CompletionSet, SndRan' = Append(SndRan, c),
         c.call \in accepted, ~InRan(c.call)
  PROVE  /\ \A f : InRan(f)' <=> InRan(f) \/ f = c.call
         /\ \A i \in 1 .. Len(SndRan') : SndRan'[i].call \in accepted
         /\ \A i, j \in 1 .. Len(SndRan') : SndRan'[i].call = SndRan'[j].call => i = j
<1> DEFINE n == Len(SndRan)
           ran1 == Append(SndRan, c)
<1>1. SndRan \in Seq(CompletionSet)
  BY Lengths
<1>2. /\ n \in Nat /\ Len(ran1) = n + 1
      /\ \A i \in 1 .. n : ran1[i] = SndRan[i] /\ i \in 1 .. n + 1
      /\ ran1[n + 1] = c /\ n + 1 \in 1 .. n + 1
      /\ \A i \in 1 .. n + 1 : i \in 1 .. n \/ i = n + 1
  BY <1>1, Grown
<1>3. \A f : InRan(f) <=> \E i \in 1 .. n : SndRan[i].call = f
  BY DEF InRan
<1>4. /\ \A i \in 1 .. n : SndRan[i].call \in accepted
      /\ \A i, j \in 1 .. n : SndRan[i].call = SndRan[j].call => i = j
  BY DEF SndControl
<1> HIDE DEF n, ran1
<1>5. \A f : InRan(f)' <=> \E i \in 1 .. n + 1 : ran1[i].call = f
  BY <1>2 DEF InRan, ran1
<1>6. \A f : InRan(f)' <=> InRan(f) \/ f = c.call
  BY <1>2, <1>3, <1>5
<1>7. \A i \in 1 .. n + 1 : ran1[i].call \in accepted
  BY <1>2, <1>4
<1>8. \A i, j \in 1 .. n + 1 : ran1[i].call = ran1[j].call => i = j
  BY <1>2, <1>3, <1>4
<1> QED
  BY <1>2, <1>6, <1>7, <1>8 DEF ran1

LEMMA AbortSavedStep ==
  ASSUME IInv, AbortSaved, UNCHANGED <<rcvVars, adapters>>
  PROVE  IInv'
<1> USE DEF AbortSaved, taskVars, sndVars, coreSndVars
<1>1. TypeOK /\ PhaseControl /\ RcvControl /\ SndControl /\ ~inHandler /\ posted = <<>>
  BY DEF IInv, RunHandler, PhaseControl, Aborting
<1> DEFINE c == Completion("snd", onDoneFunc, Aborted)
<1>2. onDoneFunc \in accepted /\ onDoneFunc \in Func /\ ~InRan(onDoneFunc)
  BY <1>1 DEF SndControl, TypeOK, SavedHandlerRan
<1>3. c \in CompletionSet /\ c.side = "snd" /\ c.call = onDoneFunc
  BY <1>2, SndTask DEF Completion
<1> HIDE DEF c
<1>4. RunHandler(c)
  BY DEF c
<1>5. /\ done' \in [Side -> Seq(CompletionSet)] /\ inHandler' = TRUE
      /\ SndRan' = Append(SndRan, c) /\ Ran' = Ran
  BY <1>1, <1>3, <1>4, Running
<1>6. /\ \A f : InRan(f)' <=> InRan(f) \/ f = onDoneFunc
      /\ \A i \in 1 .. Len(SndRan') : SndRan'[i].call \in accepted
      /\ \A i, j \in 1 .. Len(SndRan') : SndRan'[i].call = SndRan'[j].call => i = j
  BY <1>1, <1>2, <1>3, <1>5, RunSnd
<1>7. \A i \in 1 .. Len(posted) : FALSE
  BY <1>1
<1>8. \A f : ~InPosted(f) /\ ~InPosted(f)'
  BY <1>7 DEF InPosted
<1>9. SavedHandlerRan' /\ InRan(onDoneFunc)'
  <2>1. InRan(onDoneFunc)' <=> \E i \in 1 .. Len(SndRan') : SndRan'[i].call = onDoneFunc
    BY DEF InRan
  <2> QED
    BY <1>5, <1>6, <2>1 DEF SavedHandlerRan, InRan
<1>10. SndControl'
  <2>1. ~InPosted(onDoneFunc)'
    BY <1>7 DEF InPosted
  <2> QED
    BY <1>1, <1>6, <1>7, <1>8, <1>9, <2>1 DEF SndControl
<1>11. TypeOK'
  BY <1>1, <1>5 DEF TypeOK, rcvVars, slotVars, coreRcvVars
<1>12. PhaseControl'
  BY <1>1, <1>5 DEF PhaseControl, rcvVars, slotVars
<1>13. RcvControl'
  <2>1. Served' = Served
    BY DEF rcvVars, slotVars, Served, HeadCount
  <2>2. SlotControl'
    BY <1>1 DEF RcvControl, SlotControl, rcvVars, slotVars, coreRcvVars
  <2>3. RanControl'
    BY <1>1, <1>5, <2>1 DEF RcvControl, RanControl, rcvVars
  <2> QED
    BY <2>2, <2>3, PastPolling DEF RcvControl, Aborting
<1> QED
  BY <1>10, <1>11, <1>12, <1>13 DEF IInv

LEMMA SndDtorReturnsStep ==
  ASSUME IInv, SndDtorReturns, UNCHANGED <<rcvVars, adapters>>
  PROVE  IInv'
<1> USE DEF SndDtorReturns, taskVars, sndVars, coreSndVars
<1>1. TypeOK /\ PhaseControl /\ RcvControl /\ SndControl
  BY DEF IInv
<1>2. onDoneFunc = NoFunc \/ InRan(onDoneFunc)
  BY <1>1 DEF SndControl, SavedHandlerRan
<1>3. SavedHandlerRan' /\ SndRan' = SndRan /\ Ran' = Ran
  BY DEF SavedHandlerRan, SndRan, Ran
<1>4. SndControl'
  BY <1>1, <1>2, <1>3 DEF SndControl, IsPosted, PostedCall, InPosted, InRan
<1>5. TypeOK'
  BY <1>1 DEF TypeOK, rcvVars, slotVars, coreRcvVars
<1>6. PhaseControl'
  BY <1>1 DEF PhaseControl, rcvVars, slotVars, Aborting
<1>7. RcvControl'
  <2>1. SlotControl'
    BY <1>1 DEF RcvControl, SlotControl, rcvVars, slotVars, coreRcvVars
  <2>2. RanControl'
    BY <1>1, <1>3 DEF RcvControl, RanControl, rcvVars
  <2> QED
    BY <2>1, <2>2, PastPolling DEF RcvControl, Aborting
<1> QED
  BY <1>4, <1>5, <1>6, <1>7 DEF IInv

-----------------------------------------------------------------------------
(* The steps of thread W and of the stream's destructor.                   *)

(* The first handler posted and the rest.                                  *)
LEMMA PostedTail ==
  ASSUME TypeOK, posted # <<>>
  PROVE  /\ Tail(posted) \in Seq(TaskSet) /\ Head(posted) \in TaskSet /\ Head(posted) = posted[1]
         /\ Len(posted) \in Nat /\ 1 \in 1 .. Len(posted)
         /\ Len(Tail(posted)) = Len(posted) - 1
         /\ \A i \in 1 .. Len(Tail(posted)) :
              /\ Tail(posted)[i] = posted[i + 1]
              /\ i + 1 \in 1 .. Len(posted) /\ i + 1 # 1
         /\ \A i \in 1 .. Len(posted) : i = 1 \/ (i - 1 \in 1 .. Len(Tail(posted)) /\ (i - 1) + 1 = i)
<1> DEFINE n == Len(posted)
           rest == Tail(posted)
<1>1. posted \in Seq(TaskSet) /\ n \in Nat /\ n >= 1
  BY Lengths, EmptySeq, LenProperties
<1>2. /\ Head(posted) = posted[1] /\ rest \in Seq(TaskSet)
      /\ Len(rest) = n - 1 /\ \A i \in 1 .. n - 1 : rest[i] = posted[i + 1]
  BY <1>1, HeadTailProperties
<1> HIDE DEF n, rest
<1>3. 1 \in 1 .. n /\ \A i \in 1 .. n - 1 : i + 1 \in 1 .. n /\ i + 1 # 1
  BY <1>1
<1>4. posted[1] \in TaskSet
  BY <1>1, <1>3, ElementOfSeq DEF n
<1>5. \A i \in 1 .. n : i = 1 \/ (i - 1 \in 1 .. n - 1 /\ (i - 1) + 1 = i)
  BY <1>1
<1> QED
  BY <1>1, <1>2, <1>3, <1>4, <1>5 DEF n, rest

(* The receives when the first handler posted is run.                      *)
LEMMA CallHandlerKeepsRcv ==
  ASSUME IInv, CallHandler, UNCHANGED <<rcvVars, sndVars, adapters>>
  PROVE  RcvControl'
<1> USE DEF CallHandler, rcvVars, slotVars, coreRcvVars
<1>1. TypeOK /\ BeforeAborts /\ RcvControl /\ posted # <<>>
  BY DEF IInv, PhaseControl, Aborting, BeforeAborts, TypeOK
<1> DEFINE c == Head(posted).completion
           rest == Tail(posted)
<1>2. /\ rest \in Seq(TaskSet) /\ Head(posted) \in TaskSet /\ Head(posted) = posted[1]
      /\ \A i \in 1 .. Len(rest) : rest[i] = posted[i + 1] /\ i + 1 \in 1 .. Len(posted)
      /\ 1 \in 1 .. Len(posted)
  BY <1>1, PostedTail
<1>3. c \in CompletionSet /\ (IsRcv(Head(posted)) <=> c.side = "rcv") /\ posted' = rest
  BY <1>2 DEF TaskSet, IsRcv
<1>4. c.side = "rcv" \/ c.side = "snd"
  BY <1>3 DEF CompletionSet
<1>5. posted \in Seq(TaskSet) /\ Len(Ran) \in Nat /\ Ran \in Seq(CompletionSet) /\ InOrder(posted, Len(Ran), Served)
  BY <1>1, Lengths DEF RcvControl, PostedControl
<1>6. Served \in Nat
  <2>1. Served \in Int
    BY <1>1, Lengths DEF Served, HeadCount
  <2> QED
    BY <1>5, <2>1 DEF InOrder
<1>7. /\ IsRcv(Head(posted)) =>
           c.call = Len(Ran) + 1 /\ Len(Ran) + 1 <= Served /\ InOrder(rest, Len(Ran) + 1, Served)
      /\ ~IsRcv(Head(posted)) => InOrder(rest, Len(Ran), Served)
  BY <1>1, <1>5, <1>6, OrderTail
<1>8. Served' = Served /\ BeforeAborts' /\ \A x : Due(x)' = Due(x)
  BY <1>1 DEF Served, HeadCount, BeforeAborts, Due
<1>9. \A i \in 1 .. Len(posted) :
        IsRcv(posted[i]) => posted[i].completion.res = Due(posted[i].completion.call)
  BY <1>1 DEF RcvControl, ResultControl
<1>10. RunHandler(c)
  OBVIOUS
<1> HIDE DEF c, rest
<1>11. \A i \in 1 .. Len(posted') :
         IsRcv(posted'[i]) => posted'[i].completion.res = Due(posted'[i].completion.call)
  BY <1>2, <1>3, <1>9
<1>12. SlotControl'
  BY <1>1 DEF RcvControl, SlotControl
<1>13. CASE c.side = "rcv"
  <2> DEFINE ran1 == Append(Ran, c)
             n == Len(Ran)
  <2>1. Ran' = ran1
    BY <1>1, <1>3, <1>10, <1>13, Running
  <2>2. /\ Len(ran1) = n + 1 /\ \A i \in 1 .. n : ran1[i] = Ran[i]
        /\ ran1[n + 1] = c /\ \A i \in 1 .. n + 1 : i \in 1 .. n \/ i = n + 1
    BY <1>3, <1>5, Grown
  <2>3. c.call = n + 1 /\ InOrder(rest, n + 1, Served)
    BY <1>3, <1>7, <1>13
  <2>4. c.res = Due(c.call)
    BY <1>2, <1>3, <1>9, <1>13 DEF c
  <2>5. /\ \A i \in 1 .. n : Ran[i].side = "rcv" /\ Ran[i].call = i /\ Ran[i].res = Due(i)
    BY <1>1 DEF RcvControl, RanControl, ResultControl
  <2> HIDE DEF ran1, n
  <2>6. \A i \in 1 .. n + 1 : ran1[i].side = "rcv" /\ ran1[i].call = i /\ ran1[i].res = Due(i)
    BY <2>2, <2>3, <2>4, <2>5, <1>13
  <2>7. RanControl'
    BY <1>8, <2>1, <2>2, <2>6 DEF RanControl, BeforeAborts
  <2>8. PostedControl'
    BY <1>3, <1>8, <2>1, <2>2, <2>3 DEF PostedControl
  <2>9. \A i \in 1 .. Len(Ran') : Ran'[i].res = Due(i)
    BY <2>1, <2>2, <2>6
  <2>10. ResultControl'
    BY <1>1, <1>8, <1>11, <2>9 DEF RcvControl, ResultControl, Due
  <2> QED
    BY <1>12, <2>7, <2>8, <2>10 DEF RcvControl
<1>14. CASE c.side = "snd"
  <2>1. Ran' = Ran
    BY <1>1, <1>3, <1>10, <1>14, Running
  <2>2. RanControl'
    BY <1>1, <1>8, <2>1 DEF RcvControl, RanControl, BeforeAborts
  <2>3. PostedControl'
    BY <1>3, <1>7, <1>8, <1>14, <2>1 DEF PostedControl
  <2>4. ResultControl'
    BY <1>1, <1>8, <1>11, <2>1 DEF RcvControl, ResultControl, Due
  <2> QED
    BY <1>12, <2>2, <2>3, <2>4 DEF RcvControl
<1> QED
  BY <1>4, <1>13, <1>14

(* The ends of sending when the first handler posted is run.               *)
LEMMA CallHandlerKeepsSnd ==
  ASSUME IInv, CallHandler, UNCHANGED <<rcvVars, sndVars, adapters>>
  PROVE  SndControl'
<1> USE DEF CallHandler, sndVars, coreSndVars
<1>1. TypeOK /\ BeforeAborts /\ BeforeAborts' /\ SndControl /\ posted # <<>>
  BY DEF IInv, PhaseControl, Aborting, BeforeAborts, TypeOK
<1> DEFINE c == Head(posted).completion
           rest == Tail(posted)
           OfSnd(i) == rest[i].completion.side = "snd"
           Call(i) == rest[i].completion.call
<1>2. /\ rest \in Seq(TaskSet) /\ Head(posted) \in TaskSet /\ Head(posted) = posted[1]
      /\ 1 \in 1 .. Len(posted)
      /\ \A i \in 1 .. Len(rest) : rest[i] = posted[i + 1] /\ i + 1 \in 1 .. Len(posted) /\ i + 1 # 1
      /\ \A i \in 1 .. Len(posted) : i = 1 \/ (i - 1 \in 1 .. Len(rest) /\ (i - 1) + 1 = i)
  BY <1>1, PostedTail
<1>3. /\ c \in CompletionSet /\ posted' = rest /\ RunHandler(c)
      /\ IsPosted(1, "snd") <=> c.side = "snd"
      /\ PostedCall(1) = c.call
  BY <1>2 DEF TaskSet, IsPosted, PostedCall
<1>4. c.side = "rcv" \/ c.side = "snd"
  BY <1>3 DEF CompletionSet
<1>5. \A i \in 1 .. Len(rest) : (OfSnd(i) <=> IsPosted(i + 1, "snd")) /\ Call(i) = PostedCall(i + 1)
  BY <1>2 DEF IsPosted, PostedCall
<1>6. \A i \in 1 .. Len(posted') : (IsPosted(i, "snd")' <=> OfSnd(i)) /\ PostedCall(i)' = Call(i)
  BY <1>3 DEF IsPosted, PostedCall
<1> HIDE DEF c, rest, OfSnd, Call
<1>7. \A f : InPosted(f)' <=> \E i \in 1 .. Len(rest) : OfSnd(i) /\ Call(i) = f
  BY <1>3, <1>6 DEF InPosted
<1>8. /\ \A i \in 1 .. Len(posted) : IsPosted(i, "snd") => PostedCall(i) \in accepted /\ ~InRan(PostedCall(i))
      /\ \A i, j \in 1 .. Len(posted) :
           IsPosted(i, "snd") /\ IsPosted(j, "snd") /\ PostedCall(i) = PostedCall(j) => i = j
      /\ \A f \in accepted : onDoneFunc = f \/ InPosted(f) \/ InRan(f)
      /\ onDoneFunc # NoFunc => onDoneFunc \in accepted /\ ~InPosted(onDoneFunc) /\ ~InRan(onDoneFunc)
  BY <1>1 DEF SndControl, SavedHandlerRan, BeforeAborts
<1>9. \A f : InPosted(f) => InPosted(f)' \/ (c.side = "snd" /\ f = c.call)
  <2> SUFFICES ASSUME NEW f, InPosted(f) PROVE InPosted(f)' \/ (c.side = "snd" /\ f = c.call)
    OBVIOUS
  <2>1. PICK i \in 1 .. Len(posted) : IsPosted(i, "snd") /\ PostedCall(i) = f
    BY DEF InPosted
  <2>2. CASE i = 1
    BY <2>1, <2>2, <1>3
  <2>3. CASE i - 1 \in 1 .. Len(rest) /\ (i - 1) + 1 = i
    BY <2>1, <2>3, <1>5, <1>7
  <2> QED
    BY <2>2, <2>3, <1>2
<1>10. \A f : InPosted(f)' => InPosted(f) /\ ~(c.side = "snd" /\ f = c.call)
  <2> SUFFICES ASSUME NEW f, InPosted(f)' PROVE InPosted(f) /\ ~(c.side = "snd" /\ f = c.call)
    OBVIOUS
  <2>1. PICK i \in 1 .. Len(rest) : OfSnd(i) /\ Call(i) = f
    BY <1>7
  <2>2. i + 1 \in 1 .. Len(posted) /\ i + 1 # 1 /\ IsPosted(i + 1, "snd") /\ PostedCall(i + 1) = f
    BY <2>1, <1>2, <1>5
  <2> QED
    BY <2>2, <1>2, <1>3, <1>8 DEF InPosted
<1>11. \A i, j \in 1 .. Len(rest) : OfSnd(i) /\ OfSnd(j) /\ Call(i) = Call(j) => i = j
  <2> SUFFICES ASSUME NEW i \in 1 .. Len(rest), NEW j \in 1 .. Len(rest),
                      OfSnd(i), OfSnd(j), Call(i) = Call(j)
               PROVE  i = j
    OBVIOUS
  <2>1. i + 1 \in 1 .. Len(posted) /\ j + 1 \in 1 .. Len(posted)
    BY <1>2
  <2>2. i + 1 = j + 1
    BY <2>1, <1>5, <1>8
  <2> QED
    BY <2>2
<1>12. \A i \in 1 .. Len(rest) : \A f :
         OfSnd(i) /\ Call(i) = f => f \in accepted /\ ~InRan(f) /\ InPosted(f)'
  BY <1>2, <1>5, <1>7, <1>8
<1>13. ~SavedHandlerRan'
  BY <1>1 DEF SavedHandlerRan, BeforeAborts
<1>14. /\ \A f : InRan(f)' <=> InRan(f) \/ (c.side = "snd" /\ f = c.call)
       /\ \A i \in 1 .. Len(SndRan') : SndRan'[i].call \in accepted
       /\ \A i, j \in 1 .. Len(SndRan') : SndRan'[i].call = SndRan'[j].call => i = j
  <2>1. CASE c.side = "rcv"
    <3>1. SndRan' = SndRan
      BY <1>1, <1>3, <2>1, Running
    <3> QED
      BY <1>1, <2>1, <3>1 DEF SndControl, InRan
  <2>2. CASE c.side = "snd"
    <3>1. SndRan' = Append(SndRan, c)
      BY <1>1, <1>3, <2>2, Running
    <3>2. c.call \in accepted /\ ~InRan(c.call)
      BY <1>2, <1>3, <1>8, <2>2
    <3> QED
      BY <1>1, <1>3, <2>2, <3>1, <3>2, RunSnd
  <2> QED
    BY <1>4, <2>1, <2>2
<1>15. \A i \in 1 .. Len(posted') :
         IsPosted(i, "snd")' => PostedCall(i)' \in accepted' /\ ~InRan(PostedCall(i))'
  <2> SUFFICES ASSUME NEW i \in 1 .. Len(posted'), IsPosted(i, "snd")'
               PROVE  PostedCall(i)' \in accepted /\ ~InRan(PostedCall(i))'
    OBVIOUS
  <2>1. PICK f : i \in 1 .. Len(rest) /\ OfSnd(i) /\ Call(i) = f /\ PostedCall(i)' = f
    BY <1>3, <1>6
  <2>2. f \in accepted /\ ~InRan(f) /\ InPosted(f)'
    BY <2>1, <1>12
  <2>3. ~(c.side = "snd" /\ f = c.call)
    BY <2>2, <1>10
  <2>4. \A g : g = PostedCall(i)' => (InRan(PostedCall(i))' <=> \E k \in 1 .. Len(SndRan') : SndRan'[k].call = g)
    BY DEF InRan
  <2>5. \A g : InRan(g)' <=> \E k \in 1 .. Len(SndRan') : SndRan'[k].call = g
    BY DEF InRan
  <2>6. ~\E k \in 1 .. Len(SndRan') : SndRan'[k].call = f
    BY <2>2, <2>3, <2>5, <1>14
  <2> QED
    BY <2>1, <2>2, <2>4, <2>6
<1>16. \A i, j \in 1 .. Len(posted') :
         IsPosted(i, "snd")' /\ IsPosted(j, "snd")' /\ PostedCall(i)' = PostedCall(j)' => i = j
  BY <1>3, <1>6, <1>11
<1>17. \A f \in accepted : onDoneFunc = f \/ InPosted(f)' \/ InRan(f)'
  BY <1>8, <1>9, <1>14
<1>18. onDoneFunc # NoFunc => ~InPosted(onDoneFunc)' /\ ~InRan(onDoneFunc)'
  <2> SUFFICES ASSUME onDoneFunc # NoFunc PROVE ~InPosted(onDoneFunc)' /\ ~InRan(onDoneFunc)'
    OBVIOUS
  <2>1. \A g : g = onDoneFunc' =>
          /\ InPosted(onDoneFunc)' <=> \E i \in 1 .. Len(posted') : IsPosted(i, "snd")' /\ PostedCall(i)' = g
          /\ InRan(onDoneFunc)' <=> \E k \in 1 .. Len(SndRan') : SndRan'[k].call = g
    BY DEF InPosted, InRan
  <2>2. \A g : /\ InPosted(g)' <=> \E i \in 1 .. Len(posted') : IsPosted(i, "snd")' /\ PostedCall(i)' = g
               /\ InRan(g)' <=> \E k \in 1 .. Len(SndRan') : SndRan'[k].call = g
    BY DEF InPosted, InRan
  <2>3. PICK g : g = onDoneFunc
    OBVIOUS
  <2>4. ~InPosted(g)' /\ ~InRan(g)'
    <3>1. ~InPosted(g)
      BY <1>8, <2>3
    <3>2. ~InPosted(g)'
      BY <3>1, <1>10
    <3>3. ~(c.side = "snd" /\ g = c.call)
      <4> SUFFICES ASSUME c.side = "snd", g = c.call PROVE FALSE
        OBVIOUS
      <4> QED
        BY <3>1, <1>2, <1>3 DEF InPosted
    <3> QED
      BY <3>2, <3>3, <1>8, <1>14, <2>3
  <2>5. g = onDoneFunc'
    BY <2>3
  <2> QED
    BY <2>1, <2>2, <2>4, <2>5
<1>19. onDoneFunc' = onDoneFunc /\ accepted' = accepted
  OBVIOUS
<1> QED
  BY <1>1, <1>13, <1>14, <1>15, <1>16, <1>17, <1>18, <1>19 DEF SndControl

LEMMA CallHandlerStep ==
  ASSUME IInv, CallHandler, UNCHANGED <<rcvVars, sndVars, adapters>>
  PROVE  IInv'
<1> USE DEF CallHandler
<1>1. TypeOK /\ BeforeAborts /\ posted # <<>>
  BY DEF IInv, PhaseControl, Aborting, BeforeAborts, TypeOK
<1>2. Tail(posted) \in Seq(TaskSet) /\ Head(posted) \in TaskSet
  BY <1>1, PostedTail
<1>3. Head(posted).completion \in CompletionSet /\ Head(posted).more \in BOOLEAN
  BY <1>2 DEF TaskSet
<1>4. done' \in [Side -> Seq(CompletionSet)] /\ inHandler' = TRUE
  BY <1>1, <1>3, Running
<1>5. TypeOK'
  BY <1>1, <1>2, <1>3, <1>4
  DEF TypeOK, TaskSet, rcvVars, slotVars, coreRcvVars, sndVars, coreSndVars
<1>6. PhaseControl'
  BY <1>1 DEF PhaseControl, BeforeAborts, Aborting
<1> QED
  BY <1>5, <1>6, CallHandlerKeepsRcv, CallHandlerKeepsSnd DEF IInv

(* Steps that only take the thread or the destructor further.              *)
LEMMA OtherStep ==
  ASSUME IInv, HandlerReturns \/ Destroy \/ WorkerStopped \/ SyncConnect,
         UNCHANGED <<rcvVars, sndVars>>, adapters' \subseteq Side
  PROVE  IInv'
<1>1. /\ UNCHANGED <<posted, looping, inTask, done>>
      /\ phase \in {"alive", "stopping", "polling"} /\ phase' \in {"alive", "stopping", "polling"}
      /\ inHandler' \in BOOLEAN
  <2>1. TypeOK
    BY DEF IInv
  <2>2. CASE HandlerReturns
    BY <2>2 DEF HandlerReturns, taskVars
  <2>3. CASE Destroy \/ WorkerStopped \/ SyncConnect
    BY <2>1, <2>3 DEF Destroy, WorkerStopped, SyncConnect, PhaseAfterStop, workerVars, taskVars, TypeOK
  <2> QED
    BY <2>2, <2>3
<1>2. TypeOK /\ RcvControl /\ SndControl
  BY DEF IInv
<1>3. TypeOK'
  BY <1>1, <1>2 DEF TypeOK, rcvVars, slotVars, coreRcvVars, sndVars, coreSndVars
<1>4. SndRan' = SndRan /\ Ran' = Ran /\ (SavedHandlerRan' <=> SavedHandlerRan)
  BY <1>1 DEF SndRan, Ran, SavedHandlerRan
<1>5. SndControl'
  BY <1>1, <1>2, <1>4, SndLeftAlone
<1>6. PhaseControl'
  BY <1>1 DEF PhaseControl, Aborting
<1>7. RcvControl'
  BY <1>1, <1>2, <1>4, RcvLeftAlone DEF BeforeAborts
<1> QED
  BY <1>3, <1>5, <1>6, <1>7 DEF IInv

(* When poll() has returned every request answered has been reported.      *)
LEMMA PollReturnsStep ==
  ASSUME IInv, PollReturns, UNCHANGED <<rcvVars, sndVars, adapters>>
  PROVE  IInv'
<1> USE DEF PollReturns, taskVars, WorkerFree
<1>1. TypeOK /\ RcvControl /\ SndControl
  BY DEF IInv
<1>2. TypeOK'
  BY <1>1 DEF TypeOK, rcvVars, slotVars, coreRcvVars, sndVars, coreSndVars
<1>3. SndRan' = SndRan /\ Ran' = Ran /\ (SavedHandlerRan' <=> SavedHandlerRan)
  BY DEF SndRan, Ran, SavedHandlerRan
<1>4. SndControl'
  BY <1>1, <1>3, SndLeftAlone
<1>5. PhaseControl'
  BY DEF PhaseControl, Aborting
<1>6. Len(Ran) = Served
  <2>1. Len(Ran) \in Nat /\ Served \in Int
    BY <1>1, Lengths DEF Served, HeadCount
  <2>2. InOrder(posted, Len(Ran), Served)
    BY <1>1 DEF RcvControl, PostedControl, BeforeAborts
  <2>3. \A i \in 1 .. Len(posted) : FALSE
    OBVIOUS
  <2>4. Len(Ran) <= Served /\ \A c \in Len(Ran) + 1 .. Served : FALSE
    BY <2>2, <2>3 DEF InOrder
  <2> QED
    BY <2>1, <2>4
<1>7. Served' = Served
  BY DEF Served, HeadCount, rcvVars, slotVars
<1>8. SlotControl'
  BY <1>1 DEF RcvControl, SlotControl, rcvVars, slotVars, coreRcvVars
<1>9. RanControl'
  <2>1. Len(Ran') = Served' + 0
    BY <1>3, <1>6, <1>7, <1>1, Lengths
  <2> QED
    BY <1>1, <1>3, <2>1 DEF RcvControl, RanControl
<1> QED
  BY <1>2, <1>4, <1>5, <1>8, <1>9, PastPolling DEF IInv, RcvControl, Aborting

-----------------------------------------------------------------------------
(* The theorems.                                                           *)

THEOREM InitEstablishesIInv == Init => IInv
<1> SUFFICES ASSUME Init PROVE IInv
  OBVIOUS
<1> USE DEF Init, WorkerInit, RcvInit, SndInit
<1>1. /\ Ran = <<>> /\ SndRan = <<>> /\ Len(posted) = 0 /\ Len(Ran) = 0 /\ Len(SndRan) = 0
      /\ Len(pendingUserRequests) = 0
  BY DEF Ran, SndRan, Side
<1>2. TypeOK
  <2>1. /\ <<>> \in Seq(TaskSet) /\ <<>> \in Seq(CompletionSet) /\ <<>> \in Seq(1 .. MaxRequests)
        /\ done \in [Side -> Seq(CompletionSet)]
    OBVIOUS
  <2>2. 0 \in 0 .. MaxRequests /\ 0 \in 0 .. MaxMessages /\ 0 \in 0 .. MaxCalls
    BY Constants DEF Assumptions
  <2> QED
    BY <2>1, <2>2 DEF TypeOK, TaskSet, NoRequest, NoFunc, Side
<1>3. PhaseControl
  BY DEF PhaseControl, Aborting
<1>4. Served = 0 /\ SlotControl
  <2>1. userRequest = NoRequest /\ issued = 0 /\ issued - Len(pendingUserRequests) - 0 = 0
    <3>1. issued = 0 /\ Len(pendingUserRequests) = 0 /\ userRequest = NoRequest
      BY <1>1
    <3> QED
      BY ONLY <3>1
  <2> QED
    BY <1>1, <2>1 DEF Served, HeadCount, SlotControl
<1>5. RanControl /\ PostedControl /\ ResultControl
  BY <1>1, <1>4 DEF RanControl, PostedControl, ResultControl, InOrder
<1>6. SndControl
  BY <1>1 DEF SndControl, SavedHandlerRan, InPosted, InRan, NoFunc
<1> QED
  BY <1>2, <1>3, <1>4, <1>5, <1>6 DEF IInv, RcvControl

(* Every step of every thread keeps the invariant.                         *)
THEOREM NextKeepsIInv == IInv /\ [Next]_vars => IInv'
<1> SUFFICES ASSUME IInv, [Next]_vars PROVE IInv'
  OBVIOUS
<1>1. CASE SyncConnect
  <2>1. UNCHANGED <<rcvVars, sndVars>> /\ adapters' \subseteq Side
    BY <1>1 DEF SyncConnect
  <2> QED
    BY <1>1, <2>1, OtherStep
<1>2. CASE User
  <2>1. CASE Receives /\ UNCHANGED <<sndVars, adapters>>
    BY <2>1, QueueRequestStep, ReceiveWouldBlockStep, ReceiveAtOnceStep DEF Receives
  <2>2. CASE EndsSending /\ UNCHANGED <<rcvVars, adapters>>
    BY <2>2, EndSendingStep, RefusedStep, AcceptedWouldBlockStep, AcceptedAtOnceStep
    DEF EndsSending
  <2>3. CASE Destroy /\ UNCHANGED <<rcvVars, sndVars, adapters>>
    BY <2>3, OtherStep DEF IInv, TypeOK
  <2> QED
    BY <1>2, <2>1, <2>2, <2>3 DEF User, SocketStreamCalls, MqSenderCalls, MqReceiverCalls
<1>3. CASE Worker
  <2>1. CASE ServeNext /\ UNCHANGED <<sndVars, adapters>>
    BY <2>1, ServeNextAtOnceStep, ServeNextWouldBlockStep DEF ServeNext
  <2>2. CASE CallHandler /\ UNCHANGED <<rcvVars, sndVars, adapters>>
    BY <2>2, CallHandlerStep
  <2>3. CASE HandlerReturns /\ UNCHANGED <<rcvVars, sndVars, adapters>>
    BY <2>3, OtherStep DEF IInv, TypeOK
  <2> QED
    BY <1>3, <2>1, <2>2, <2>3 DEF Worker
<1>4. CASE Destructor
  <2>1. CASE (WorkerStopped \/ PollReturns) /\ UNCHANGED <<rcvVars, sndVars, adapters>>
    BY <2>1, OtherStep, PollReturnsStep DEF IInv, TypeOK
  <2>2. CASE RcvDtor /\ UNCHANGED <<sndVars, adapters>>
    BY <2>2, AbortHeadStep, AbortHeadReturnsStep, AbortQueuedStep, AbortQueuedReturnsStep,
       NoneAbortedStep DEF RcvDtor
  <2>3. CASE SndDtor /\ UNCHANGED <<rcvVars, adapters>>
    BY <2>3, AbortSavedStep, SndDtorReturnsStep DEF SndDtor
  <2> QED
    BY <1>4, <2>1, <2>2, <2>3 DEF Destructor, SocketStreamDtor, MqSenderDtor, MqReceiverDtor
<1>5. CASE SndFlushes
  BY <1>5, CoreFlushedStep DEF SndFlushes
<1>6. CASE OnSyncIoRcvDone /\ UNCHANGED <<sndVars, adapters>>
  BY <1>6, OnSyncIoRcvDoneStep
<1>7. CASE UNCHANGED vars
  <2> USE <1>7 DEF vars, workerVars, taskVars, rcvVars, slotVars, coreRcvVars, sndVars, coreSndVars
  <2>1. TypeOK' /\ PhaseControl'
    BY DEF IInv, TypeOK, PhaseControl
  <2>2. RcvControl'
    BY RcvLeftAlone DEF IInv, Ran
  <2>3. SndControl'
    BY SndLeftAlone DEF IInv, SndRan, SavedHandlerRan
  <2> QED
    BY <2>1, <2>2, <2>3 DEF IInv
<1> QED
  BY <1>1, <1>2, <1>3, <1>4, <1>5, <1>6, <1>7 DEF Next

THEOREM InvariantHolds == Spec => []IInv
BY InitEstablishesIInv, NextKeepsIInv, PTL DEF Spec

(* Types; in particular a request that is done never had would-block.      *)
THEOREM TypeCorrectness == Spec => []TypeOK
<1>1. IInv => TypeOK
  BY DEF IInv
<1> QED
  BY <1>1, InvariantHolds, PTL

(* Every request is in exactly one place, in order through the places.     *)
THEOREM RequestsStayInOrder == Spec => []RequestsInOrder
<1>1. IInv => RequestsInOrder
  <2> SUFFICES ASSUME IInv, BeforeAborts
               PROVE  /\ \A i \in 1 .. Len(Ran) : Ran[i].call = i
                      /\ {posted[i].completion.call : i \in PostedOf("rcv")} = Len(Ran) + 1 .. Answered
                      /\ \A i, j \in PostedOf("rcv") :
                           i < j => posted[i].completion.call < posted[j].completion.call
                      /\ \A i \in 1 .. Len(Waiting) : Waiting[i] = Answered + i
    BY DEF RequestsInOrder
  <2>1. TypeOK /\ InOrder(posted, Len(Ran), Served) /\ \A i \in 1 .. Len(Ran) : Ran[i].call = i
    BY DEF IInv, RcvControl, RanControl, PostedControl
  <2> DEFINE n == Len(pendingUserRequests)
  <2>2. /\ pendingUserRequests \in Seq(1 .. MaxRequests) /\ n \in Nat /\ issued \in Nat
        /\ posted \in Seq(TaskSet) /\ Len(Ran) \in Nat
    BY <2>1, Lengths
  <2>3. Answered = Served /\ \A i \in 1 .. Len(Waiting) : Waiting[i] = Answered + i
    <3>1. CASE userRequest = NoRequest
      <4>1. pendingUserRequests = <<>> /\ n = 0
        BY <3>1 DEF IInv, RcvControl, SlotControl
      <4>2. Waiting = <<>> /\ Len(Waiting) = 0
        BY <3>1, <4>1 DEF Waiting
      <4> QED
        BY <3>1, <4>1, <4>2, <2>2 DEF Answered, Served, HeadCount
    <3>2. CASE userRequest # NoRequest
      <4>1. /\ userRequest \in 1 .. MaxRequests /\ userRequest = Served + 1
            /\ issued = userRequest + n
            /\ \A i \in 1 .. n : pendingUserRequests[i] = userRequest + i
        BY <3>2, HeadIsNext
      <4> DEFINE head == <<userRequest>>
      <4>2. head \in Seq(1 .. MaxRequests) /\ Len(head) = 1 /\ head[1] = userRequest
        BY <4>1
      <4>3. Waiting = head \o pendingUserRequests
        BY <3>2 DEF Waiting
      <4> HIDE DEF head
      <4>4. /\ Len(head \o pendingUserRequests) = 1 + n
            /\ (head \o pendingUserRequests)[1] = userRequest
            /\ \A i \in 1 .. n : (head \o pendingUserRequests)[1 + i] = pendingUserRequests[i]
        <5> DEFINE queue == pendingUserRequests
                   both == head \o queue
                   S == 1 .. MaxRequests
        <5>0. head \in Seq(S) /\ queue \in Seq(S)
          BY <4>2, <2>2
        <5> HIDE DEF S
        <5>1. /\ Len(both) = Len(head) + Len(queue)
              /\ \A i \in 1 .. Len(head) : both[i] = head[i]
              /\ \A i \in 1 .. Len(queue) : both[Len(head) + i] = queue[i]
          BY <5>0, Joined
        <5> HIDE DEF queue, both
        <5>2. /\ Len(both) = 1 + Len(queue) /\ both[1] = userRequest
              /\ \A i \in 1 .. Len(queue) : both[1 + i] = queue[i]
          BY <5>1, <4>2
        <5> QED
          BY <5>2 DEF queue, both
      <4>5. Answered = userRequest - 1 /\ Served = userRequest - 1
        BY <4>1, <4>3, <4>4, <2>2 DEF Answered, Served, HeadCount
      <4> HIDE DEF n
      <4>6. \A i \in 1 .. 1 + n : Waiting[i] = Answered + i
        <5> TAKE i \in 1 .. 1 + n
        <5>1. CASE i = 1
          BY <5>1, <4>1, <4>3, <4>4, <4>5
        <5>2. CASE i # 1
          <6>1. i - 1 \in 1 .. n /\ 1 + (i - 1) = i
            BY <5>2, <2>2
          <6>2. Waiting[i] = userRequest + (i - 1)
            BY <6>1, <4>1, <4>3, <4>4
          <6> QED
            BY <6>1, <6>2, <4>1, <4>5
        <5> QED
          BY <5>1, <5>2
      <4> QED
        BY <4>3, <4>4, <4>5, <4>6
    <3> QED
      BY <3>1, <3>2
  <2>4. PostedOf("rcv") = {i \in 1 .. Len(posted) : IsRcv(posted[i])}
    BY DEF PostedOf, IsRcv
  <2>5. {posted[i].completion.call : i \in PostedOf("rcv")} = Len(Ran) + 1 .. Served
    <3>1. \A i \in PostedOf("rcv") : posted[i].completion.call \in Len(Ran) + 1 .. Served
      <4>1. \A i \in 1 .. Len(posted) : IsRcv(posted[i]) =>
              /\ posted[i].completion.call \in Int
              /\ Len(Ran) < posted[i].completion.call /\ posted[i].completion.call <= Served
        BY <2>1, <2>2, CallIsNumber DEF InOrder
      <4>2. Served \in Int
        BY <2>2 DEF Served, HeadCount
      <4> QED
        BY <4>1, <4>2, <2>2, <2>4
    <3>2. \A c \in Len(Ran) + 1 .. Served : \E i \in PostedOf("rcv") : posted[i].completion.call = c
      BY <2>1, <2>4 DEF InOrder
    <3> QED
      BY <3>1, <3>2
  <2>6. \A i, j \in PostedOf("rcv") : i < j => posted[i].completion.call < posted[j].completion.call
    BY <2>1, <2>4 DEF InOrder
  <2> QED
    BY <2>1, <2>3, <2>5, <2>6
<1> QED
  BY <1>1, InvariantHolds, PTL

(* The handler of an accepted end of sending runs once, whenever the object*)
(* is destroyed and whatever the core does with it; a refused one never.   *)
THEOREM AcceptedHandlersRunOnce == Spec => []AcceptedHandlerRunsOnce
<1>1. IInv => AcceptedHandlerRunsOnce
  <2> SUFFICES ASSUME IInv PROVE AcceptedHandlerRunsOnce
    OBVIOUS
  <2>1. /\ TypeOK /\ PhaseControl
        /\ \A i \in 1 .. Len(SndRan) : SndRan[i].call \in accepted
        /\ \A i, j \in 1 .. Len(SndRan) : SndRan[i].call = SndRan[j].call => i = j
        /\ \A f \in accepted : onDoneFunc = f \/ InPosted(f) \/ InRan(f)
        /\ phase = "gone" => onDoneFunc = NoFunc \/ InRan(onDoneFunc)
    BY DEF IInv, SndControl, SavedHandlerRan
  <2>2. \A f : RunsOf(f) = {i \in 1 .. Len(SndRan) : SndRan[i].call = f}
    BY DEF RunsOf, SndRan
  <2>3. \A f \in Func : \A i, j \in RunsOf(f) : i = j
    BY <2>1, <2>2
  <2>4. phase = "gone" => \A f \in accepted : RunsOf(f) # {}
    <3> SUFFICES ASSUME phase = "gone", NEW f \in accepted PROVE RunsOf(f) # {}
      OBVIOUS
    <3>1. posted = <<>> /\ f # NoFunc
      BY <2>1 DEF PhaseControl, Aborting, TypeOK, Func, NoFunc
    <3>2. ~InPosted(f)
      <4>1. \A i \in 1 .. Len(posted) : FALSE
        BY <3>1
      <4> QED
        BY <4>1 DEF InPosted
    <3>3. InRan(f)
      BY <2>1, <3>1, <3>2
    <3> QED
      BY <3>3, <2>2 DEF InRan
  <2>5. \A f \in Func \ accepted : RunsOf(f) = {}
    BY <2>1, <2>2
  <2> QED
    BY <2>3, <2>4, <2>5 DEF AcceptedHandlerRunsOnce
<1> QED
  BY <1>1, InvariantHolds, PTL

-----------------------------------------------------------------------------
(* The refinement: to the user, the steps are a request, a completion, the *)
(* end, or nothing.                                                        *)

Gone == phase \in {"abortSnd", "gone"}

(* The results the user has seen.                                          *)
LEMMA ResultsSeen ==
  ASSUME TypeOK, RanControl
  PROVE  /\ Len(Ran) \in Nat
         /\ Results = [i \in 1 .. Len(Ran) |-> Ran[i].res]
         /\ Results \in Seq(Int) /\ Len(Results) = Len(Ran)
         /\ \A i \in 1 .. Len(Ran) : Results[i] = Ran[i].res
         /\ Results # <<>> <=> Len(Ran) # 0
<1> DEFINE n == Len(Ran)
<1>1. Ran \in Seq(CompletionSet) /\ n \in Nat
  BY Lengths
<1>2. \A i \in 1 .. n : Ran[i] \in CompletionSet
  BY <1>1, ElementOfSeq
<1>3. \A i \in 1 .. n : Ran[i].call = i /\ Ran[i].res \in Int
  BY <1>2, Constants DEF RanControl, CompletionSet, Failed, Aborted, Flushed, Assumptions
<1>4. Results = [i \in 1 .. n |-> Ran[i].res]
  BY <1>3 DEF Results
<1> HIDE DEF n
<1>5. Results \in [1 .. n -> Int]
  BY <1>3, <1>4
<1>6. Results \in Seq(Int) /\ Len(Results) = n
  BY <1>1, <1>5
<1>7. \A i \in 1 .. n : Results[i] = Ran[i].res
  BY <1>4
<1>8. Results # <<>> <=> n # 0
  BY <1>6, EmptySeq
<1> QED
  BY <1>1, <1>4, <1>6, <1>7, <1>8 DEF n

(* Nothing that the user sees.                                             *)
LEMMA StepUnseen ==
  ASSUME Ran' = Ran, issued' = issued, Gone' <=> Gone
  PROVE  UNCHANGED Abstract!vars
BY DEF Abstract!vars, Results, Gone

(* A request.                                                              *)
LEMMA StepIssues ==
  ASSUME Ran' = Ran, issued' = issued + 1, ~Gone, ~Gone'
  PROVE  Abstract!Next
BY DEF Abstract!Next, Abstract!Issue, Results, Gone

(* A completion.                                                           *)
LEMMA StepCompletes ==
  ASSUME TypeOK, RanControl, TypeOK', RanControl', NEW c \in CompletionSet,
         Ran' = Append(Ran, c), Len(Ran) < issued, issued' = issued, ~Gone, ~Gone',
         c.res \in {Len(Ran) + 1, Failed, Aborted}, Abstract!MayFollow(Results, c.res)
  PROVE  Abstract!Next
<1> DEFINE n == Len(Ran)
           r == c.res
<1>1. Ran \in Seq(CompletionSet) /\ n \in Nat
  BY Lengths
<1>2. Len(Ran') = n + 1 /\ (\A i \in 1 .. n : Ran'[i] = Ran[i]) /\ Ran'[n + 1] = c
  BY <1>1, Grown
<1>3. Results = [i \in 1 .. n |-> Ran[i].res] /\ Results \in Seq(Int) /\ Len(Results) = n
  BY ResultsSeen
<1>4. \A i \in 1 .. Len(Ran') : Ran'[i].call = i
  BY DEF RanControl
<1>5. Results' = [i \in 1 .. n + 1 |-> Ran'[i].res]
  BY <1>2, <1>4 DEF Results
<1>6. r \in Int
  BY <1>1 DEF Failed, Aborted
<1> HIDE DEF n, r
<1>7. /\ Append(Results, r) \in Seq(Int) /\ Len(Append(Results, r)) = n + 1
      /\ \A i \in 1 .. n : Append(Results, r)[i] = Results[i]
      /\ Append(Results, r)[n + 1] = r
  <2> DEFINE before == Results
  <2>1. before \in Seq(Int) /\ Len(before) = n
    BY <1>3
  <2> HIDE DEF before
  <2>2. /\ Append(before, r) \in Seq(Int) /\ Len(Append(before, r)) = n + 1
        /\ \A i \in 1 .. n : Append(before, r)[i] = before[i]
        /\ Append(before, r)[n + 1] = r
    BY <2>1, <1>6, AppendProperties
  <2> QED
    BY <2>2 DEF before
<1>8. \A i \in 1 .. n + 1 : Ran'[i].res = Append(Results, r)[i]
  <2> TAKE i \in 1 .. n + 1
  <2>1. CASE i = n + 1
    BY <2>1, <1>2, <1>7 DEF r
  <2>2. CASE i \in 1 .. n
    BY <2>2, <1>2, <1>3, <1>7
  <2>3. n \in Nat
    BY <1>1
  <2>4. i \in 1 .. n \/ i = n + 1
    BY <2>3
  <2> QED
    BY <2>1, <2>2, <2>4
<1>9. Results' = Append(Results, r)
  <2> DEFINE results1 == Append(Results, r)
  <2>1. \A i \in 1 .. n + 1 : results1[i] \in Int
    BY <1>7, ElementOfSeq
  <2>2. Results' = [i \in 1 .. n + 1 |-> results1[i]]
    BY <1>5, <1>8
  <2> HIDE DEF results1
  <2>3. Results' \in [1 .. n + 1 -> Int] /\ n + 1 \in Nat
    BY <2>1, <2>2, <1>1
  <2>4. Results' \in Seq(Int) /\ Len(Results') = n + 1
    BY <2>3
  <2>5. \A i \in 1 .. n + 1 : Results'[i] = results1[i]
    BY <2>2
  <2>6. results1 \in Seq(Int) /\ Len(results1) = n + 1
    BY <1>7 DEF results1
  <2> QED
    BY <2>4, <2>5, <2>6, SeqEqual DEF results1
<1>10. r \in {Len(Results) + 1, Abstract!Failed, Abstract!Aborted} /\ Len(Results) < issued
  BY <1>3 DEF n, r, Failed, Aborted, Abstract!Failed, Abstract!Aborted
<1>11. Abstract!Complete
  BY <1>9, <1>10 DEF Abstract!Complete, Gone, r
<1> QED
  BY <1>11 DEF Abstract!Next

(* A posted handler of a receive that runs is the next completion, with a  *)
(* message or, after the last of them, a failure.                          *)
LEMMA CallHandlerSeen ==
  ASSUME IInv, IInv', CallHandler, UNCHANGED <<rcvVars, sndVars, adapters>>
  PROVE  [Abstract!Next]_(Abstract!vars)
<1> USE DEF CallHandler, rcvVars
<1>1. /\ TypeOK /\ BeforeAborts /\ posted # <<>> /\ phase' = phase
      /\ RanControl /\ TypeOK' /\ RanControl'
  BY DEF IInv, RcvControl, PhaseControl, Aborting, BeforeAborts, TypeOK
<1>2. ~Gone /\ ~Gone'
  BY <1>1 DEF Gone, BeforeAborts
<1> DEFINE c == Head(posted).completion
           n == Len(Ran)
<1>3. Head(posted) \in TaskSet /\ Head(posted) = posted[1] /\ 1 \in 1 .. Len(posted)
  BY <1>1, PostedTail
<1>4. /\ c \in CompletionSet /\ (IsRcv(Head(posted)) <=> c.side = "rcv")
      /\ c.side \in {"rcv", "snd"} /\ RunHandler(c)
  BY <1>3 DEF TaskSet, IsRcv, CompletionSet
<1>5. CASE c.side = "snd"
  <2>1. Ran' = Ran
    BY <1>1, <1>4, <1>5, Running
  <2> QED
    BY <2>1, <1>2, StepUnseen
<1>6. CASE c.side = "rcv"
  <2>1. posted \in Seq(TaskSet) /\ n \in Nat /\ issued \in Nat /\ received \in Nat
    BY <1>1, Lengths
  <2>2. InOrder(posted, n, Served)
    BY <1>1 DEF IInv, RcvControl, PostedControl
  <2>3. Served \in Nat /\ Served <= issued
    <3>1. Served \in Int /\ Served <= issued
      BY <1>1, Lengths DEF Served, HeadCount
    <3> QED
      BY <2>1, <2>2, <3>1 DEF InOrder
  <2>4. c.call = n + 1 /\ n + 1 <= Served
    BY <1>1, <1>4, <1>6, <2>1, <2>2, <2>3, OrderTail
  <2>5. c.res = Due(n + 1) /\ \A i \in 1 .. n : Ran[i].res = Due(i)
    BY <1>1, <1>3, <1>4, <1>6, <2>4 DEF IInv, RcvControl, ResultControl
  <2>6. Ran' = Append(Ran, c)
    BY <1>1, <1>4, <1>6, Running
  <2>7. /\ Len(Results) = n /\ (Results # <<>> <=> n # 0)
        /\ \A i \in 1 .. n : Results[i] = Ran[i].res
    BY <1>1, ResultsSeen
  <2> HIDE DEF n, c
  <2>8. Results # <<>> => Results[n] = Due(n)
    <3> SUFFICES ASSUME Results # <<>> PROVE Results[n] = Due(n)
      OBVIOUS
    <3>1. n \in 1 .. n
      BY <2>1, <2>7
    <3> QED
      BY <3>1, <2>5, <2>7
  <2>9. c.res \in {n + 1, Failed} /\ Abstract!MayFollow(Results, c.res)
    <3>1. CASE n + 1 <= received
      <4>1. c.res = n + 1 /\ Due(n) = n
        BY <3>1, <2>1, <2>5 DEF Due
      <4> QED
        BY <4>1, <2>7, <2>8 DEF Abstract!MayFollow
    <3>2. CASE ~(n + 1 <= received)
      <4>1. c.res = Failed /\ Due(n) # Aborted
        BY <3>2, <2>1, <2>5 DEF Due, Failed, Aborted
      <4>2. Failed = Abstract!Failed /\ Aborted = Abstract!Aborted
        BY DEF Failed, Aborted, Abstract!Failed, Abstract!Aborted
      <4> QED
        BY <4>1, <4>2, <2>7, <2>8 DEF Abstract!MayFollow
    <3> QED
      BY <3>1, <3>2
  <2>10. n < issued
    BY <2>1, <2>3, <2>4
  <2> QED
    BY <1>1, <1>2, <1>4, <2>6, <2>9, <2>10, StepCompletes DEF n
<1> QED
  BY <1>4, <1>5, <1>6

(* A request that the destructor aborts is the next completion.            *)
LEMMA AbortSeen ==
  ASSUME IInv, IInv', AbortHead \/ AbortQueued, UNCHANGED <<sndVars, adapters>>
  PROVE  [Abstract!Next]_(Abstract!vars)
<1> USE DEF AbortHead, AbortQueued, rcvVars, slotVars
<1>1. /\ TypeOK /\ SlotControl /\ RanControl /\ TypeOK' /\ RanControl' /\ PhaseControl
      /\ ~Gone /\ ~Gone' /\ issued' = issued /\ ~inHandler
  BY DEF IInv, RcvControl, Gone, RunHandler
<1>2. issued \in Nat /\ Len(Ran) \in Nat /\ Len(pendingUserRequests) \in Nat
  BY <1>1, Lengths
<1>3. PICK c \in CompletionSet : RunHandler(c) /\ c.side = "rcv" /\ c.res = Aborted
  <2>1. PICK call \in 1 .. MaxRequests : RunHandler(Completion("rcv", call, Aborted))
    <3>1. CASE AbortHead
      BY <3>1, <1>1, Constants DEF TypeOK, NoRequest, Assumptions
    <3>2. CASE AbortQueued
      BY <3>2, <1>1, QueueTail
    <3> QED
      BY <3>1, <3>2
  <2>2. Completion("rcv", call, Aborted) \in CompletionSet
    BY DEF Completion, CompletionSet
  <2> QED
    BY <2>1, <2>2 DEF Completion
<1>4. Ran' = Append(Ran, c)
  BY <1>1, <1>3, Running
<1>5. Len(Ran) < issued
  <2>1. CASE phase = "abortHead" /\ userRequest # NoRequest
    <3>1. Len(Ran) = Served + 0 /\ Served = issued - Len(pendingUserRequests) - 1
      BY <2>1, <1>1 DEF RanControl, Served, HeadCount
    <3> QED
      BY <3>1, <1>2
  <2>2. CASE phase = "abortQueue" /\ pendingUserRequests # <<>>
    <3>1. Len(Ran) = issued - Len(pendingUserRequests) + 0 /\ Len(pendingUserRequests) >= 1
      BY <2>2, <1>1, QueueTail DEF RanControl
    <3> QED
      BY <3>1, <1>2
  <2> QED
    BY <2>1, <2>2
<1>6. Abstract!MayFollow(Results, c.res)
  BY <1>3 DEF Abstract!MayFollow, Aborted, Abstract!Aborted
<1> QED
  BY <1>1, <1>3, <1>4, <1>5, <1>6, StepCompletes

(* The destructor is past the receiving adapter with no request open.      *)
LEMMA NoneAbortedSeen ==
  ASSUME IInv', NoneAborted
  PROVE  [Abstract!Next]_(Abstract!vars)
<1> USE DEF NoneAborted, rcvVars
<1>1. Ran' = Ran /\ Len(Ran') = issued' /\ issued' = issued /\ ~Gone /\ Gone' /\ RanControl' /\ TypeOK'
  BY DEF Ran, IInv, RcvControl, RanControl, Gone
<1>2. Results' = Results
  BY <1>1 DEF Results
<1>3. Len(Results') = issued
  <2>1. Results' = [i \in 1 .. Len(Ran') |-> IF Ran'[i].call = i THEN Ran'[i].res ELSE 99]
    BY DEF Results
  <2>2. Len(Ran') \in Nat
    BY <1>1 DEF IInv, TypeOK
  <2> QED
    BY <1>1, <2>1, <2>2
<1> QED
  BY <1>1, <1>2, <1>3 DEF Abstract!Next, Abstract!Destroyed, Gone

(* The receiving adapter keeps its promise: exactly one completion of every*)
(* request, in order, messages first, also across the destructor.          *)
THEOREM ImplementsOrderedCompletionsHolds == Spec => ImplementsOrderedCompletions
<1>1. Init => Abstract!Init
  <2> SUFFICES ASSUME Init PROVE Abstract!Init
    OBVIOUS
  <2>1. Ran = <<>> /\ Len(Ran) = 0
    BY DEF Init, WorkerInit, Ran, Side
  <2>2. Results = <<>>
    BY <2>1 DEF Results
  <2> QED
    BY <2>2 DEF Abstract!Init, Init, WorkerInit, RcvInit
<1>2. IInv /\ IInv' /\ [Next]_vars => [Abstract!Next]_(Abstract!vars)
  <2> SUFFICES ASSUME IInv, IInv', [Next]_vars PROVE [Abstract!Next]_(Abstract!vars)
    OBVIOUS
  <2>1. CASE User
    <3>1. CASE QueueRequest \/ ReceiveWouldBlock \/ ReceiveAtOnce
      <4>1. issued' = issued + 1 /\ Ran' = Ran /\ phase' = phase
        BY <3>1 DEF QueueRequest, ReceiveWouldBlock, ReceiveAtOnce, workerVars, Ran
      <4>2. ~Gone /\ ~Gone'
        <5>1. MayReceive
          BY <3>1 DEF QueueRequest, ReceiveWouldBlock, ReceiveAtOnce
        <5> QED
          BY <5>1, <4>1, ReceivePhase DEF Gone, BeforeAborts
      <4> QED
        BY <4>1, <4>2, StepIssues
    <3>2. CASE EndsSending /\ UNCHANGED rcvVars
      BY <3>2, StepUnseen
      DEF EndsSending, EndSending, RefusedByAdapter, RefusedByCore, AcceptedWouldBlock,
          AcceptedAtOnce, workerVars, rcvVars, Ran, Gone
    <3>3. CASE Destroy /\ UNCHANGED rcvVars
      BY <3>3, StepUnseen DEF Destroy, rcvVars, Ran, Gone
    <3> QED
      BY <2>1, <3>1, <3>2, <3>3
      DEF User, SocketStreamCalls, MqSenderCalls, MqReceiverCalls, Receives
  <2>2. CASE Worker
    <3>1. CASE ServeNext
      BY <3>1, StepUnseen DEF ServeNext, ServeNextAtOnce, ServeNextWouldBlock, Ran, Gone
    <3>2. CASE CallHandler /\ UNCHANGED <<rcvVars, sndVars, adapters>>
      BY <3>2, CallHandlerSeen
    <3>3. CASE HandlerReturns /\ UNCHANGED rcvVars
      BY <3>3, StepUnseen DEF HandlerReturns, rcvVars, Ran, Gone
    <3> QED
      BY <2>2, <3>1, <3>2, <3>3 DEF Worker
  <2>3. CASE Destructor
    <3>1. CASE (WorkerStopped \/ PollReturns) /\ UNCHANGED rcvVars
      BY <3>1, StepUnseen DEF WorkerStopped, PollReturns, PhaseAfterStop, rcvVars, Ran, Gone
    <3>2. CASE (AbortHead \/ AbortQueued) /\ UNCHANGED <<sndVars, adapters>>
      BY <3>2, AbortSeen
    <3>3. CASE AbortHeadReturns \/ AbortQueuedReturns
      BY <3>3, StepUnseen DEF AbortHeadReturns, AbortQueuedReturns, rcvVars, Ran, Gone
    <3>4. CASE NoneAborted
      BY <3>4, NoneAbortedSeen
    <3>5. CASE SndDtor /\ UNCHANGED <<rcvVars, adapters>>
      <4>1. issued' = issued /\ (Gone' <=> Gone)
        BY <3>5 DEF SndDtor, AbortSaved, SndDtorReturns, rcvVars, Gone
      <4>2. Ran' = Ran
        <5>1. CASE SndDtorReturns
          BY <5>1 DEF SndDtorReturns, Ran
        <5>2. CASE AbortSaved
          <6>1. onDoneFunc \in Func
            BY <5>2 DEF AbortSaved, IInv, TypeOK
          <6>2. /\ Completion("snd", onDoneFunc, Aborted) \in CompletionSet
                /\ Completion("snd", onDoneFunc, Aborted).side = "snd"
            BY <6>1, SndTask DEF Completion
          <6> QED
            BY <5>2, <6>2, Running DEF AbortSaved, IInv
        <5> QED
          BY <3>5, <5>1, <5>2 DEF SndDtor
      <4> QED
        BY <4>1, <4>2, StepUnseen
    <3> QED
      BY <2>3, <3>1, <3>2, <3>3, <3>4, <3>5
      DEF Destructor, SocketStreamDtor, MqSenderDtor, MqReceiverDtor, RcvDtor
  <2>4. CASE SyncConnect \/ SndFlushes \/ OnSyncIoRcvDone \/ UNCHANGED vars
    <3>1. Ran' = Ran /\ issued' = issued /\ phase' = phase
      BY <2>4 DEF SyncConnect, SndFlushes, CoreFlushed, OnSyncIoRcvDone, vars, workerVars, rcvVars, Ran
    <3> QED
      BY <3>1, StepUnseen DEF Gone
  <2> QED
    BY <2>1, <2>2, <2>3, <2>4 DEF Next
<1>3. Spec => Abstract!Spec
  BY <1>1, <1>2, InvariantHolds, PTL DEF Spec, Abstract!Spec
<1> QED
  BY <1>3 DEF ImplementsOrderedCompletions

=============================================================================
