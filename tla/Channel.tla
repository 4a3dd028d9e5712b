------------------------------ MODULE Channel ------------------------------
(***************************************************************************)
(* Channel: one object that bundles a pipe for blobs, a pipe for native    *)
(* handles, or both, and applies to both what it is asked to do to the     *)
(* channel.  A pipe is one object for both directions or one for each.     *)
(* Sending and receiving go straight to a pipe and are its business; what  *)
(* the channel adds is the ending of two pipes reported as one.            *)
(*                                                                         *)
(* A channel begins as a sync_io core of sync_io pipes and can become an   *)
(* async-I/O one, the pipes of which call back from threads of their own.  *)
(***************************************************************************)
EXTENDS Naturals, Sequences

CONSTANTS Blob, Hndl   \* the two kinds of pipe

Pipe == {Blob, Hndl}
Direction == {"snd", "rcv"}

ASSUME PipesAssumption ==
  Blob # Hndl /\ Pipe \cap {"ok", "wouldBlock", "untouched", "none", "torn"} = {}

VARIABLES
  layout,      \* of what each pipe consists: "none", "one" or "two" objects
  io,          \* "core" or "async"
  object,      \* <<pipe, dir>> of the objects there are; <<pipe, "snd">> may do both
  watched,     \* objects whose event-wait handles the user replaced
  started,     \* <<pipe, dir>> of the operations begun
  ended,       \* pipes told to end sending
  pinging,     \* pipes told to ping
  idling,      \* pipes told to watch for silence
  calling,     \* async_end_sending() is under way: what it does next, or "no"
  asked,       \* the user gave async_end_sending() a handler
  syncErrCode, \* of a core: what the call of each pipe gave at once, or "wouldBlock"
  completing,  \* pipes that are yet to complete their part of it
  midway,      \* of a core: completion handlers that have counted, and no more
  nDone, errCode1,
  answer,      \* of a core: what the call left in the user's error code
  completed,   \* history: the completions, in order
  told,        \* history: the results the user's handler was called with
  overlapped,  \* history: what a completion of a core ran into: "call", "handler"
  destroying   \* the destructor has begun

chanCfgVars == <<layout, io, object, watched, started>>
coreEndVars == <<syncErrCode, midway, answer, overlapped>>
chanEndVars == <<calling, asked, completing, nDone, errCode1, completed, told, coreEndVars>>
channelVars == <<chanCfgVars, ended, pinging, idling, chanEndVars, destroying>>

Has == { p \in Pipe : layout[p] # "none" }
ObjectsOf(p) == IF layout[p] = "two" THEN {p} \X Direction ELSE {<<p, "snd">>}

(* blob_snd(), hndl_snd() and blob_rcv(), hndl_rcv().                      *)
SenderOf(p) == <<p, "snd">>
ReceiverOf(p) == IF <<p, "rcv">> \in object THEN <<p, "rcv">> ELSE <<p, "snd">>

Initialized == Has # {} /\ \A p \in Pipe : p \in Has <=> SenderOf(p) \in object

ChannelInit ==
  /\ layout = [p \in Pipe |-> "none"]
  /\ io = "core"
  /\ object = {} /\ watched = {} /\ started = {}
  /\ ended = {} /\ pinging = {} /\ idling = {}
  /\ calling = "no" /\ asked = FALSE
  /\ syncErrCode = [p \in Pipe |-> "wouldBlock"] /\ answer = "none"
  /\ completing = {} /\ midway = {} /\ nDone = 0 /\ errCode1 = "ok"
  /\ completed = <<>> /\ told = <<>> /\ overlapped = {}
  /\ destroying = FALSE

-----------------------------------------------------------------------------
(* Putting it together.                                                    *)

(* A channel's class says what its pipes are.                              *)
Construct ==
  /\ Has = {}
  /\ layout' \in { l \in [Pipe -> {"none", "one", "two"}] : \E p \in Pipe : l[p] # "none" }
  /\ UNCHANGED <<io, object, watched, started, ended, pinging, idling, chanEndVars, destroying>>

UserSetsUp(v) ==
  /\ io = "core" /\ started = {} /\ ended = {} /\ ~destroying
  /\ UNCHANGED <<layout, ended, pinging, idling, chanEndVars, destroying, v>>

(* init_blob_pipe() and init_native_handle_pipe() of one object: the       *)
(* second call is refused.                                                 *)
InitPipe(p) ==
  /\ layout[p] = "one" /\ object \cap ObjectsOf(p) = {}
  /\ object' = object \cup ObjectsOf(p)
  /\ UserSetsUp(<<io, watched, started>>)

(* The same of two objects; there is no such check.                        *)
InitPipe2(p) ==
  /\ layout[p] = "two"
  /\ object' = object \cup ObjectsOf(p)
  /\ UserSetsUp(<<io, watched, started>>)

(* Every object is asked, though one has refused: its operations began.    *)
ReplaceEventWaitHandles ==
  /\ Initialized
  /\ io = "core" /\ ~destroying /\ watched # object
  /\ watched' = watched \cup
       { o \in object : \A s \in started : o # (IF s[2] = "snd" THEN SenderOf(s[1])
                                                              ELSE ReceiverOf(s[1])) }
  /\ UNCHANGED <<layout, io, object, started, ended, pinging, idling, chanEndVars, destroying>>

(* start_send_blob_ops() and its like.                                     *)
StartOps(p, d) ==
  /\ Initialized
  /\ io = "core" /\ ~destroying
  /\ p \in Has /\ <<p, d>> \notin started
  /\ started' = started \cup {<<p, d>>}
  /\ UNCHANGED <<layout, io, object, watched, ended, pinging, idling, chanEndVars, destroying>>

(* async_io_obj(): the new channel's pipes take over those of this one,    *)
(* and begin their operations at once.                                     *)
AsyncIoObj ==
  /\ Initialized
  /\ io' = "async"
  /\ started' = Has \X Direction
  /\ UserSetsUp(<<object, watched>>)

SetUp ==
  \/ Construct
  \/ \E p \in Pipe : InitPipe(p) \/ InitPipe2(p)
  \/ ReplaceEventWaitHandles \/ AsyncIoObj
  \/ \E p \in Pipe, d \in Direction : StartOps(p, d)

-----------------------------------------------------------------------------
(* What is asked of the channel goes to the blob pipe, then to the handle  *)
(* pipe unless the first refused.  The user begins the sending operations  *)
(* of both pipes before using either.                                      *)

MaySend == { p \in Has : <<p, "snd">> \in started } = Has /\ object # {} /\ ~destroying /\ calling = "no"
MayReceive == { p \in Has : <<p, "rcv">> \in started } = Has /\ object # {} /\ ~destroying /\ calling = "no"

Firstly == IF Blob \in Has THEN Blob ELSE Hndl

EndSending ==
  /\ MaySend /\ Firstly \notin ended
  /\ ended' = Has
  /\ UNCHANGED <<chanCfgVars, pinging, idling, chanEndVars, destroying>>

AutoPing ==
  /\ MaySend /\ Firstly \notin pinging \cup ended
  /\ pinging' = Has
  /\ UNCHANGED <<chanCfgVars, ended, idling, chanEndVars, destroying>>

IdleTimerRun ==
  /\ MayReceive /\ Firstly \notin idling
  /\ idling' = Has
  /\ UNCHANGED <<chanCfgVars, ended, pinging, chanEndVars, destroying>>

-----------------------------------------------------------------------------
(* async_end_sending().  A pipe's error is named after it.                 *)

Result(p) == {"ok", p}

(* The first result unless it is a success.                                *)
FirstError(e, f) == IF e # "ok" THEN e ELSE f

(* One pipe: its result is the channel's.  Two, of an async-I/O channel:   *)
(* the later completion reports.  A mutex makes this one step.             *)
Completes(p, e) ==
  /\ completed' = Append(completed, e)
  /\ completing' = completing \ {p}
  /\ IF Has = {p}
       THEN told' = Append(told, e) /\ UNCHANGED <<nDone, errCode1>>
       ELSE /\ nDone' = nDone + 1
            /\ IF nDone + 1 = 2
                 THEN told' = Append(told, FirstError(errCode1, e)) /\ UNCHANGED errCode1
                 ELSE errCode1' = e /\ UNCHANGED told
  /\ UNCHANGED <<asked, coreEndVars>>

HandlerRuns(p) ==
  /\ p \in completing /\ ~destroying
  /\ io = "async" \/ Has = {p}
  /\ \E e \in Result(p) : Completes(p, e)
  /\ UNCHANGED <<chanCfgVars, ended, pinging, idling, calling, destroying>>

(* Async-I/O: the pipes are told one after the other, and the first may    *)
(* complete meanwhile.                                                     *)
AsyncEndSendingFirst ==
  /\ io = "async" /\ MaySend /\ Firstly \notin ended
  /\ ended' = ended \cup {Firstly}
  /\ completing' = {Firstly}
  /\ asked' = TRUE
  /\ calling' = IF Has = Pipe THEN "second" ELSE "no"
  /\ UNCHANGED <<chanCfgVars, pinging, idling, nDone, errCode1, completed, told, coreEndVars, destroying>>

AsyncEndSendingSecond ==
  /\ io = "async" /\ calling = "second" /\ calling' = "no"
  /\ ended' = ended \cup {Hndl}
  /\ completing' = completing \cup {Hndl}
  /\ UNCHANGED <<chanCfgVars, pinging, idling, asked, nDone, errCode1, completed, told, coreEndVars, destroying>>

-----------------------------------------------------------------------------
(* async_end_sending() of a core: the steps of the call, and of the        *)
(* completion handlers, which the user's event loops may run in a thread   *)
(* for each pipe.  The count is atomic, the error beside it is not.        *)

(* A pipe's own call is over at once, or would block.                      *)
TellsPipe(p, r) ==
  /\ ended' = ended \cup {p}
  /\ syncErrCode' = [syncErrCode EXCEPT ![p] = r]
  /\ IF r = "wouldBlock"
       THEN completing' = completing \cup {p} /\ UNCHANGED completed
       ELSE completed' = Append(completed, r) /\ UNCHANGED completing

CoreEndSendingFirst ==
  /\ io = "core" /\ MaySend /\ Firstly \notin ended
  /\ asked' = TRUE
  /\ \E r \in Result(Firstly) \cup {"wouldBlock"} :
       /\ TellsPipe(Firstly, r)
       /\ IF Has = Pipe
            THEN calling' = "second" /\ UNCHANGED answer
            ELSE answer' = r /\ UNCHANGED calling
  /\ UNCHANGED <<chanCfgVars, pinging, idling, midway, nDone, errCode1, told, overlapped, destroying>>

(* Unless both are over at once the call returns TRUE with the user's      *)
(* error code as it was (the documentation says: would-block).             *)
CoreEndSendingSecond ==
  /\ io = "core" /\ calling = "second"
  /\ \E r \in Result(Hndl) \cup {"wouldBlock"} :
       LET first == syncErrCode[Blob]
       IN /\ TellsPipe(Hndl, r)
          /\ CASE first # "wouldBlock" /\ r # "wouldBlock" ->
                    calling' = "no" /\ answer' = FirstError(first, r)
               [] first = "wouldBlock" /\ r = "wouldBlock" -> calling' = "no" /\ answer' = "untouched"
               [] OTHER -> calling' = "count" /\ UNCHANGED answer
  /\ UNCHANGED <<chanCfgVars, pinging, idling, asked, midway, nDone, errCode1, told, overlapped, destroying>>

(* The pipe that was over at once counts as completed, then its error is   *)
(* stored, whatever a handler counted or stored meanwhile.                 *)
ForgetsSynchronous == 0   \* mutant
CountsSynchronous == 1

CoreCountsSynchronous ==
  /\ calling = "count" /\ calling' = "store"
  /\ nDone' = nDone + CountsSynchronous
  /\ UNCHANGED <<chanCfgVars, ended, pinging, idling, asked, completing, errCode1, completed, told,
                 coreEndVars, destroying>>

AtOnce == IF syncErrCode[Blob] # "wouldBlock" THEN syncErrCode[Blob] ELSE syncErrCode[Hndl]

CoreStoresSynchronous ==
  /\ calling = "store" /\ calling' = "no"
  /\ errCode1' = AtOnce
  /\ answer' = "untouched"
  /\ UNCHANGED <<chanCfgVars, ended, pinging, idling, asked, syncErrCode, completing, midway, nDone,
                 completed, told, overlapped, destroying>>

(* A completion handler counts itself.                                     *)
CoreHandlerCounts(p) ==
  /\ io = "core" /\ Has = Pipe /\ p \in completing /\ ~destroying
  /\ completing' = completing \ {p}
  /\ nDone' = nDone + 1
  /\ \E e \in Result(p) :
       /\ completed' = Append(completed, e)
       /\ midway' = midway \cup {[err |-> e, last |-> nDone' = 2]}
  /\ overlapped' = overlapped \cup (IF calling # "no" THEN {"call"} ELSE {})
                              \cup (IF midway # {} THEN {"handler"} ELSE {})
  /\ UNCHANGED <<chanCfgVars, ended, pinging, idling, calling, asked, syncErrCode, errCode1, answer,
                 told, destroying>>

(* And then stores its error, or reads the other's and reports.  A read    *)
(* beside a store that is yet to be made is a race: it may see the parts   *)
(* of two errors.                                                          *)
Storing == calling = "store" \/ \E h \in midway : ~h.last

CoreHandlerEnds ==
  /\ \E h \in midway :
       /\ midway' = midway \ {h}
       /\ IF h.last
            THEN /\ \E seen \in {errCode1} \cup (IF Storing THEN {"torn"} ELSE {}) :
                      told' = Append(told, FirstError(seen, h.err))
                 /\ UNCHANGED errCode1
            ELSE errCode1' = h.err /\ UNCHANGED told
  /\ UNCHANGED <<chanCfgVars, ended, pinging, idling, calling, asked, syncErrCode, completing, nDone,
                 answer, completed, overlapped, destroying>>

CoreEndsSending ==
  \/ CoreEndSendingFirst \/ CoreEndSendingSecond
  \/ CoreCountsSynchronous \/ CoreStoresSynchronous
  \/ CoreHandlerEnds \/ \E p \in Pipe : CoreHandlerCounts(p)

EndsSending ==
  \/ EndSending \/ AsyncEndSendingFirst \/ AsyncEndSendingSecond \/ CoreEndsSending
  \/ \E p \in Pipe : HandlerRuns(p)

-----------------------------------------------------------------------------
(* The destructor: the members go in the reverse order of their            *)
(* declaration.  A handler an async-I/O pipe still has is called with      *)
(* "aborted"; one of a core never is, nor may it run then.                 *)
DestroyPipe(p) ==
  /\ calling = "no" /\ midway = {} /\ destroying' = TRUE
  /\ object \cap ObjectsOf(p) # {} /\ (p = Blob => object \cap ObjectsOf(Hndl) = {})
  /\ object' = object \ ObjectsOf(p)
  /\ IF p \in completing /\ io = "async"
       THEN Completes(p, p)
       ELSE UNCHANGED <<asked, completing, nDone, errCode1, completed, told, coreEndVars>>
  /\ UNCHANGED <<layout, io, watched, started, ended, pinging, idling, calling>>

ChannelNext ==
  SetUp \/ AutoPing \/ IdleTimerRun \/ EndsSending \/ \E p \in Pipe : DestroyPipe(p)

-----------------------------------------------------------------------------
FirstErrorIn(s) == IF \E i \in DOMAIN s : s[i] # "ok"
                     THEN s[CHOOSE i \in DOMAIN s : s[i] # "ok" /\ \A j \in 1 .. i - 1 : s[j] = "ok"]
                     ELSE "ok"

(* What the user learnt of the ending: an answer of the call that is a     *)
(* result, and what the handler was called with.                           *)
Answered == answer \in Pipe \cup {"ok"}
Learnt == IF Answered THEN <<answer>> \o told ELSE told

(* The user learns of the ending once, from the call or from the handler,  *)
(* when every pipe has completed its part and not before; and the result   *)
(* is the error that came first: however the completions fall between the  *)
(* calls of the two pipes, into them or into the destructor of an          *)
(* async-I/O channel.                                                      *)
(*                                                                         *)
(* The handlers of a core have no mutex.  If its user runs one while the   *)
(* other is running, the error may be a wrong one; if into the call, there *)
(* may be no report at all.  Only "at most once, and not before" holds of  *)
(* these.  And where the call of two pipes would block, it is not claimed  *)
(* that it says so: the user's error code is then as it was, see answer.   *)
CombinedEndReported ==
  /\ Len(Learnt) <= 1
  /\ Learnt # <<>> => completing = {} /\ calling # "second"
  /\ Learnt # <<>> /\ overlapped = {} => Learnt[1] = FirstErrorIn(completed)
  /\ asked /\ calling = "no" /\ midway = {} /\ completing = {} /\ "call" \notin overlapped
       => Learnt # <<>>

=============================================================================
