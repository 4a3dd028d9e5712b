------------------------------ MODULE MqNames ------------------------------
(***************************************************************************)
(* What outlives processes: message queues by name, and beside each queue  *)
(* two sentinels, tiny SHM pools that say by their existence that the      *)
(* queue has a sender, or a receiver.  Processes open handles to queues,   *)
(* make a stream peer of each, in order, and destroy the peers in the      *)
(* reverse order; any of them may end without destructors at any moment.   *)
(* Whoever cleans up after such an end finds what is left by listing the   *)
(* queues.                                                                 *)
(*                                                                         *)
(* A name may come to mean another queue: queues are numbered.             *)
(***************************************************************************)
EXTENDS Integers, Sequences

CONSTANTS
  Process, Nobody,
  Name,          \* names of queues
  Roles,         \* the peers each process makes: [name, dir] in order
  Modes,         \* bound: the modes, see below, the processes may open in
  MaxMade        \* bound: queues made by a name

Dir == {"snd", "rcv"}
Role == [name : Name, dir : Dir]

ASSUME RolesAssumption == Roles \in [Process -> Seq(Role) \ {<<>>}]
Mode == {"create", "either", "open"}
ASSUME ModesAssumption == Modes \subseteq [Process -> Mode]
ASSUME MaxMadeAssumption == MaxMade \in Nat

ASSUME NobodyAssumption == Nobody \notin Process

VARIABLES
  mqKind,    \* Persistent_mq_handle: "posix" or "bipc"
  mode,      \* how each process opens
  linked,    \* the queue each name means, or 0
  made,      \* how many there were
  sentinel,  \* who made the pool that stands for [name, dir], or Nobody
  stage,     \* where each process is
  role,      \* the role it is at
  handle,    \* for each of its roles, the queue that is open, or 0
  cleaner,   \* what is cleaned up: a name and the next step
  closing,   \* history: names a peer of which began to be destroyed
  late       \* history: sentinels made after that

nameVars == <<linked, made, sentinel>>
processVars == <<stage, role, handle>>
historyVars == <<closing, late>>
mqNamesVars == <<mqKind, mode, nameVars, processVars, cleaner, historyVars>>

Opposite(d) == IF d = "snd" THEN "rcv" ELSE "snd"
IsOver(p) == stage[p] \in {"gone", "crashed"}
At(p) == Roles[p][role[p]]

FirstStage(p) == IF mode[p] = "open" THEN "open" ELSE "create"

NamesInit ==
  /\ mqKind \in {"posix", "bipc"}
  /\ mode \in Modes
  /\ linked = [n \in Name |-> 0] /\ made = [n \in Name |-> 0]
  /\ sentinel = [r \in Role |-> Nobody]
  /\ stage = [p \in Process |-> FirstStage(p)]
  /\ role = [p \in Process |-> 1]
  /\ handle = [p \in Process |-> [i \in DOMAIN Roles[p] |-> 0]]
  /\ cleaner = <<>>
  /\ closing = {} /\ late = {}

-----------------------------------------------------------------------------
(* Opening the handles.                                                    *)

GoTo(p, s) == stage' = [stage EXCEPT ![p] = s]

(* An error ends the attempt: the handles there are get closed.  A queue   *)
(* made on the way stays.                                                  *)
GiveUp(p) ==
  /\ GoTo(p, "gone")
  /\ handle' = [handle EXCEPT ![p] = [i \in DOMAIN @ |-> 0]]
  /\ UNCHANGED role

HandleIs(p, q) == handle' = [handle EXCEPT ![p][role[p]] = q]

(* mq_open() with O_CREAT | O_EXCL.                                        *)
MakeQueue(p) ==
  LET n == At(p).name
  IN /\ made[n] < MaxMade
     /\ made' = [made EXCEPT ![n] = @ + 1]
     /\ linked' = [linked EXCEPT ![n] = made[n] + 1]
     /\ HandleIs(p, made[n] + 1)
     /\ GoTo(p, "setup")
     /\ UNCHANGED <<role, sentinel>>

OpenQueue(p) ==
  /\ HandleIs(p, linked[At(p).name])
  /\ GoTo(p, "setup")
  /\ UNCHANGED <<role, nameVars>>

PosixCreate(p) ==
  /\ mqKind = "posix" /\ stage[p] = "create"
  /\ CASE linked[At(p).name] = 0 -> MakeQueue(p)
       [] linked[At(p).name] # 0 /\ mode[p] = "either" ->
            GoTo(p, "open") /\ UNCHANGED <<role, handle, nameVars>>
       [] OTHER -> GiveUp(p) /\ UNCHANGED nameVars

(* The queue may be gone since it stood in the way of making it.           *)
PosixOpen(p) ==
  /\ mqKind = "posix" /\ stage[p] = "open"
  /\ CASE linked[At(p).name] # 0 -> OpenQueue(p)
       [] linked[At(p).name] = 0 /\ mode[p] = "either" ->
            GoTo(p, "create") /\ UNCHANGED <<role, handle, nameVars>>
       [] OTHER -> GiveUp(p) /\ UNCHANGED nameVars

(* Boost makes or opens in one step.                                       *)
BipcOpen(p) ==
  /\ mqKind = "bipc" /\ stage[p] \in {"create", "open"}
  /\ CASE linked[At(p).name] = 0 /\ mode[p] # "open" -> MakeQueue(p)
       [] linked[At(p).name] # 0 /\ mode[p] # "create" -> OpenQueue(p)
       [] OTHER -> GiveUp(p) /\ UNCHANGED nameVars

(* Permissions, non-blocking mode, epoll sets: any may fail.               *)
HandleReady(p) ==
  /\ stage[p] = "setup"
  /\ IF role[p] < Len(Roles[p])
       THEN role' = [role EXCEPT ![p] = @ + 1] /\ GoTo(p, FirstStage(p))
       ELSE role' = [role EXCEPT ![p] = 1] /\ GoTo(p, "peer")
  /\ UNCHANGED <<nameVars, handle>>

UnlinksQueue(p) ==   \* mutant
  linked' = [linked EXCEPT ![At(p).name] = 0] /\ UNCHANGED <<made, sentinel>>
LeavesQueue(p) == UNCHANGED nameVars

HandleFails(p) == stage[p] = "setup" /\ GiveUp(p) /\ LeavesQueue(p)

Opens(p) ==
  /\ \/ PosixCreate(p) \/ PosixOpen(p) \/ BipcOpen(p)
     \/ HandleReady(p) \/ HandleFails(p)
  /\ UNCHANGED historyVars

-----------------------------------------------------------------------------
(* Making the peers.                                                       *)

(* The handles no peer took over are closed; the peers before are          *)
(* destroyed.                                                              *)
Unwind(p, first) ==
  /\ handle' = [handle EXCEPT ![p] = [i \in DOMAIN @ |-> IF i < first THEN @[i] ELSE 0]]
  /\ IF first = 1
       THEN GoTo(p, "gone") /\ UNCHANGED role
       ELSE GoTo(p, "own") /\ role' = [role EXCEPT ![p] = first - 1]

NeverTaken(p) == FALSE   \* mutant
SentinelTaken(p) == sentinel[At(p)] # Nobody

(* ensure_unique_peer().                                                   *)
EnsureUniquePeer(p) ==
  /\ stage[p] = "peer" /\ ~SentinelTaken(p)
  /\ sentinel' = [sentinel EXCEPT ![At(p)] = p]
  /\ late' = IF At(p).name \in closing THEN late \cup {At(p)} ELSE late
  /\ GoTo(p, "wire")
  /\ UNCHANGED <<linked, made, role, handle, closing>>

PeerExists(p) ==
  /\ stage[p] = "peer" /\ SentinelTaken(p)
  /\ Unwind(p, role[p])
  /\ UNCHANGED <<nameVars, historyVars>>

(* Another error of the pool's creation.                                   *)
SentinelFails(p) ==
  /\ stage[p] = "peer" /\ ~SentinelTaken(p)
  /\ Unwind(p, role[p])
  /\ UNCHANGED <<nameVars, historyVars>>

(* The rest of the constructor; a class without a native handle needs a    *)
(* pipe, which may fail.                                                   *)
PeerReady(p) ==
  /\ stage[p] = "wire"
  /\ IF role[p] < Len(Roles[p])
       THEN role' = [role EXCEPT ![p] = @ + 1] /\ GoTo(p, "peer")
       ELSE GoTo(p, "up") /\ UNCHANGED role
  /\ UNCHANGED <<nameVars, handle, historyVars>>

PeerFails(p) ==
  /\ stage[p] = "wire" /\ mqKind = "bipc"
  /\ GoTo(p, "own")
  /\ handle' = [handle EXCEPT ![p] = [i \in DOMAIN @ |-> IF i <= role[p] THEN @[i] ELSE 0]]
  /\ UNCHANGED <<nameVars, role, historyVars>>

MakesPeers(p) ==
  EnsureUniquePeer(p) \/ PeerExists(p) \/ SentinelFails(p) \/ PeerReady(p) \/ PeerFails(p)

-----------------------------------------------------------------------------
(* The deleter of a peer's queue handle.  What is not there to be removed  *)
(* makes no difference.                                                    *)

Destroys(p) ==
  /\ stage[p] = "up"
  /\ GoTo(p, "own")
  /\ UNCHANGED <<nameVars, role, handle, historyVars>>

ForgetsOther == "mq"   \* mutant
AfterOwn == "other"

KeepsOwn(p) == UNCHANGED sentinel   \* mutant
RemovesOwn(p) == sentinel' = [sentinel EXCEPT ![At(p)] = Nobody]

RemoveOwnSentinel(p) ==
  /\ stage[p] = "own"
  /\ RemovesOwn(p)
  /\ closing' = closing \cup {At(p).name}
  /\ GoTo(p, AfterOwn)
  /\ UNCHANGED <<linked, made, role, handle, late>>

RemoveOtherSentinel(p) ==
  /\ stage[p] = "other"
  /\ sentinel' = [sentinel EXCEPT ![[name |-> At(p).name, dir |-> Opposite(At(p).dir)]] = Nobody]
  /\ GoTo(p, "mq")
  /\ UNCHANGED <<linked, made, role, handle, historyVars>>

RemoveQueue(p) ==
  /\ stage[p] = "mq"
  /\ linked' = [linked EXCEPT ![At(p).name] = 0]
  /\ GoTo(p, "close")
  /\ UNCHANGED <<made, sentinel, role, handle, historyVars>>

CloseHandle(p) ==
  /\ stage[p] = "close"
  /\ Unwind(p, role[p])
  /\ UNCHANGED <<nameVars, historyVars>>

Deletes(p) ==
  RemoveOwnSentinel(p) \/ RemoveOtherSentinel(p) \/ RemoveQueue(p) \/ CloseHandle(p)

(* A process ends without destructors; the kernel closes its handles.      *)
Crash(p) ==
  /\ ~IsOver(p)
  /\ GoTo(p, "crashed")
  /\ handle' = [handle EXCEPT ![p] = [i \in DOMAIN @ |-> 0]]
  /\ UNCHANGED <<nameVars, role, historyVars>>

ProcessStep(p) ==
  /\ Opens(p) \/ MakesPeers(p) \/ Destroys(p) \/ Deletes(p) \/ Crash(p)
  /\ UNCHANGED <<mqKind, mode, cleaner>>

-----------------------------------------------------------------------------
(* Clean-up once no process is left: for_each_persistent() lists queues,   *)
(* remove_persistent() removes each with its sentinels.                    *)

NobodyLeft == \A p \in Process : IsOver(p)

CleanerFinds(n) ==
  /\ cleaner = <<>> /\ NobodyLeft /\ linked[n] # 0
  /\ linked' = [linked EXCEPT ![n] = 0]
  /\ cleaner' = << [name |-> n, dir |-> "snd"], [name |-> n, dir |-> "rcv"] >>
  /\ UNCHANGED <<made, sentinel>>

CleanerRemoves ==
  /\ cleaner # <<>>
  /\ sentinel' = [sentinel EXCEPT ![Head(cleaner)] = Nobody]
  /\ cleaner' = Tail(cleaner)
  /\ UNCHANGED <<linked, made>>

CleanUp ==
  /\ CleanerRemoves \/ \E n \in Name : CleanerFinds(n)
  /\ UNCHANGED <<mqKind, mode, processVars, historyVars>>

NamesNext == CleanUp \/ \E p \in Process : ProcessStep(p)

NamesSpec == NamesInit /\ [][NamesNext]_mqNamesVars

-----------------------------------------------------------------------------
(* The roles process p has a peer in.                                      *)
Built(p) ==
  LET first(k) == { Roles[p][i] : i \in 1 .. k }
  IN CASE stage[p] = "peer" -> first(role[p] - 1)
       [] stage[p] \in {"wire", "own"} -> first(role[p])
       [] stage[p] = "up" -> first(Len(Roles[p]))
       [] stage[p] \in {"other", "mq", "close"} -> first(role[p] - 1)
       [] OTHER -> {}

(* The queue that p has open for a role.                                   *)
QueueOf(p, r) == { handle[p][i] : i \in { j \in DOMAIN Roles[p] : Roles[p][j] = r } } \ {0}

(* Two processes that have peers of one name are its sender and its        *)
(* receiver, never two of a kind, and both have the same queue: whoever    *)
(* made it and whoever opened it, in whatever order, and whatever failed   *)
(* or crashed on the way.  So it is for as long as no peer of that name    *)
(* has begun to be destroyed: what the deleter removes first is the        *)
(* sentinels.                                                              *)
PeersShareQueue ==
  \A p, q \in Process : \A r \in Built(p), s \in Built(q) :
    p # q /\ r.name = s.name /\ r.name \notin closing =>
      r.dir # s.dir /\ QueueOf(p, r) = QueueOf(q, s)

(* A sentinel is there only for a peer that exists or whose process ended  *)
(* without destructors: no error in a constructor and no order of          *)
(* destroying peers leaves a name that nobody can use again.               *)
SentinelHasOwner ==
  \A r \in Role : sentinel[r] # Nobody =>
    stage[sentinel[r]] = "crashed" \/ r \in Built(sentinel[r])

(* What an ended process leaves can be found: its sentinel stands beside a *)
(* queue, which for_each_persistent() lists.  So says the comment in the   *)
(* deleter, which removes the queue last; it is true unless the sentinel   *)
(* was made after the other side's deleter had been there.                 *)
LeakIsListable ==
  \A r \in Role : sentinel[r] # Nobody /\ stage[sentinel[r]] = "crashed" =>
    \/ linked[r.name] # 0
    \/ r \in late
    \/ \E i \in DOMAIN cleaner : cleaner[i] = r

=============================================================================
