-------------------------- MODULE MqsChannel_proofs --------------------------
(***************************************************************************)
(* For any processes, names and lists of roles: what is promised of the    *)
(* sentinels, and of the one report of a channel's ending.                 *)
(*                                                                         *)
(* That two processes with peers of one name share its queue rests on the  *)
(* handles: those a process has open on the way to a peer, and those of    *)
(* its peers, mean the queue of that name until it is unlinked.  What a    *)
(* sentinel's presence means, and its absence, rests on two facts: who     *)
(* built a peer has its sentinel until that name's peers begin to close;   *)
(* and a process in the deleter has the sentinels it removed behind it.    *)
(*                                                                         *)
(* async_end_sending() of a channel is told of by whichever pipe answers   *)
(* second.  The proof names the states the call and the completions go     *)
(* through; past a completion that ran into another or into the call only  *)
(* the count is known, and that is what still bounds the reports.          *)
(***************************************************************************)
EXTENDS MqsChannel, SequenceTheorems, TLAPS

Stage == {"create", "open", "setup", "peer", "wire", "up", "own", "other", "mq", "close",
          "gone", "crashed"}

NamesTypes ==
  /\ mode \in [Process -> Mode]
  /\ linked \in [Name -> Nat] /\ made \in [Name -> Nat]
  /\ sentinel \in [Role -> Process \cup {Nobody}]
  /\ stage \in [Process -> Stage]
  /\ role \in [Process -> Nat]
  /\ \A p \in Process : role[p] \in 1 .. Len(Roles[p])
  /\ \A p \in Process : stage[p] = "up" => role[p] = Len(Roles[p])
  /\ cleaner \in Seq(Role)
  /\ cleaner # <<>> => NobodyLeft
  /\ closing \subseteq Name
  /\ late \subseteq Role

InDeleter(p) == stage[p] \in {"other", "mq", "close"}

(* A peer has its sentinel until a peer of that name begins to close.      *)
BuiltControl ==
  /\ \A p \in Process : \A r \in Built(p) : r.name \notin closing => sentinel[r] = p
  /\ \A p \in Process : InDeleter(p) => At(p).name \in closing

Removed(r) == sentinel[r] = Nobody \/ r \in late
OtherOf(p) == [name |-> At(p).name, dir |-> Opposite(At(p).dir)]

(* The sentinels a deleter removed are gone, or were made again since.     *)
DeleterControl ==
  \A p \in Process :
    /\ stage[p] \in {"other", "mq"} => Removed(At(p))
    /\ stage[p] = "mq" => Removed(OtherOf(p))

(* The roles for which process p has opened the queue and made no peer.    *)
Opened(p) ==
  CASE stage[p] \in {"create", "open"} -> 1 .. role[p] - 1
    [] stage[p] = "setup" -> 1 .. role[p]
    [] stage[p] \in {"peer", "wire"} -> 1 .. Len(Roles[p])
    [] OTHER -> {}

LinkedControl ==
  \A p \in Process : \A i \in Opened(p) :
    Roles[p][i].name \notin closing => linked[Roles[p][i].name] # 0

(* The roles for which it has a queue open, of a peer or not.              *)
Held(p) ==
  CASE stage[p] \in {"create", "open"} -> 1 .. role[p] - 1
    [] stage[p] = "setup" -> 1 .. role[p]
    [] stage[p] \in {"peer", "wire", "up"} -> 1 .. Len(Roles[p])
    [] stage[p] \in {"own", "other", "mq", "close"} -> 1 .. role[p]
    [] OTHER -> {}

(* An open queue is the one its name means until a peer of it begins to    *)
(* close: nothing else unlinks it, so nobody can have made another.        *)
HandleControl ==
  /\ DOMAIN handle = Process
  /\ \A p \in Process : handle[p] \in [1 .. Len(Roles[p]) -> Nat]
  /\ \A p \in Process : \A i \in Held(p) : handle[p][i] # 0
  /\ \A p \in Process : \A i \in 1 .. Len(Roles[p]) :
       handle[p][i] # 0 =>
         /\ ~IsOver(p)
         /\ Roles[p][i].name \notin closing => handle[p][i] = linked[Roles[p][i].name]

InCleaner(r) == \E i \in 1 .. Len(cleaner) : cleaner[i] = r

(* LeakIsListable of every sentinel, whatever became of its process.       *)
SentinelListable ==
  \A r \in Role : sentinel[r] # Nobody => linked[r.name] # 0 \/ r \in late \/ InCleaner(r)

NamesControl ==
  /\ BuiltControl /\ SentinelHasOwner /\ DeleterControl
  /\ HandleControl /\ SentinelListable

NamesInv == NamesTypes /\ NamesControl

-----------------------------------------------------------------------------
(* A process has a list of roles, with a first one.                        *)
LEMMA RolesOf ==
  ASSUME NEW p \in Process
  PROVE  Roles[p] \in Seq(Role) /\ Len(Roles[p]) \in Nat /\ Len(Roles[p]) >= 1
<1>1. Roles[p] \in Seq(Role) /\ Roles[p] # <<>>
  BY RolesAssumption
<1>2. Len(Roles[p]) \in Nat /\ Len(Roles[p]) # 0
  BY <1>1, EmptySeq
<1> QED
  BY <1>1, <1>2

(* Nothing is made at first.                                               *)
LEMMA InitNames == NamesInit => NamesInv
<1> SUFFICES ASSUME NamesInit PROVE NamesInv
  OBVIOUS
<1> USE DEF NamesInit
<1>1. mode \in [Process -> Mode]
  BY ModesAssumption
<1>2. ASSUME NEW p \in Process PROVE 1 \in 1 .. Len(Roles[p])
  <2>1. Len(Roles[p]) \in Nat /\ Len(Roles[p]) >= 1
    BY RolesOf
  <2> QED
    BY <2>1
<1>3. \A p \in Process : stage[p] \in {"create", "open"} /\ role[p] = 1
  BY DEF FirstStage
<1>4. NamesTypes
  BY <1>1, <1>2, <1>3 DEF NamesTypes, FirstStage, Stage, NobodyLeft
<1>5. BuiltControl /\ SentinelHasOwner /\ DeleterControl /\ SentinelListable
  BY <1>3 DEF BuiltControl, Built, InDeleter, SentinelHasOwner, DeleterControl, SentinelListable
<1>6. HandleControl
  <2>1. ASSUME NEW p \in Process
        PROVE  DOMAIN Roles[p] = 1 .. Len(Roles[p]) /\ Held(p) = {}
    BY <1>3, RolesOf DEF Held
  <2> QED
    BY <2>1 DEF HandleControl
<1> QED
  BY <1>4, <1>5, <1>6 DEF NamesInv, NamesControl

(* What a process's step does to itself, and that it leaves the others     *)
(* where they are.                                                         *)
LEMMA StepTypes ==
  ASSUME NamesTypes, NEW p \in Process, ProcessStep(p)
  PROVE  /\ stage' \in [Process -> Stage] /\ role' \in [Process -> Nat]
         /\ role'[p] \in 1 .. Len(Roles[p])
         /\ stage'[p] = "up" => role'[p] = Len(Roles[p])
         /\ \A q \in Process \ {p} : stage'[q] = stage[q] /\ role'[q] = role[q]
         /\ ~IsOver(p)
<1> USE DEF GoTo, Stage
<1> DEFINE n == Len(Roles[p])
<1>0. n \in Nat /\ n >= 1
  BY RolesOf
<1> HIDE DEF n
<1>1. /\ role[p] \in 1 .. n /\ n \in Nat /\ n >= 1 /\ (stage[p] = "up" => role[p] = n)
      /\ stage \in [Process -> Stage] /\ role \in [Process -> Nat]
  BY <1>0 DEF n, NamesTypes
<1> SUFFICES /\ stage' \in [Process -> Stage] /\ role' \in [Process -> Nat]
             /\ role'[p] \in 1 .. n
             /\ stage'[p] = "up" => role'[p] = n
             /\ \A q \in Process \ {p} : stage'[q] = stage[q] /\ role'[q] = role[q]
             /\ ~IsOver(p)
  BY DEF n
<1>2. FirstStage(p) \in {"create", "open"}
  BY DEF FirstStage
<1>3. CASE Opens(p)
  <2>1. CASE PosixCreate(p)
    BY <1>1, <2>1 DEF PosixCreate, MakeQueue, GiveUp, IsOver
  <2>2. CASE PosixOpen(p)
    BY <1>1, <2>2 DEF PosixOpen, OpenQueue, GiveUp, IsOver
  <2>3. CASE BipcOpen(p)
    BY <1>1, <2>3 DEF BipcOpen, MakeQueue, OpenQueue, GiveUp, IsOver
  <2>4. CASE HandleReady(p)
    <3>1. CASE role[p] < n
      BY <1>1, <1>2, <2>4, <3>1 DEF HandleReady, IsOver, n
    <3>2. CASE ~(role[p] < n)
      BY <1>1, <1>2, <2>4, <3>2 DEF HandleReady, IsOver, n
    <3> QED
      BY <3>1, <3>2
  <2>5. CASE HandleFails(p)
    BY <1>1, <2>5 DEF HandleFails, LeavesQueue, GiveUp, IsOver
  <2> QED
    BY <1>3, <2>1, <2>2, <2>3, <2>4, <2>5 DEF Opens
<1>4. CASE MakesPeers(p)
  <2>1. CASE EnsureUniquePeer(p)
    BY <1>1, <2>1 DEF EnsureUniquePeer, IsOver
  <2>2. CASE PeerExists(p) \/ SentinelFails(p)
    BY <1>1, <2>2 DEF PeerExists, SentinelFails, Unwind, IsOver, n
  <2>3. CASE PeerReady(p)
    <3>1. CASE role[p] < n
      BY <1>1, <2>3, <3>1 DEF PeerReady, IsOver, n
    <3>2. CASE ~(role[p] < n)
      BY <1>1, <2>3, <3>2 DEF PeerReady, IsOver, n
    <3> QED
      BY <3>1, <3>2
  <2>4. CASE PeerFails(p)
    BY <1>1, <2>4 DEF PeerFails, IsOver
  <2> QED
    BY <1>4, <2>1, <2>2, <2>3, <2>4 DEF MakesPeers
<1>5. CASE Destroys(p)
  BY <1>1, <1>5 DEF Destroys, IsOver
<1>6. CASE Deletes(p)
  <2>1. CASE RemoveOwnSentinel(p)
    BY <1>1, <2>1 DEF RemoveOwnSentinel, AfterOwn, IsOver
  <2>2. CASE RemoveOtherSentinel(p)
    BY <1>1, <2>2 DEF RemoveOtherSentinel, IsOver
  <2>3. CASE RemoveQueue(p)
    BY <1>1, <2>3 DEF RemoveQueue, IsOver
  <2>4. CASE CloseHandle(p)
    <3>1. CASE role[p] = 1
      BY <1>1, <2>4, <3>1 DEF CloseHandle, Unwind, IsOver
    <3>2. CASE role[p] # 1
      BY <1>1, <2>4, <3>2 DEF CloseHandle, Unwind, IsOver
    <3> QED
      BY <3>1, <3>2
  <2> QED
    BY <1>6, <2>1, <2>2, <2>3, <2>4 DEF Deletes
<1>7. CASE Crash(p)
  BY <1>1, <1>7 DEF Crash, IsOver
<1> QED
  BY <1>3, <1>4, <1>5, <1>6, <1>7 DEF ProcessStep

(* The role a process is at is one of the roles.                           *)
LEMMA AtRole == ASSUME NamesTypes, NEW p \in Process PROVE At(p) \in Role
<1>1. Roles[p] \in Seq(Role) /\ role[p] \in 1 .. Len(Roles[p])
  BY RolesOf DEF NamesTypes
<1> QED
  BY <1>1, ElementOfSeq DEF At

(* A role is a name and a direction.                                       *)
LEMMA RoleParts ==
  /\ \A r \in Role : r.name \in Name /\ r.dir \in Dir
  /\ \A r \in Role : [name |-> r.name, dir |-> Opposite(r.dir)] \in Role
  /\ \A n \in Name : [name |-> n, dir |-> "snd"] \in Role /\ [name |-> n, dir |-> "rcv"] \in Role
BY DEF Role, Dir, Opposite

(* What a process's step does to the names.                                *)
LEMMA StepNames ==
  ASSUME NamesTypes, NEW p \in Process, ProcessStep(p)
  PROVE  /\ linked' \in [Name -> Nat] /\ made' \in [Name -> Nat]
         /\ sentinel' \in [Role -> Process \cup {Nobody}]
         /\ closing' \subseteq Name /\ closing \subseteq closing'
         /\ late' \subseteq Role /\ late \subseteq late'
         /\ mode' = mode /\ cleaner' = cleaner
<1>1. At(p) \in Role /\ At(p).name \in Name
  BY AtRole, RoleParts
<1>2. /\ linked \in [Name -> Nat] /\ made \in [Name -> Nat]
      /\ sentinel \in [Role -> Process \cup {Nobody}]
      /\ closing \subseteq Name /\ late \subseteq Role
  BY DEF NamesTypes
<1>3. mode' = mode /\ cleaner' = cleaner
  BY DEF ProcessStep
<1> USE DEF nameVars, historyVars
<1>4. CASE Opens(p)
  <2>1. CASE UNCHANGED nameVars
    BY <1>2, <1>3, <1>4, <2>1 DEF Opens
  <2>2. CASE MakeQueue(p)
    BY <1>1, <1>2, <1>3, <1>4, <2>2 DEF Opens, MakeQueue
  <2> QED
    BY <1>4, <2>1, <2>2
       DEF Opens, PosixCreate, PosixOpen, BipcOpen, HandleReady, HandleFails, LeavesQueue, OpenQueue
<1>5. CASE MakesPeers(p)
  <2>1. CASE EnsureUniquePeer(p)
    BY <1>1, <1>2, <1>3, <2>1 DEF EnsureUniquePeer
  <2>2. CASE UNCHANGED <<nameVars, historyVars>>
    BY <1>2, <1>3, <2>2
  <2> QED
    BY <1>5, <2>1, <2>2 DEF MakesPeers, PeerExists, SentinelFails, PeerReady, PeerFails
<1>6. CASE Deletes(p)
  <2>1. CASE RemoveOwnSentinel(p)
    BY <1>1, <1>2, <1>3, <2>1 DEF RemoveOwnSentinel, RemovesOwn
  <2>2. CASE RemoveOtherSentinel(p)
    BY <1>1, <1>2, <1>3, <2>2 DEF RemoveOtherSentinel
  <2>3. CASE RemoveQueue(p)
    BY <1>1, <1>2, <1>3, <2>3 DEF RemoveQueue
  <2>4. CASE CloseHandle(p)
    BY <1>2, <1>3, <2>4 DEF CloseHandle
  <2> QED
    BY <1>6, <2>1, <2>2, <2>3, <2>4 DEF Deletes
<1>7. CASE Destroys(p) \/ Crash(p)
  BY <1>2, <1>3, <1>7 DEF Destroys, Crash
<1> QED
  BY <1>4, <1>5, <1>6, <1>7 DEF ProcessStep

(* Every variable keeps its type.                                          *)
LEMMA NextTypes == NamesTypes /\ [NamesNext]_mqNamesVars => NamesTypes'
<1> SUFFICES ASSUME NamesTypes, [NamesNext]_mqNamesVars PROVE NamesTypes'
  OBVIOUS
<1>1. CASE UNCHANGED mqNamesVars
  BY <1>1 DEF NamesTypes, mqNamesVars, nameVars, processVars, historyVars, NobodyLeft, IsOver
<1>2. ASSUME NEW p \in Process, ProcessStep(p) PROVE NamesTypes'
  <2>1. cleaner = <<>>
    BY <1>2, StepTypes DEF NamesTypes, NobodyLeft
  <2>2. /\ stage' \in [Process -> Stage] /\ role' \in [Process -> Nat]
        /\ \A q \in Process : role'[q] \in 1 .. Len(Roles[q])
        /\ \A q \in Process : stage'[q] = "up" => role'[q] = Len(Roles[q])
    BY <1>2, StepTypes DEF NamesTypes
  <2> QED
    BY <1>2, <2>1, <2>2, StepNames DEF NamesTypes
<1>3. CASE CleanUp
  <2>1. UNCHANGED <<mode, stage, role, closing, late>>
    BY <1>3 DEF CleanUp, processVars, historyVars
  <2>2. NobodyLeft
    BY <1>3 DEF CleanUp, CleanerRemoves, CleanerFinds, NamesTypes
  <2>3. NobodyLeft'
    BY <2>1, <2>2 DEF NobodyLeft, IsOver
  <2>4. CASE CleanerRemoves
    <3>1. cleaner \in Seq(Role) /\ cleaner # <<>>
      BY <2>4 DEF CleanerRemoves, NamesTypes
    <3>2. Tail(cleaner) \in Seq(Role)
      BY <3>1, HeadTailProperties
    <3> QED
      BY <2>1, <2>3, <2>4, <3>2 DEF CleanerRemoves, NamesTypes
  <2>5. ASSUME NEW n \in Name, CleanerFinds(n) PROVE NamesTypes'
    BY <2>1, <2>3, <2>5, RoleParts DEF CleanerFinds, NamesTypes
  <2> QED
    BY <1>3, <2>4, <2>5 DEF CleanUp
<1> QED
  BY <1>1, <1>2, <1>3 DEF NamesNext

-----------------------------------------------------------------------------
(* Which steps change the set of a process's peers.                        *)
LEMMA StepBuilt ==
  ASSUME NamesTypes, NEW p \in Process, ProcessStep(p)
  PROVE  /\ EnsureUniquePeer(p) => Built(p)' = Built(p) \cup {At(p)}
         /\ RemoveOwnSentinel(p) => Built(p) = Built(p)' \cup {At(p)}
         /\ Crash(p) => Built(p)' = {}
         /\ ~EnsureUniquePeer(p) /\ ~RemoveOwnSentinel(p) /\ ~Crash(p) => Built(p)' = Built(p)
<1>0. stage[p] = "up" => role[p] = Len(Roles[p])
  BY DEF NamesTypes
<1>1. /\ role[p] \in Nat /\ role[p] >= 1
      /\ stage \in [Process -> Stage] /\ role \in [Process -> Nat]
  BY DEF NamesTypes
<1> DEFINE First(k) == { Roles[p][i] : i \in 1 .. k }
<1>2. Built(p) = CASE stage[p] = "peer" -> First(role[p] - 1)
                   [] stage[p] \in {"wire", "own"} -> First(role[p])
                   [] stage[p] = "up" -> First(Len(Roles[p]))
                   [] stage[p] \in {"other", "mq", "close"} -> First(role[p] - 1)
                   [] OTHER -> {}
  BY DEF Built
<1>3. Built(p)' = CASE stage'[p] = "peer" -> First(role'[p] - 1)
                    [] stage'[p] \in {"wire", "own"} -> First(role'[p])
                    [] stage'[p] = "up" -> First(Len(Roles[p]))
                    [] stage'[p] \in {"other", "mq", "close"} -> First(role'[p] - 1)
                    [] OTHER -> {}
  BY DEF Built
<1>4. First(role[p]) = First(role[p] - 1) \cup {At(p)}
  BY <1>1 DEF At
<1>5. First(0) = {}
  OBVIOUS
<1> HIDE DEF First
<1> USE <1>1 DEF GoTo
<1>6. CASE Opens(p)
  <2>1. stage[p] \in {"create", "open", "setup"}
    BY <1>6 DEF Opens, PosixCreate, PosixOpen, BipcOpen, HandleReady, HandleFails
  <2>2. \/ stage'[p] \in {"create", "open", "setup", "gone"}
        \/ stage'[p] = "peer" /\ role'[p] = 1
    <3>1. CASE HandleReady(p)
      BY <3>1 DEF HandleReady, FirstStage
    <3>2. CASE MakeQueue(p) \/ OpenQueue(p) \/ GiveUp(p)
      BY <3>2 DEF MakeQueue, OpenQueue, GiveUp
    <3>3. CASE GoTo(p, "open") \/ GoTo(p, "create")
      BY <3>3
    <3> QED
      BY <1>6, <3>1, <3>2, <3>3 DEF Opens, PosixCreate, PosixOpen, BipcOpen, HandleFails
  <2>3. Built(p) = {} /\ Built(p)' = {}
    BY <1>2, <1>3, <1>5, <2>1, <2>2
  <2> QED
    BY <2>1, <2>2, <2>3 DEF EnsureUniquePeer, RemoveOwnSentinel
<1>7. CASE EnsureUniquePeer(p)
  <2>1. stage[p] = "peer" /\ stage'[p] = "wire" /\ role'[p] = role[p]
    BY <1>7 DEF EnsureUniquePeer
  <2>2. Built(p) = First(role[p] - 1) /\ Built(p)' = First(role[p])
    BY <1>2, <1>3, <2>1
  <2> QED
    BY <1>4, <1>7, <2>1, <2>2 DEF RemoveOwnSentinel, Crash
<1>8. ASSUME Unwind(p, role[p]), stage[p] \in {"peer", "close"} PROVE Built(p)' = Built(p)
  <2>1. CASE role[p] = 1
    BY <1>2, <1>3, <1>5, <1>8, <2>1 DEF Unwind
  <2>2. CASE role[p] # 1
    <3>1. stage'[p] = "own" /\ role'[p] = role[p] - 1
      BY <1>8, <2>2 DEF Unwind
    <3> QED
      BY <1>2, <1>3, <1>8, <3>1
  <2> QED
    BY <2>1, <2>2
<1>9. CASE PeerExists(p) \/ SentinelFails(p) \/ CloseHandle(p)
  <2>1. stage[p] \in {"peer", "close"} /\ Unwind(p, role[p]) /\ UNCHANGED sentinel
    BY <1>9 DEF PeerExists, SentinelFails, CloseHandle, nameVars
  <2>2. stage'[p] \in {"gone", "own"}
    BY <2>1 DEF Unwind
  <2> QED
    BY <1>8, <2>1, <2>2 DEF EnsureUniquePeer, RemoveOwnSentinel, Crash, AfterOwn
<1>10. CASE PeerReady(p)
  <2>1. stage[p] = "wire"
    BY <1>10 DEF PeerReady
  <2>2. CASE stage'[p] = "peer" /\ role'[p] = role[p] + 1
    BY <1>2, <1>3, <2>1, <2>2 DEF EnsureUniquePeer, RemoveOwnSentinel, Crash
  <2>3. CASE stage'[p] = "up" /\ role'[p] = Len(Roles[p]) /\ role'[p] = role[p]
    BY <1>2, <1>3, <2>1, <2>3 DEF EnsureUniquePeer, RemoveOwnSentinel, Crash
  <2>4. stage'[p] = "up" => role'[p] = Len(Roles[p])
    BY StepTypes
  <2> QED
    BY <1>10, <2>2, <2>3, <2>4 DEF PeerReady
<1>11. CASE PeerFails(p) \/ Destroys(p)
  <2>1. stage[p] \in {"wire", "up"} /\ stage'[p] = "own" /\ role'[p] = role[p]
    BY <1>11 DEF PeerFails, Destroys
  <2> QED
    BY <1>0, <1>2, <1>3, <2>1 DEF EnsureUniquePeer, RemoveOwnSentinel, Crash
<1>12. CASE RemoveOwnSentinel(p)
  <2>1. stage[p] = "own" /\ stage'[p] = "other" /\ role'[p] = role[p]
    BY <1>12 DEF RemoveOwnSentinel, AfterOwn
  <2> QED
    BY <1>2, <1>3, <1>4, <2>1 DEF EnsureUniquePeer, Crash
<1>13. CASE RemoveOtherSentinel(p) \/ RemoveQueue(p)
  <2>1. /\ stage[p] \in {"other", "mq"} /\ stage'[p] \in {"mq", "close"}
        /\ role'[p] = role[p]
    BY <1>13 DEF RemoveOtherSentinel, RemoveQueue
  <2> QED
    BY <1>2, <1>3, <2>1 DEF EnsureUniquePeer, RemoveOwnSentinel, Crash
<1>14. CASE Crash(p)
  <2>1. stage'[p] = "crashed"
    BY <1>14 DEF Crash
  <2> QED
    BY <1>3, <1>14, <2>1 DEF EnsureUniquePeer, RemoveOwnSentinel, AfterOwn
<1> QED
  BY <1>6, <1>7, <1>9, <1>10, <1>11, <1>12, <1>13, <1>14
     DEF ProcessStep, MakesPeers, Deletes

(* A step changes a sentinel to make it, for a peer of the process, or to  *)
(* remove it, once a peer of that name has begun to close.                 *)
LEMMA StepSentinel ==
  ASSUME NamesTypes, BuiltControl, NEW p \in Process, ProcessStep(p),
         NEW r \in Role, sentinel'[r] # sentinel[r]
  PROVE  \/ /\ EnsureUniquePeer(p) /\ r = At(p) /\ sentinel[r] = Nobody /\ sentinel'[r] = p
            /\ r.name \in closing => r \in late'
         \/ sentinel'[r] = Nobody /\ r.name \in closing'
<1>1. At(p) \in Role /\ sentinel \in [Role -> Process \cup {Nobody}]
  BY AtRole DEF NamesTypes
<1>2. CASE EnsureUniquePeer(p)
  BY <1>1, <1>2 DEF EnsureUniquePeer, SentinelTaken
<1>3. CASE RemoveOwnSentinel(p)
  BY <1>1, <1>3 DEF RemoveOwnSentinel, RemovesOwn
<1>4. CASE RemoveOtherSentinel(p)
  <2>1. r = [name |-> At(p).name, dir |-> Opposite(At(p).dir)] /\ sentinel'[r] = Nobody
    BY <1>1, <1>4, RoleParts DEF RemoveOtherSentinel
  <2>2. At(p).name \in closing
    BY <1>4 DEF BuiltControl, InDeleter, RemoveOtherSentinel
  <2> QED
    BY <2>1, <2>2, StepNames
<1>5. CASE UNCHANGED sentinel
  BY <1>5
<1> QED
  BY <1>2, <1>3, <1>4, <1>5
     DEF ProcessStep, Opens, PosixCreate, PosixOpen, BipcOpen, MakeQueue, OpenQueue, GiveUp,
         HandleReady, HandleFails, LeavesQueue, MakesPeers, PeerExists, SentinelFails, PeerReady, PeerFails,
         Destroys, Deletes, RemoveQueue, CloseHandle, Crash, nameVars

(* Who is not in the step stays as it is.                                  *)
LEMMA OthersStay ==
  ASSUME NamesTypes, NEW p \in Process, ProcessStep(p), NEW q \in Process \ {p}
  PROVE  /\ stage'[q] = stage[q] /\ role'[q] = role[q]
         /\ Built(q)' = Built(q) /\ At(q)' = At(q) /\ Held(q)' = Held(q)
<1>1. stage'[q] = stage[q] /\ role'[q] = role[q]
  BY StepTypes
<1> QED
  BY <1>1 DEF Built, At, Held

(* Once nobody is left no process is in any of its stages.                 *)
LEMMA CleanUpStays ==
  ASSUME NamesTypes, CleanUp
  PROVE  /\ NobodyLeft
         /\ UNCHANGED <<stage, role, closing, late>>
         /\ \A p \in Process : /\ stage[p] \in {"gone", "crashed"}
                              /\ Built(p)' = {} /\ Held(p)' = {}
<1>1. NobodyLeft
  BY DEF CleanUp, CleanerRemoves, CleanerFinds, NamesTypes
<1>2. UNCHANGED <<stage, role, closing, late>>
  BY DEF CleanUp, processVars, historyVars
<1> QED
  BY <1>1, <1>2 DEF NobodyLeft, IsOver, Built, Held

(* Peers are made of handles that are open.                                *)
LEMMA NextBuilt == NamesTypes /\ BuiltControl /\ [NamesNext]_mqNamesVars => BuiltControl'
<1> SUFFICES ASSUME NamesTypes, BuiltControl, [NamesNext]_mqNamesVars PROVE BuiltControl'
  OBVIOUS
<1>1. CASE UNCHANGED mqNamesVars
  BY <1>1 DEF BuiltControl, InDeleter, Built, At, mqNamesVars, nameVars, processVars, historyVars
<1>2. CASE CleanUp
  BY <1>2, CleanUpStays DEF BuiltControl, InDeleter
<1>3. ASSUME NEW p \in Process, ProcessStep(p) PROVE BuiltControl'
  <2>1. ASSUME NEW q \in Process, NEW r \in Built(q)', r.name \notin closing'
        PROVE  sentinel'[r] = q
    <3>1. r.name \notin closing
      BY <1>3, <2>1, StepNames
    <3>2. CASE r \in Built(q)
      <4>1. sentinel[r] = q
        BY <3>1, <3>2 DEF BuiltControl
      <4>2. r \in Role
        <5>1. q \in Process /\ Roles[q] \in Seq(Role) /\ Len(Roles[q]) \in Nat /\ role[q] \in 1 .. Len(Roles[q])
          BY RolesOf DEF NamesTypes
        <5>2. \A i \in 1 .. Len(Roles[q]) : Roles[q][i] \in Role
          BY <5>1, ElementOfSeq
        <5> QED
          BY <3>2, <5>1, <5>2 DEF Built
      <4>3. sentinel'[r] = sentinel[r]
        BY <1>3, <2>1, <4>1, <4>2, StepSentinel, NobodyAssumption
      <4> QED
        BY <4>1, <4>3
    <3>3. CASE r \notin Built(q)
      <4>1. q = p /\ EnsureUniquePeer(p) /\ r = At(p)
        BY <1>3, <2>1, <3>3, OthersStay, StepBuilt
      <4> QED
        BY <4>1, AtRole DEF EnsureUniquePeer, NamesTypes
    <3> QED
      BY <3>2, <3>3
  <2>2. ASSUME NEW q \in Process, InDeleter(q)' PROVE At(q)'.name \in closing'
    <3>1. CASE q # p
      <4>1. InDeleter(q) /\ At(q)' = At(q)
        BY <1>3, <2>2, <3>1, OthersStay DEF InDeleter
      <4> QED
        BY <1>3, <4>1, StepNames DEF BuiltControl
    <3>2. CASE q = p /\ RemoveOwnSentinel(p)
      BY <3>2 DEF RemoveOwnSentinel, At
    <3>3. CASE q = p /\ ~RemoveOwnSentinel(p)
      <4>1. RemoveOtherSentinel(p) \/ RemoveQueue(p)
        <5>1. stage'[p] \in {"other", "mq", "close"} /\ stage \in [Process -> Stage]
          BY <2>2, <3>3 DEF InDeleter, NamesTypes
        <5> QED
          BY <1>3, <3>3, <5>1
             DEF ProcessStep, Opens, PosixCreate, PosixOpen, BipcOpen, MakeQueue, OpenQueue, GiveUp,
                 HandleReady, HandleFails, LeavesQueue, FirstStage, MakesPeers, EnsureUniquePeer, PeerExists,
                 SentinelFails, PeerReady, PeerFails, Destroys, Deletes, CloseHandle, Crash,
                 Unwind, GoTo
      <4>2. InDeleter(p) /\ At(p)' = At(p)
        BY <4>1 DEF RemoveOtherSentinel, RemoveQueue, InDeleter, At
      <4> QED
        BY <1>3, <3>3, <4>2, StepNames DEF BuiltControl
    <3> QED
      BY <3>1, <3>2, <3>3
  <2> QED
    BY <2>1, <2>2 DEF BuiltControl
<1> QED
  BY <1>1, <1>2, <1>3 DEF NamesNext

(* A sentinel keeps an owner.                                              *)
LEMMA NextOwner ==
  NamesTypes /\ BuiltControl /\ SentinelHasOwner /\ [NamesNext]_mqNamesVars => SentinelHasOwner'
<1> SUFFICES ASSUME NamesTypes, BuiltControl, SentinelHasOwner, [NamesNext]_mqNamesVars,
                    NEW r \in Role, NEW x \in Process, sentinel'[r] = x
             PROVE  stage'[x] = "crashed" \/ r \in Built(x)'
  <2>1. ASSUME NamesTypes, [NamesNext]_mqNamesVars
        PROVE  \A r \in Role : sentinel'[r] \in Process \cup {Nobody}
    BY <2>1, NextTypes DEF NamesTypes
  <2> QED
    BY <2>1, Zenon DEF SentinelHasOwner, Built
<1>1. CASE UNCHANGED mqNamesVars
  BY <1>1, NobodyAssumption DEF SentinelHasOwner, Built, mqNamesVars, nameVars, processVars
<1>2. CASE CleanUp
  <2>1. sentinel[r] = x
    <3>1. CASE CleanerRemoves
      BY <3>1, NobodyAssumption DEF CleanerRemoves, NamesTypes
    <3>2. CASE UNCHANGED sentinel
      BY <3>2
    <3> QED
      BY <1>2, <3>1, <3>2 DEF CleanUp, CleanerFinds
  <2>2. stage[x] = "crashed" \/ r \in Built(x)
    BY <2>1, NobodyAssumption DEF SentinelHasOwner
  <2>3. stage[x] \in {"gone", "crashed"} /\ stage' = stage
    BY <1>2, CleanUpStays
  <2> QED
    BY <2>2, <2>3 DEF Built
<1>3. ASSUME NEW p \in Process, ProcessStep(p)
      PROVE  stage'[x] = "crashed" \/ r \in Built(x)'
  <2>1. CASE sentinel[r] # x
    <3>1. EnsureUniquePeer(p) /\ r = At(p) /\ x = p
      BY <1>3, <2>1, StepSentinel, NobodyAssumption
    <3>2. Built(p)' = Built(p) \cup {At(p)}
      BY <1>3, <3>1, StepBuilt
    <3> QED
      BY <3>1, <3>2
  <2>2. CASE sentinel[r] = x
    <3>1. stage[x] = "crashed" \/ r \in Built(x)
      BY <2>2, NobodyAssumption DEF SentinelHasOwner
    <3>2. CASE x # p
      BY <1>3, <3>1, <3>2, OthersStay
    <3>3. CASE x = p
      <4>1. r \in Built(p)
        BY <1>3, <3>1, <3>3, StepTypes DEF IsOver
      <4>2. CASE Crash(p)
        BY <3>3, <4>2 DEF Crash, GoTo, NamesTypes
      <4>3. CASE RemoveOwnSentinel(p)
        <5>1. r # At(p)
          BY <4>3, NobodyAssumption DEF RemoveOwnSentinel, RemovesOwn, NamesTypes
        <5> QED
          BY <1>3, <3>3, <4>1, <4>3, <5>1, StepBuilt
      <4>4. CASE ~Crash(p) /\ ~RemoveOwnSentinel(p)
        BY <1>3, <3>3, <4>1, <4>4, StepBuilt
      <4> QED
        BY <4>2, <4>3, <4>4
    <3> QED
      BY <3>2, <3>3
  <2> QED
    BY <2>1, <2>2
<1> QED
  BY <1>1, <1>2, <1>3 DEF NamesNext

-----------------------------------------------------------------------------
(* A sentinel that is gone or was made again stays so.                     *)
LEMMA RemovedStays ==
  ASSUME NamesTypes, BuiltControl, NEW p \in Process, ProcessStep(p),
         NEW r \in Role, Removed(r), r.name \in closing
  PROVE  Removed(r)'
BY StepSentinel, StepNames DEF Removed

(* A deleter in the middle has removed what it says it has.                *)
LEMMA NextDeleter ==
  NamesTypes /\ BuiltControl /\ DeleterControl /\ [NamesNext]_mqNamesVars => DeleterControl'
<1> SUFFICES ASSUME NamesTypes, BuiltControl, DeleterControl, [NamesNext]_mqNamesVars
             PROVE  DeleterControl'
  OBVIOUS
<1>1. CASE UNCHANGED mqNamesVars
  BY <1>1 DEF DeleterControl, Removed, OtherOf, At, mqNamesVars, nameVars, processVars, historyVars
<1>2. CASE CleanUp
  BY <1>2, CleanUpStays DEF DeleterControl
<1>3. ASSUME NEW p \in Process, ProcessStep(p), NEW q \in Process
      PROVE  /\ stage'[q] \in {"other", "mq"} => Removed(At(q))'
             /\ stage'[q] = "mq" => Removed(OtherOf(q))'
  <2>1. At(q) \in Role /\ OtherOf(q) \in Role /\ OtherOf(q).name = At(q).name
    BY AtRole, RoleParts DEF OtherOf
  <2>2. ASSUME stage[q] \in {"other", "mq"}, Removed(At(q)) PROVE Removed(At(q))' \/ At(q)' # At(q)
    <3>1. At(q).name \in closing
      BY <2>2 DEF BuiltControl, InDeleter
    <3>2. ASSUME NEW r \in Role, r = At(q) PROVE Removed(r)'
      BY <1>3, <2>2, <3>1, <3>2, RemovedStays
    <3> QED
      BY <2>1, <3>2 DEF Removed
  <2>3. CASE q # p
    <3>1. stage'[q] = stage[q] /\ At(q)' = At(q) /\ OtherOf(q)' = OtherOf(q)
      BY <1>3, <2>3, OthersStay DEF OtherOf
    <3>2. stage[q] = "mq" => OtherOf(q).name \in closing /\ Removed(OtherOf(q))
      BY <2>1 DEF DeleterControl, BuiltControl, InDeleter
    <3>3. ASSUME NEW r \in Role, r = OtherOf(q), stage[q] = "mq" PROVE Removed(r)'
      BY <1>3, <3>2, <3>3, RemovedStays
    <3>4. stage[q] = "mq" => Removed(OtherOf(q))'
      BY <2>1, <3>1, <3>3 DEF Removed
    <3> QED
      BY <2>2, <3>1, <3>4 DEF DeleterControl
  <2>4. CASE q = p /\ RemoveOwnSentinel(p)
    <3>1. stage'[p] = "other" /\ At(p)' = At(p) /\ sentinel'[At(p)] = Nobody
      BY <2>1, <2>4 DEF RemoveOwnSentinel, RemovesOwn, AfterOwn, GoTo, At, NamesTypes
    <3> QED
      BY <2>4, <3>1 DEF Removed
  <2>5. CASE q = p /\ RemoveOtherSentinel(p)
    <3>1. stage[p] = "other" /\ At(p)' = At(p) /\ OtherOf(p)' = OtherOf(p)
      BY <2>5 DEF RemoveOtherSentinel, At, OtherOf
    <3>2. sentinel'[OtherOf(p)] = Nobody
      BY <2>1, <2>5 DEF RemoveOtherSentinel, OtherOf, NamesTypes
    <3> QED
      BY <2>2, <2>5, <3>1, <3>2 DEF DeleterControl, Removed
  <2>6. CASE q = p /\ ~RemoveOwnSentinel(p) /\ ~RemoveOtherSentinel(p)
    <3>1. stage \in [Process -> Stage]
      BY DEF NamesTypes
    <3>2. stage'[p] \notin {"other", "mq"}
      BY <1>3, <2>6, <3>1
         DEF ProcessStep, Opens, PosixCreate, PosixOpen, BipcOpen, MakeQueue, OpenQueue, GiveUp,
             HandleReady, HandleFails, LeavesQueue, FirstStage, MakesPeers, EnsureUniquePeer, PeerExists,
             SentinelFails, PeerReady, PeerFails, Destroys, Deletes, RemoveQueue, CloseHandle,
             Crash, Unwind, GoTo
    <3> QED
      BY <2>6, <3>2
  <2> QED
    BY <2>3, <2>4, <2>5, <2>6
<1> QED
  BY <1>1, <1>2, <1>3 DEF NamesNext, DeleterControl

(* A process's step gives a name another meaning only where it had none,   *)
(* or once a peer of its queue has begun to close.                         *)
LEMMA StepLinked ==
  ASSUME NamesTypes, BuiltControl, NEW p \in Process, ProcessStep(p),
         NEW n \in Name, linked[n] # 0, linked'[n] # linked[n]
  PROVE  RemoveQueue(p) /\ n = At(p).name /\ n \in closing
<1>1. At(p).name \in Name /\ linked \in [Name -> Nat] /\ made \in [Name -> Nat]
  BY AtRole, RoleParts DEF NamesTypes
<1>2. CASE RemoveQueue(p)
  BY <1>1, <1>2 DEF RemoveQueue, BuiltControl, InDeleter
<1>3. CASE MakeQueue(p) /\ linked[At(p).name] = 0
  BY <1>1, <1>3 DEF MakeQueue
<1>4. CASE UNCHANGED linked
  BY <1>4
<1> QED
  BY <1>2, <1>3, <1>4
     DEF ProcessStep, Opens, PosixCreate, PosixOpen, BipcOpen, OpenQueue, GiveUp,
         HandleReady, HandleFails, LeavesQueue, MakesPeers, EnsureUniquePeer, PeerExists, SentinelFails,
         PeerReady, PeerFails, Destroys, Deletes, RemoveOwnSentinel, RemoveOtherSentinel,
         CloseHandle, Crash, nameVars

(* What a process's step does to its handles: it leaves them, opens one    *)
(* more, closes those from a role on, or closes all and is over.           *)
KeepsHandles(p) ==
  handle' = handle /\ ~IsOver(p)' /\ Held(p)' \subseteq Held(p)
OpensHandle(p) ==
  /\ stage[p] \in {"create", "open"} /\ stage'[p] = "setup" /\ role'[p] = role[p]
  /\ linked'[At(p).name] # 0 /\ HandleIs(p, linked'[At(p).name])
CutsHandles(p, k) ==
  /\ handle' = [handle EXCEPT ![p] = [i \in DOMAIN @ |-> IF i < k THEN @[i] ELSE 0]]
  /\ stage'[p] = "own" /\ role'[p] = k - 1 /\ 1 .. k - 1 \subseteq Held(p)
EmptiesHandles(p) ==
  /\ handle' = [handle EXCEPT ![p] = [i \in DOMAIN @ |-> 0]]
  /\ stage'[p] \in {"gone", "crashed"}

LEMMA UnwindCuts ==
  ASSUME NamesTypes, HandleControl, NEW p \in Process, Unwind(p, role[p]),
         stage[p] \in {"peer", "close"}
  PROVE  EmptiesHandles(p) \/ \E k \in Nat : CutsHandles(p, k)
<1> DEFINE n == Len(Roles[p])
<1>1. /\ role[p] \in 1 .. n /\ n \in Nat
      /\ stage \in [Process -> Stage] /\ role \in [Process -> Nat]
      /\ DOMAIN handle = Process /\ DOMAIN handle[p] = 1 .. n
  BY RolesOf DEF NamesTypes, HandleControl
<1>2. 1 .. role[p] - 1 \subseteq Held(p)
  <2>1. stage[p] = "peer" => Held(p) = 1 .. n
    BY DEF Held
  <2>2. stage[p] = "close" => Held(p) = 1 .. role[p]
    BY DEF Held
  <2> HIDE DEF n
  <2> QED
    BY <1>1, <2>1, <2>2
<1>3. CASE role[p] = 1
  <2>1. [i \in DOMAIN handle[p] |-> IF i < 1 THEN handle[p][i] ELSE 0] = [i \in DOMAIN handle[p] |-> 0]
    BY <1>1
  <2> QED
    BY <1>1, <1>3, <2>1 DEF Unwind, GoTo, EmptiesHandles
<1>4. CASE role[p] # 1
  BY <1>1, <1>2, <1>4 DEF Unwind, GoTo, CutsHandles
<1> QED
  BY <1>3, <1>4

LEMMA StepHandles ==
  ASSUME NamesTypes, HandleControl, NEW p \in Process, ProcessStep(p)
  PROVE  \/ KeepsHandles(p) \/ OpensHandle(p) \/ EmptiesHandles(p)
         \/ \E k \in Nat : CutsHandles(p, k)
<1> DEFINE n == Len(Roles[p])
<1>1. /\ role[p] \in 1 .. n /\ n \in Nat /\ (stage[p] = "up" => role[p] = n)
      /\ stage \in [Process -> Stage] /\ role \in [Process -> Nat]
      /\ linked \in [Name -> Nat] /\ made \in [Name -> Nat] /\ At(p).name \in Name
  BY RolesOf, AtRole, RoleParts DEF NamesTypes
<1>2. Held(p) = CASE stage[p] \in {"create", "open"} -> 1 .. role[p] - 1
                  [] stage[p] = "setup" -> 1 .. role[p]
                  [] stage[p] \in {"peer", "wire", "up"} -> 1 .. n
                  [] stage[p] \in {"own", "other", "mq", "close"} -> 1 .. role[p]
                  [] OTHER -> {}
  BY DEF Held
<1>3. Held(p)' = CASE stage'[p] \in {"create", "open"} -> 1 .. role'[p] - 1
                   [] stage'[p] = "setup" -> 1 .. role'[p]
                   [] stage'[p] \in {"peer", "wire", "up"} -> 1 .. n
                   [] stage'[p] \in {"own", "other", "mq", "close"} -> 1 .. role'[p]
                   [] OTHER -> {}
  BY DEF Held
<1> USE <1>1 DEF GoTo
<1>4. CASE PosixCreate(p) \/ PosixOpen(p) \/ BipcOpen(p)
  <2>1. stage[p] \in {"create", "open"}
    BY <1>4 DEF PosixCreate, PosixOpen, BipcOpen
  <2>2. CASE MakeQueue(p)
    BY <2>1, <2>2 DEF MakeQueue, OpensHandle
  <2>3. CASE OpenQueue(p) /\ linked[At(p).name] # 0
    BY <2>1, <2>3 DEF OpenQueue, OpensHandle, nameVars
  <2>4. CASE GiveUp(p)
    BY <2>4 DEF GiveUp, EmptiesHandles
  <2>5. CASE (GoTo(p, "open") \/ GoTo(p, "create")) /\ UNCHANGED <<role, handle>>
    <3>1. stage'[p] \in {"create", "open"} /\ role'[p] = role[p]
      BY <2>5
    <3>2. Held(p)' = Held(p)
      BY <1>2, <1>3, <2>1, <3>1
    <3> QED
      BY <2>5, <3>1, <3>2 DEF KeepsHandles, IsOver
  <2> QED
    BY <1>4, <2>2, <2>3, <2>4, <2>5 DEF PosixCreate, PosixOpen, BipcOpen
<1>5. CASE HandleReady(p)
  <2>1. stage[p] = "setup" /\ handle' = handle
    BY <1>5 DEF HandleReady
  <2>2. CASE role[p] < n
    <3>1. stage'[p] \in {"create", "open"} /\ role'[p] = role[p] + 1
      BY <1>5, <2>2 DEF HandleReady, FirstStage
    <3> QED
      BY <1>2, <1>3, <2>1, <3>1 DEF KeepsHandles, IsOver
  <2>3. CASE ~(role[p] < n)
    <3>1. stage'[p] = "peer" /\ role[p] = n
      BY <1>5, <2>3 DEF HandleReady
    <3> QED
      BY <1>2, <1>3, <2>1, <3>1 DEF KeepsHandles, IsOver
  <2> QED
    BY <2>2, <2>3
<1>6. CASE HandleFails(p) \/ Crash(p)
  BY <1>6 DEF HandleFails, GiveUp, Crash, EmptiesHandles
<1>7. CASE EnsureUniquePeer(p) \/ PeerReady(p)
  <2>1. /\ stage[p] \in {"peer", "wire"} /\ stage'[p] \in {"peer", "wire", "up"}
        /\ handle' = handle
    BY <1>7 DEF EnsureUniquePeer, PeerReady
  <2> QED
    BY <1>2, <1>3, <2>1 DEF KeepsHandles, IsOver
<1>8. CASE PeerExists(p) \/ SentinelFails(p) \/ CloseHandle(p)
  BY <1>8, UnwindCuts DEF PeerExists, SentinelFails, CloseHandle
<1>9. CASE PeerFails(p)
  <2>1. /\ stage[p] = "wire" /\ stage'[p] = "own" /\ role'[p] = role[p]
        /\ handle' = [handle EXCEPT ![p] = [i \in DOMAIN @ |-> IF i <= role[p] THEN @[i] ELSE 0]]
    BY <1>9 DEF PeerFails
  <2>2. DOMAIN handle = Process /\ DOMAIN handle[p] = 1 .. n
    BY DEF HandleControl
  <2>3. \A i \in 1 .. n : i <= role[p] <=> i < role[p] + 1
    OBVIOUS
  <2>4. [i \in DOMAIN handle[p] |-> IF i <= role[p] THEN handle[p][i] ELSE 0]
           = [i \in DOMAIN handle[p] |-> IF i < role[p] + 1 THEN handle[p][i] ELSE 0]
    BY <2>2, <2>3
  <2>5. 1 .. (role[p] + 1) - 1 \subseteq Held(p)
    BY <1>2, <2>1
  <2>6. handle' = [handle EXCEPT ![p] = [i \in DOMAIN @ |-> IF i < role[p] + 1 THEN @[i] ELSE 0]]
    BY <2>1, <2>4, Zenon
  <2>7. (role[p] + 1) - 1 = role[p] /\ role[p] + 1 \in Nat
    OBVIOUS
  <2>8. role'[p] = (role[p] + 1) - 1 /\ stage'[p] = "own"
    BY <2>1
  <2>9. CutsHandles(p, role[p] + 1)
    BY <2>5, <2>6, <2>8, Zenon DEF CutsHandles
  <2> QED
    BY <2>7, <2>9
<1>10. CASE Destroys(p) \/ RemoveOwnSentinel(p) \/ RemoveOtherSentinel(p) \/ RemoveQueue(p)
  <2>1. /\ stage[p] \in {"up", "own", "other", "mq"} /\ stage'[p] \in {"own", "other", "mq", "close"}
        /\ role' = role /\ handle' = handle
    BY <1>10 DEF Destroys, RemoveOwnSentinel, AfterOwn, RemoveOtherSentinel, RemoveQueue
  <2> QED
    BY <1>2, <1>3, <2>1 DEF KeepsHandles, IsOver
<1> QED
  BY <1>4, <1>5, <1>6, <1>7, <1>8, <1>9, <1>10 DEF ProcessStep, Opens, MakesPeers, Deletes

(* A handle goes on meaning the queue of its name.                         *)
LEMMA NextHandles ==
  NamesTypes /\ BuiltControl /\ HandleControl /\ [NamesNext]_mqNamesVars => HandleControl'
<1> SUFFICES ASSUME NamesTypes, BuiltControl, HandleControl, [NamesNext]_mqNamesVars
             PROVE  HandleControl'
  OBVIOUS
<1>1. CASE UNCHANGED mqNamesVars
  BY <1>1 DEF HandleControl, Held, IsOver, mqNamesVars, nameVars, processVars, historyVars
<1>2. CASE CleanUp
  <2>1. handle' = handle
    BY <1>2 DEF CleanUp, processVars
  <2>2. \A p \in Process : IsOver(p)
    BY <1>2, CleanUpStays DEF IsOver
  <2>3. \A p \in Process : \A i \in 1 .. Len(Roles[p]) : handle[p][i] = 0
    BY <2>2 DEF HandleControl
  <2> QED
    BY <1>2, <2>1, <2>3, CleanUpStays DEF HandleControl
<1>3. ASSUME NEW p \in Process, ProcessStep(p) PROVE HandleControl'
  <2>1. DOMAIN handle = Process /\ \A q \in Process : handle[q] \in [1 .. Len(Roles[q]) -> Nat]
    BY DEF HandleControl
  <2>2. /\ closing \subseteq closing' /\ linked \in [Name -> Nat] /\ linked' \in [Name -> Nat]
        /\ At(p).name \in Name /\ role[p] \in 1 .. Len(Roles[p]) /\ Len(Roles[p]) \in Nat
    BY <1>3, StepNames, AtRole, RoleParts, RolesOf DEF NamesTypes
  <2>3. ASSUME NEW q \in Process, NEW i \in 1 .. Len(Roles[q]), handle[q][i] # 0,
               Roles[q][i].name \notin closing'
        PROVE  handle[q][i] = linked'[Roles[q][i].name]
    <3> DEFINE m == Roles[q][i].name
    <3>1. m \notin closing /\ m \in Name
      BY <2>2, <2>3, RolesOf, ElementOfSeq, RoleParts
    <3>2. handle[q][i] = linked[m]
      BY <2>3, <3>1 DEF HandleControl
    <3> HIDE DEF m
    <3>3. linked'[m] = linked[m]
      BY <1>3, <2>3, <3>1, <3>2, StepLinked
    <3> QED
      BY <3>2, <3>3 DEF m
  <2>4. ASSUME NEW q \in Process \ {p}, handle'[q] = handle[q]
        PROVE  /\ handle'[q] \in [1 .. Len(Roles[q]) -> Nat]
               /\ \A i \in Held(q)' : handle'[q][i] # 0
               /\ \A i \in 1 .. Len(Roles[q]) :
                    handle'[q][i] # 0 =>
                      /\ ~IsOver(q)'
                      /\ Roles[q][i].name \notin closing' => handle'[q][i] = linked'[Roles[q][i].name]
    <3>1. Held(q)' = Held(q) /\ (IsOver(q)' <=> IsOver(q))
      BY <1>3, OthersStay DEF IsOver
    <3> QED
      BY <2>1, <2>3, <2>4, <3>1 DEF HandleControl
  <2> SUFFICES /\ DOMAIN handle' = Process
               /\ \A q \in Process \ {p} : handle'[q] = handle[q]
               /\ handle'[p] \in [1 .. Len(Roles[p]) -> Nat]
               /\ \A i \in Held(p)' : handle'[p][i] # 0
               /\ \A i \in 1 .. Len(Roles[p]) :
                    handle'[p][i] # 0 =>
                      /\ ~IsOver(p)'
                      /\ Roles[p][i].name \notin closing' => handle'[p][i] = linked'[Roles[p][i].name]
    BY <2>4 DEF HandleControl
  <2>5. CASE KeepsHandles(p)
    BY <2>1, <2>3, <2>5 DEF KeepsHandles, HandleControl
  <2>6. CASE OpensHandle(p)
    <3>1. /\ stage'[p] = "setup" /\ role'[p] = role[p] /\ linked'[At(p).name] \in Nat \ {0}
          /\ handle' = [handle EXCEPT ![p][role[p]] = linked'[At(p).name]]
      BY <2>2, <2>6 DEF OpensHandle, HandleIs
    <3>2. /\ handle'[p] = [handle[p] EXCEPT ![role[p]] = linked'[At(p).name]]
          /\ DOMAIN handle' = Process /\ \A q \in Process \ {p} : handle'[q] = handle[q]
      BY <2>1, <3>1
    <3>3. Held(p) = 1 .. role[p] - 1
      BY <2>6 DEF OpensHandle, Held
    <3>4. Held(p)' = 1 .. role[p]
      BY <3>1 DEF Held
    <3>5. ASSUME NEW i \in Held(p)' PROVE handle'[p][i] # 0
      <4>1. i = role[p] \/ i \in Held(p)
        BY <2>2, <3>3, <3>4
      <4> QED
        BY <2>1, <2>2, <3>1, <3>2, <3>4, <4>1 DEF HandleControl
    <3>6. handle'[p] \in [1 .. Len(Roles[p]) -> Nat]
      BY <2>1, <2>2, <3>1, <3>2
    <3>7. ASSUME NEW i \in 1 .. Len(Roles[p]), handle'[p][i] # 0, Roles[p][i].name \notin closing'
          PROVE  handle'[p][i] = linked'[Roles[p][i].name]
      <4>1. CASE i = role[p]
        BY <2>1, <3>2, <4>1 DEF At
      <4>2. CASE i # role[p]
        BY <2>1, <2>3, <3>2, <3>7, <4>2
      <4> QED
        BY <4>1, <4>2
    <3> QED
      BY <3>1, <3>2, <3>5, <3>6, <3>7 DEF IsOver
  <2>7. CASE EmptiesHandles(p)
    <3>1. /\ handle'[p] = [i \in 1 .. Len(Roles[p]) |-> 0]
          /\ DOMAIN handle' = Process /\ \A q \in Process \ {p} : handle'[q] = handle[q]
      BY <2>1, <2>7 DEF EmptiesHandles
    <3>2. Held(p)' = {}
      BY <2>7 DEF EmptiesHandles, Held
    <3> QED
      BY <3>1, <3>2
  <2>8. ASSUME NEW k \in Nat, CutsHandles(p, k)
        PROVE  /\ DOMAIN handle' = Process
               /\ \A q \in Process \ {p} : handle'[q] = handle[q]
               /\ handle'[p] \in [1 .. Len(Roles[p]) -> Nat]
               /\ \A i \in Held(p)' : handle'[p][i] # 0
               /\ \A i \in 1 .. Len(Roles[p]) :
                    handle'[p][i] # 0 =>
                      /\ ~IsOver(p)'
                      /\ Roles[p][i].name \notin closing' => handle'[p][i] = linked'[Roles[p][i].name]
    <3>1. /\ handle'[p] = [i \in 1 .. Len(Roles[p]) |-> IF i < k THEN handle[p][i] ELSE 0]
          /\ DOMAIN handle' = Process /\ \A q \in Process \ {p} : handle'[q] = handle[q]
      BY <2>1, <2>8 DEF CutsHandles
    <3>2. Held(p)' = 1 .. k - 1
      BY <2>8 DEF CutsHandles, Held
    <3>3. \A i \in 1 .. k - 1 : i \in Held(p) /\ i < k
      BY <2>8 DEF CutsHandles
    <3>4. Held(p) \subseteq 1 .. Len(Roles[p])
      BY <2>2 DEF Held
    <3>5. \A i \in Held(p)' : handle'[p][i] # 0
      BY <3>1, <3>2, <3>3, <3>4 DEF HandleControl
    <3>6. handle'[p] \in [1 .. Len(Roles[p]) -> Nat]
      BY <2>1, <3>1
    <3>7. ~IsOver(p)'
      BY <2>8 DEF CutsHandles, IsOver
    <3>8. ASSUME NEW i \in 1 .. Len(Roles[p]), handle'[p][i] # 0, Roles[p][i].name \notin closing'
          PROVE  handle'[p][i] = linked'[Roles[p][i].name]
      BY <2>3, <3>1, <3>8
    <3> QED
      BY <3>1, <3>5, <3>6, <3>7, <3>8
  <2> QED
    BY <1>3, <2>5, <2>6, <2>7, <2>8, StepHandles
<1> QED
  BY <1>1, <1>2, <1>3 DEF NamesNext

(* So a queue that is open for a peer stays linked until a peer of it      *)
(* begins to close.                                                        *)
LEMMA LinkedFollows == ASSUME NamesTypes, HandleControl PROVE LinkedControl
<1> SUFFICES ASSUME NEW p \in Process, NEW i \in Opened(p), Roles[p][i].name \notin closing
             PROVE  linked[Roles[p][i].name] # 0
  BY DEF LinkedControl
<1>1. role[p] \in 1 .. Len(Roles[p]) /\ Len(Roles[p]) \in Nat
  BY RolesOf DEF NamesTypes
<1>2. i \in Held(p) /\ i \in 1 .. Len(Roles[p])
  BY <1>1 DEF Opened, Held
<1> QED
  BY <1>2 DEF HandleControl

(* A sentinel stands beside a linked queue, with the exceptions.           *)
LEMMA NextListable ==
  NamesInv /\ [NamesNext]_mqNamesVars => SentinelListable'
<1> SUFFICES ASSUME NamesInv, [NamesNext]_mqNamesVars, NEW r \in Role, sentinel'[r] # Nobody
             PROVE  linked'[r.name] # 0 \/ r \in late' \/ InCleaner(r)'
  BY DEF SentinelListable
<1>1. /\ NamesTypes /\ BuiltControl /\ DeleterControl /\ LinkedControl
      /\ sentinel[r] # Nobody => linked[r.name] # 0 \/ r \in late \/ InCleaner(r)
      /\ r.name \in Name
  BY RoleParts, LinkedFollows DEF NamesInv, NamesControl, SentinelListable
<1>2. CASE UNCHANGED mqNamesVars
  BY <1>1, <1>2 DEF InCleaner, mqNamesVars, nameVars, historyVars
<1>3. CASE CleanerRemoves /\ CleanUp
  <2>1. /\ sentinel[r] # Nobody /\ r # Head(cleaner)
        /\ cleaner \in Seq(Role) /\ cleaner # <<>> /\ cleaner' = Tail(cleaner)
        /\ UNCHANGED <<linked, late>>
    BY <1>1, <1>3 DEF CleanerRemoves, CleanUp, historyVars, NamesTypes
  <2>2. ASSUME NEW i \in 1 .. Len(cleaner), cleaner[i] = r PROVE InCleaner(r)'
    <3>1. i # 1 /\ Len(cleaner) \in Nat
      BY <2>1, <2>2
    <3>2. Len(Tail(cleaner)) = Len(cleaner) - 1
      BY <2>1, HeadTailProperties
    <3>3. i - 1 \in 1 .. Len(Tail(cleaner)) /\ Tail(cleaner)[i - 1] = r
      BY <2>1, <2>2, <3>1, <3>2, HeadTailProperties
    <3> QED
      BY <2>1, <3>3 DEF InCleaner
  <2> QED
    BY <1>1, <2>1, <2>2 DEF InCleaner
<1>4. ASSUME NEW n \in Name, CleanerFinds(n), CleanUp
      PROVE  linked'[r.name] # 0 \/ r \in late' \/ InCleaner(r)'
  <2>1. CASE r.name # n
    BY <1>1, <1>4, <2>1 DEF CleanerFinds, CleanUp, historyVars, NamesTypes, InCleaner
  <2>2. CASE r.name = n
    <3>1. r = [name |-> n, dir |-> "snd"] \/ r = [name |-> n, dir |-> "rcv"]
      BY <2>2 DEF Role, Dir
    <3>2. cleaner' = << [name |-> n, dir |-> "snd"], [name |-> n, dir |-> "rcv"] >>
      BY <1>4 DEF CleanerFinds
    <3>3. Len(cleaner') = 2 /\ (r = cleaner'[1] \/ r = cleaner'[2])
      BY <3>1, <3>2
    <3> QED
      BY <3>3 DEF InCleaner
  <2> QED
    BY <2>1, <2>2
<1>5. ASSUME NEW p \in Process, ProcessStep(p)
      PROVE  linked'[r.name] # 0 \/ r \in late' \/ InCleaner(r)'
  <2>1. cleaner' = cleaner /\ late \subseteq late'
    BY <1>1, <1>5, StepNames
  <2>2. CASE sentinel[r] # Nobody /\ linked[r.name] # 0 /\ linked'[r.name] = 0
    <3>1. stage[p] = "mq" /\ r.name = At(p).name
      BY <1>1, <1>5, <2>2, StepLinked DEF RemoveQueue
    <3>2. r = At(p) \/ r = OtherOf(p)
      <4>1. At(p) \in Role
        BY <1>1, AtRole
      <4> QED
        BY <3>1, <4>1 DEF Role, Dir, OtherOf, Opposite
    <3> QED
      BY <1>1, <2>1, <2>2, <3>1, <3>2 DEF DeleterControl, Removed
  <2>3. CASE sentinel[r] # Nobody /\ (linked[r.name] = 0 \/ linked'[r.name] # 0)
    BY <1>1, <2>1, <2>3 DEF InCleaner
  <2>4. CASE sentinel[r] = Nobody
    <3>1. EnsureUniquePeer(p) /\ r = At(p) /\ (r.name \in closing => r \in late')
      BY <1>1, <1>5, <2>4, StepSentinel
    <3>2. r.name \notin closing => linked[r.name] # 0
      <4>1. stage[p] = "peer" /\ role[p] \in 1 .. Len(Roles[p])
        BY <1>1, <3>1 DEF EnsureUniquePeer, NamesTypes
      <4>2. role[p] \in Opened(p)
        BY <4>1 DEF Opened
      <4> QED
        BY <1>1, <3>1, <4>2 DEF LinkedControl, At
    <3> QED
      BY <3>1, <3>2 DEF EnsureUniquePeer
  <2> QED
    BY <2>2, <2>3, <2>4
<1> QED
  BY <1>2, <1>3, <1>4, <1>5 DEF NamesNext, CleanUp

-----------------------------------------------------------------------------
(* The invariant is inductive.                                             *)
LEMMA NextNames == NamesInv /\ [NamesNext]_mqNamesVars => NamesInv'
BY NextTypes, NextBuilt, NextOwner, NextDeleter, NextHandles, NextListable
   DEF NamesInv, NamesControl

(* The state of names, handles and deleters (Posix_mq_handle's and         *)
(* Bipc_mq_handle's constructors, Blob_stream_mq_base_impl).               *)
THEOREM NamesInvariant == NamesSpec => []NamesInv
BY InitNames, NextNames, PTL DEF NamesSpec

(* A sentinel stands for a peer that exists, or one whose process ended    *)
(* without destructors (ensure_unique_peer() and its deleter).             *)
THEOREM SentinelsHaveOwners == NamesSpec => []SentinelHasOwner
<1>1. NamesInv => SentinelHasOwner
  BY DEF NamesInv, NamesControl
<1> QED
  BY <1>1, NamesInvariant, PTL

(* Processes that have peers of one name are its sender and its receiver,  *)
(* and share one queue, until a peer of it begins to be destroyed.         *)
THEOREM OneOfEach == NamesSpec => []PeersShareQueue
<1>1. ASSUME NamesInv, NEW p \in Process, NEW r \in Built(p), r.name \notin closing
      PROVE  sentinel[r] = p /\ r \in Role /\ QueueOf(p, r) = {linked[r.name]}
  <2>1. /\ sentinel[r] = p
        /\ role[p] \in 1 .. Len(Roles[p]) /\ Len(Roles[p]) \in Nat
        /\ stage[p] = "up" => role[p] = Len(Roles[p])
        /\ HandleControl
    BY <1>1, RolesOf DEF NamesInv, NamesTypes, NamesControl, BuiltControl
  <2>2. PICK i \in Held(p) : i \in 1 .. Len(Roles[p]) /\ Roles[p][i] = r
    BY <1>1, <2>1 DEF Built, Held
  <2>3. r \in Role
    BY <2>2, RolesOf, ElementOfSeq
  <2>4. DOMAIN Roles[p] = 1 .. Len(Roles[p])
    BY RolesOf
  <2>5. handle[p][i] # 0 /\ handle[p][i] = linked[r.name]
    BY <1>1, <2>1, <2>2 DEF HandleControl
  <2>6. \A j \in 1 .. Len(Roles[p]) : Roles[p][j] = r => handle[p][j] \in {0, linked[r.name]}
    BY <1>1, <2>1 DEF HandleControl
  <2> QED
    BY <2>1, <2>2, <2>3, <2>4, <2>5, <2>6 DEF QueueOf
<1>2. NamesInv => PeersShareQueue
  <2> SUFFICES ASSUME NamesInv, NEW p \in Process, NEW q \in Process,
                      NEW r \in Built(p), NEW s \in Built(q),
                      p # q, r.name = s.name, r.name \notin closing
               PROVE  r.dir # s.dir /\ QueueOf(p, r) = QueueOf(q, s)
    BY DEF PeersShareQueue
  <2>1. /\ sentinel[r] = p /\ r \in Role /\ QueueOf(p, r) = {linked[r.name]}
        /\ sentinel[s] = q /\ s \in Role /\ QueueOf(q, s) = {linked[r.name]}
    BY <1>1
  <2>2. r.dir = s.dir => r = s
    BY <2>1 DEF Role
  <2> QED
    BY <2>1, <2>2
<1> QED
  BY <1>2, NamesInvariant, PTL

(* What a dead process leaves is found by listing the queues, but for      *)
(* sentinels made after the other side's deleter was there.                *)
THEOREM LeaksAreListable == NamesSpec => []LeakIsListable
<1>1. NamesInv => LeakIsListable
  <2> SUFFICES ASSUME NamesInv, NEW r \in Role, sentinel[r] # Nobody
               PROVE  \/ linked[r.name] # 0
                      \/ r \in late
                      \/ \E i \in DOMAIN cleaner : cleaner[i] = r
    BY DEF LeakIsListable
  <2>1. cleaner \in Seq(Role)
    BY DEF NamesInv, NamesTypes
  <2> QED
    BY <2>1 DEF NamesInv, NamesControl, SentinelListable, InCleaner
<1> QED
  BY <1>1, NamesInvariant, PTL

(***************************************************************************)
(* A process that uses its peers through a channel is one of the processes *)
(* of MqNames: what is proved there of sentinels holds with channels too.  *)
(***************************************************************************)

(* Every step of a channel and the processes is a step of the processes,   *)
(* or changes no name.                                                     *)
LEMMA StepImplementsNames == [MqsNext]_mqsChannelVars => [NamesNext]_mqNamesVars
<1> SUFFICES ASSUME [MqsNext]_mqsChannelVars PROVE [NamesNext]_mqNamesVars
  OBVIOUS
<1> USE OwnerAssumption
<1>1. CASE UNCHANGED mqsChannelVars
  BY <1>1 DEF mqsChannelVars
<1>2. CASE ChannelStep
  BY <1>2 DEF ChannelStep
<1>3. CASE OwnerStep
  BY <1>3 DEF OwnerStep, ProcessStep, NamesNext
<1>4. CASE OwnerDestroys
  BY <1>4 DEF OwnerDestroys, ProcessStep, NamesNext
<1>5. CASE OwnerCrashes
  BY <1>5 DEF OwnerCrashes, ProcessStep, NamesNext
<1>6. CASE OtherStep
  BY <1>6 DEF OtherStep, NamesNext
<1> QED
  BY <1>1, <1>2, <1>3, <1>4, <1>5, <1>6 DEF MqsNext

(* Mqs_channel and its kin leave the names as their processes would.       *)
THEOREM ImplementsNames == MqsSpec => NamesSpec
<1>1. MqsInit => NamesInit
  BY DEF MqsInit
<1> QED
  BY <1>1, StepImplementsNames, PTL DEF MqsSpec, NamesSpec

(* So the three promises hold of processes that use channels.              *)
THEOREM ChannelSentinels ==
  MqsSpec => [](PeersShareQueue /\ SentinelHasOwner /\ LeakIsListable)
BY ImplementsNames, OneOfEach, SentinelsHaveOwners, LeaksAreListable, PTL


(***************************************************************************)
(* async_end_sending() of a channel.                                       *)
(*                                                                         *)
(* While no completion of a core runs into another or into the call, what  *)
(* the count and the saved error hold is known at each step of the call    *)
(* and of the handlers; it is what lets the later of two completions tell  *)
(* the user of both.  After that only the count is known.                  *)
(***************************************************************************)

(* The pipes still to complete; the second may not have been told yet.     *)
PipesLeft == completing \cup (IF calling = "second" THEN {Hndl} ELSE {})
OneLeft == Has = Pipe /\ PipesLeft \in {{Blob}, {Hndl}}
NotTold == told = <<>> /\ ~Answered
Quiet == NotTold /\ midway = {}

NoneCompleted ==
  /\ PipesLeft = Has /\ completed = <<>> /\ nDone = 0 /\ Quiet
  /\ calling \in {"no", "second"} /\ (calling = "second" => syncErrCode[Blob] = "wouldBlock")

(* The call of a core has met a pipe that is over at once.                 *)
OneAtOnce ==
  /\ io = "core" /\ OneLeft /\ completed = <<AtOnce>> /\ Quiet
  /\ \/ calling = "second" /\ syncErrCode[Blob] # "wouldBlock" /\ nDone = 0
     \/ calling = "count" /\ nDone = 0
     \/ calling = "store" /\ nDone = 1

OneCompleted ==
  /\ OneLeft /\ completed = <<errCode1>> /\ nDone = 1 /\ Quiet
  /\ calling = "no" \/ (calling = "second" /\ io = "async")

(* A handler of a core has counted, the first or the last.                 *)
FirstMidway ==
  /\ io = "core" /\ calling = "no" /\ OneLeft /\ nDone = 1 /\ NotTold
  /\ \E e : midway = {[err |-> e, last |-> FALSE]} /\ completed = <<e>>
LastMidway ==
  /\ io = "core" /\ calling = "no" /\ Has = Pipe /\ completing = {} /\ nDone = 2 /\ NotTold
  /\ \E e : midway = {[err |-> e, last |-> TRUE]} /\ completed = <<errCode1, e>>

AllCompleted ==
  calling = "no" /\ completing = {} /\ midway = {} /\ Learnt = <<FirstErrorIn(completed)>>

(* A completion ran into the call: one is left, or is counted by the call. *)
CallOverlapped ==
  /\ io = "core" /\ Has = Pipe /\ "call" \in overlapped /\ nDone = 1 /\ NotTold
  /\ \A h \in midway : ~h.last
  /\ \/ calling = "second" /\ completing = {} /\ syncErrCode[Blob] = "wouldBlock"
     \/ calling = "count" /\ completing = {}
     \/ calling = "no" /\ completing \in {{Blob}, {Hndl}}

(* Both are counted; one handler at most knows that it is the last.        *)
BothCounted ==
  /\ io = "core" /\ Has = Pipe /\ nDone = 2 /\ ~Answered
  /\ calling \in {"no", "store"} /\ completing = {}
  /\ \/ /\ told = <<>> /\ \A g, h \in midway : g.last /\ h.last => g = h
        /\ "call" \in overlapped \/ \E h \in midway : h.last
     \/ (\E e : told = <<e>>) /\ \A h \in midway : ~h.last

InOrder ==
  NoneCompleted \/ OneAtOnce \/ OneCompleted \/ FirstMidway \/ LastMidway \/ AllCompleted

NotAsked ==
  /\ calling = "no" /\ completing = {} /\ midway = {} /\ nDone = 0 /\ answer = "none"
  /\ completed = <<>> /\ told = <<>> /\ overlapped = {}
  /\ syncErrCode = [p \in Pipe |-> "wouldBlock"]

EndControl ==
  /\ asked => Has # {} /\ Firstly \in ended
  /\ completing \subseteq Has
  /\ calling = "second" => Has = Pipe /\ Hndl \notin completing
  /\ syncErrCode \in [Pipe -> Pipe \cup {"ok", "wouldBlock"}]
  /\ object # {} => Has # {}
  /\ ~asked => NotAsked
  /\ asked /\ overlapped = {} => InOrder
  /\ asked /\ overlapped # {} => CallOverlapped \/ BothCounted

(* Results that join none, and that join one.                              *)
LEMMA AppendToShort ==
  ASSUME NEW x, NEW y
  PROVE  Append(<<>>, y) = <<y>> /\ Append(<<x>>, y) = <<x, y>>
<1> DEFINE S == {x, y}
           s == Append(<<x>>, y)
<1>1. Append(<<>>, y) = <<y>>
  OBVIOUS
<1>2. <<x>> \in Seq(S) /\ Len(<<x>>) = 1 /\ <<x>>[1] = x /\ y \in S
  OBVIOUS
<1>3. <<x, y>> \in Seq(S) /\ Len(<<x, y>>) = 2 /\ <<x, y>>[1] = x /\ <<x, y>>[2] = y
  OBVIOUS
<1> HIDE DEF S
<1>4. s \in Seq(S) /\ Len(s) = 2 /\ s[1] = x /\ s[2] = y
  <2>1. /\ s \in Seq(S) /\ Len(s) = 1 + 1 /\ s[1 + 1] = y
        /\ \A i \in 1 .. 1 : s[i] = <<x>>[i]
    BY <1>2, AppendProperties
  <2> QED
    BY <1>2, <2>1
<1> HIDE DEF s
<1>5. \A i \in 1 .. 2 : s[i] = <<x, y>>[i]
  BY <1>3, <1>4
<1>6. s = <<x, y>>
  BY <1>3, <1>4, <1>5, SeqEqual
<1> QED
  BY <1>1, <1>6 DEF s

(* The first error of the results of one pipe or of two.                   *)
LEMMA FirstErrorOfOne == \A e : FirstErrorIn(<<e>>) = e
<1> SUFFICES ASSUME NEW e PROVE FirstErrorIn(<<e>>) = e
  OBVIOUS
<1>1. DOMAIN <<e>> = {1} /\ <<e>>[1] = e /\ 1 .. 1 - 1 = {}
  OBVIOUS
<1>2. CASE e = "ok"
  BY <1>1, <1>2 DEF FirstErrorIn
<1>3. CASE e # "ok"
  <2> DEFINE First(i) == <<e>>[i] # "ok" /\ \A j \in 1 .. i - 1 : <<e>>[j] = "ok"
  <2>1. 1 \in DOMAIN <<e>> /\ First(1)
    BY <1>1, <1>3
  <2>2. (CHOOSE i \in DOMAIN <<e>> : First(i)) = 1
    BY <1>1, <2>1
  <2> QED
    BY <1>1, <1>3, <2>1, <2>2 DEF FirstErrorIn
<1> QED
  BY <1>2, <1>3

LEMMA FirstErrorOfTwo == \A e, f : FirstErrorIn(<<e, f>>) = FirstError(e, f)
<1> SUFFICES ASSUME NEW e, NEW f PROVE FirstErrorIn(<<e, f>>) = FirstError(e, f)
  OBVIOUS
<1> DEFINE s == <<e, f>>
           First(i) == s[i] # "ok" /\ \A j \in 1 .. i - 1 : s[j] = "ok"
<1>1. DOMAIN s = {1, 2} /\ s[1] = e /\ s[2] = f
  OBVIOUS
<1>2. 1 .. 1 - 1 = {} /\ 1 .. 2 - 1 = {1}
  OBVIOUS
<1>3. FirstErrorIn(s) = IF \E i \in DOMAIN s : s[i] # "ok" THEN s[CHOOSE i \in DOMAIN s : First(i)] ELSE "ok"
  BY DEF FirstErrorIn
<1>4. First(1) <=> e # "ok"
  BY <1>1, <1>2
<1>5. First(2) <=> f # "ok" /\ e = "ok"
  BY <1>1, <1>2
<1> HIDE DEF s, First
<1>6. CASE e # "ok"
  <2>1. (CHOOSE i \in DOMAIN s : First(i)) = 1
    BY <1>1, <1>4, <1>5, <1>6
  <2> QED
    BY <1>1, <1>3, <1>6, <2>1 DEF s, FirstError
<1>7. CASE e = "ok" /\ f # "ok"
  <2>1. (CHOOSE i \in DOMAIN s : First(i)) = 2
    BY <1>1, <1>4, <1>5, <1>7
  <2> QED
    BY <1>1, <1>3, <1>7, <2>1 DEF s, FirstError
<1>8. CASE e = "ok" /\ f = "ok"
  BY <1>1, <1>3, <1>8 DEF s, FirstError
<1> QED
  BY <1>6, <1>7, <1>8

LEMMA InitEnd == ChannelInit => EndControl
BY PipesAssumption DEF ChannelInit, EndControl, Has, NotAsked

(* What is learnt, of the call's answer and the handler's calls.           *)
LEMMA LearntIs ==
  /\ NotTold => Learnt = <<>>
  /\ ~Answered => Learnt = told
  /\ Answered /\ told = <<>> => Learnt = <<answer>>
<1>1. ASSUME ~Answered PROVE Learnt = told
  BY <1>1 DEF Learnt
<1>2. ASSUME Answered, told = <<>> PROVE Learnt = <<answer>>
  BY <1>2, ConcatEmptySeq DEF Learnt
<1> QED
  BY <1>1, <1>2 DEF NotTold

(* What the handler of a pipe's part does, of an async-I/O channel or of   *)
(* one pipe.                                                               *)
LEMMA CompletesEnd ==
  ASSUME EndControl, NEW p \in completing, NEW e, Completes(p, e), io = "async" \/ Has = {p},
         UNCHANGED <<layout, io, ended, calling>>, object' # {} => object # {}
  PROVE  EndControl'
<1>1. /\ asked /\ p \in Has /\ (NoneCompleted \/ OneCompleted) /\ overlapped = {}
      /\ syncErrCode \in [Pipe -> Pipe \cup {"ok", "wouldBlock"}]
  <2>1. asked /\ p \in Has /\ syncErrCode \in [Pipe -> Pipe \cup {"ok", "wouldBlock"}]
    BY DEF EndControl, NotAsked
  <2>2. ~(io = "core" /\ Has = Pipe)
    BY PipesAssumption DEF Pipe
  <2> QED
    BY <2>1, <2>2
       DEF EndControl, InOrder, OneAtOnce, OneLeft, FirstMidway, LastMidway, AllCompleted, CallOverlapped, BothCounted
<1>2. Has' = Has /\ Firstly' = Firstly /\ asked' = asked
  BY DEF Has, Firstly, Completes
<1>3. /\ completing' = completing \ {p} /\ completed' = Append(completed, e)
      /\ UNCHANGED <<syncErrCode, midway, answer, overlapped>> /\ (Answered' <=> Answered)
  BY DEF Completes, coreEndVars, Answered
<1>4. p # Hndl \/ calling # "second"
  BY DEF EndControl
<1>5. PipesLeft' = PipesLeft \ {p}
  BY <1>3, <1>4 DEF PipesLeft
<1>6. told = <<>> /\ ~Answered /\ midway = {} /\ calling \in {"no", "second"} /\ p \in PipesLeft
  BY <1>1 DEF NoneCompleted, OneCompleted, Quiet, NotTold, PipesLeft
<1>7. ASSUME PipesLeft' = {}, told' = <<FirstErrorIn(completed')>> PROVE AllCompleted'
  <2>1. Learnt' = told'
    BY <1>3, <1>6 DEF Learnt
  <2>2. completing' = {} /\ calling # "second"
    BY <1>7 DEF PipesLeft
  <2> QED
    BY <1>3, <1>6, <1>7, <2>1, <2>2 DEF AllCompleted
<1>8. InOrder'
  <2>1. CASE Has = {p}
    <3>1. NoneCompleted
      BY <1>1, <2>1, PipesAssumption DEF OneCompleted, OneLeft, Pipe
    <3>2. completed' = <<e>> /\ told' = <<e>> /\ PipesLeft' = {}
      BY <1>3, <1>5, <1>6, <2>1, <3>1 DEF NoneCompleted, Completes
    <3> QED
      BY <1>7, <3>2, FirstErrorOfOne DEF InOrder
  <2>2. CASE Has # {p}
    <3>1. Has = Pipe /\ io = "async"
      BY <1>1, <2>2 DEF Has, Pipe
    <3>2. CASE NoneCompleted
      <4>1. completed' = <<e>> /\ nDone' = 1 /\ errCode1' = e /\ told' = <<>>
        BY <1>3, <1>6, <2>2, <3>2 DEF NoneCompleted, Completes
      <4>2. PipesLeft' \in {{Blob}, {Hndl}}
        BY <1>1, <1>5, <3>1, <3>2, PipesAssumption DEF NoneCompleted, Pipe
      <4> QED
        BY <1>2, <1>3, <1>6, <3>1, <4>1, <4>2 DEF OneCompleted, OneLeft, Quiet, NotTold, InOrder
    <3>3. CASE OneCompleted
      <4>1. completed' = <<errCode1, e>> /\ told' = <<FirstError(errCode1, e)>>
        BY <1>3, <1>6, <2>2, <3>3, AppendToShort DEF OneCompleted, Completes
      <4>2. PipesLeft' = {}
        BY <1>5, <1>6, <3>3 DEF OneCompleted, OneLeft
      <4> QED
        BY <1>7, <4>1, <4>2, FirstErrorOfTwo DEF InOrder
    <3> QED
      BY <1>1, <3>2, <3>3
  <2> QED
    BY <2>1, <2>2
<1> QED
  BY <1>1, <1>2, <1>3, <1>8 DEF EndControl

(* A step that leaves the ending as it is.                                 *)
LEMMA EndStays ==
  ASSUME EndControl, UNCHANGED <<layout, chanEndVars>>,
         asked => Firstly \in ended' /\ io' = io, object' # {} => Has # {}
  PROVE  EndControl'
<1> USE DEF chanEndVars, coreEndVars
<1>1. /\ UNCHANGED <<calling, asked, completing, nDone, errCode1, completed, told>>
      /\ UNCHANGED <<syncErrCode, midway, answer, overlapped>>
  OBVIOUS
<1>2. /\ Has' = Has /\ Firstly' = Firstly /\ PipesLeft' = PipesLeft /\ AtOnce' = AtOnce
      /\ (Answered' <=> Answered) /\ Learnt' = Learnt /\ (NotAsked' <=> NotAsked)
  BY <1>1 DEF Has, Firstly, PipesLeft, AtOnce, Answered, Learnt, NotAsked
<1>3. CASE ~asked
  BY <1>1, <1>2, <1>3 DEF EndControl
<1>4. CASE asked
  <2>1. (OneLeft' <=> OneLeft) /\ (Quiet' <=> Quiet) /\ (NotTold' <=> NotTold)
    BY <1>1, <1>2 DEF OneLeft, Quiet, NotTold
  <2>2. /\ NoneCompleted => NoneCompleted'
        /\ OneAtOnce => OneAtOnce'
        /\ OneCompleted => OneCompleted'
        /\ FirstMidway => FirstMidway'
        /\ LastMidway => LastMidway'
        /\ AllCompleted => AllCompleted'
    BY <1>1, <1>2, <1>4, <2>1
       DEF NoneCompleted, OneAtOnce, OneCompleted, FirstMidway, LastMidway, AllCompleted
  <2>3. (CallOverlapped => CallOverlapped') /\ (BothCounted => BothCounted')
    BY <1>1, <1>2, <1>4, <2>1 DEF CallOverlapped, BothCounted
  <2> QED
    BY <1>1, <1>2, <1>4, <2>2, <2>3 DEF EndControl, InOrder
<1> QED
  BY <1>3, <1>4

(* The call of an async-I/O channel, and its first pipe in either form.    *)
LEMMA BeforeAsking ==
  ASSUME EndControl, MaySend, Firstly \notin ended
  PROVE  /\ ~asked /\ NotAsked /\ ~Answered /\ Firstly \in Has /\ Has \in {{Blob}, {Hndl}, Pipe}
         /\ (Has = Pipe => Firstly = Blob) /\ (Has # Pipe => Has = {Firstly})
<1>1. ~asked /\ NotAsked /\ Has # {}
  BY DEF MaySend, EndControl
<1>2. ~Answered
  BY <1>1, PipesAssumption DEF NotAsked, Answered
<1>3. Firstly \in Has /\ Has \in {{Blob}, {Hndl}, Pipe}
  BY <1>1 DEF Has, Firstly, Pipe
<1>4. Blob # Hndl
  BY PipesAssumption
<1>5. Has = Pipe => Firstly = Blob
  BY DEF Firstly, Pipe
<1>6. Has # Pipe => Has = {Firstly}
  BY <1>3, <1>4 DEF Firstly
<1> QED
  BY <1>1, <1>2, <1>3, <1>5, <1>6

LEMMA AsyncCallEnd ==
  ASSUME EndControl, AsyncEndSendingFirst \/ AsyncEndSendingSecond
  PROVE  EndControl'
<1> USE DEF chanCfgVars, coreEndVars
<1>1. CASE AsyncEndSendingFirst
  <2>1. /\ MaySend /\ Firstly \notin ended /\ UNCHANGED <<layout, io, object, completed, told, nDone>>
        /\ UNCHANGED <<syncErrCode, midway, answer, overlapped>>
        /\ asked' /\ completing' = {Firstly} /\ Firstly \in ended'
        /\ calling' = IF Has = Pipe THEN "second" ELSE "no"
    BY <1>1 DEF AsyncEndSendingFirst
  <2>2. /\ NotAsked /\ ~Answered /\ Firstly \in Has /\ (Has = Pipe => Firstly = Blob)
        /\ (Has # Pipe => Has = {Firstly})
    BY <2>1, BeforeAsking
  <2>3. Has' = Has /\ Firstly' = Firstly /\ ~Answered' /\ Blob # Hndl
    BY <2>1, <2>2, PipesAssumption DEF Has, Firstly, Answered
  <2>4. PipesLeft' = Has
    <3>1. CASE Has = Pipe
      BY <2>1, <2>2, <3>1 DEF PipesLeft, Pipe
    <3>2. CASE Has # Pipe
      BY <2>1, <2>2, <3>2 DEF PipesLeft
    <3> QED
      BY <3>1, <3>2
  <2>5. syncErrCode' = [p \in Pipe |-> "wouldBlock"] /\ Blob \in Pipe
    BY <2>1, <2>2 DEF NotAsked, Pipe
  <2>6. NoneCompleted'
    <3>1. calling' \in {"no", "second"} /\ syncErrCode'[Blob] = "wouldBlock"
      BY <2>1, <2>5
    <3> QED
      BY <2>1, <2>2, <2>3, <2>4, <3>1 DEF NoneCompleted, NotAsked, Quiet, NotTold
  <2>7. overlapped' = {} /\ completing' \subseteq Has' /\ Has' # {}
    BY <2>1, <2>2, <2>3 DEF NotAsked
  <2>8. calling' = "second" => Has' = Pipe /\ Hndl \notin completing'
    BY <2>1, <2>2, <2>3
  <2>9. syncErrCode' \in [Pipe -> Pipe \cup {"ok", "wouldBlock"}]
    BY <2>5
  <2> QED
    BY <2>1, <2>3, <2>6, <2>7, <2>8, <2>9 DEF EndControl, InOrder
<1>2. CASE AsyncEndSendingSecond
  <2>1. /\ UNCHANGED <<layout, io, object, asked, completed, told, nDone, errCode1>>
        /\ UNCHANGED <<syncErrCode, midway, answer, overlapped>> /\ io = "async"
        /\ calling = "second" /\ calling' = "no"
        /\ completing' = completing \cup {Hndl} /\ ended \subseteq ended'
    BY <1>2 DEF AsyncEndSendingSecond
  <2>2. Has' = Has /\ Firstly' = Firstly /\ PipesLeft' = PipesLeft /\ (Answered' <=> Answered)
    BY <2>1 DEF Has, Firstly, PipesLeft, Answered
  <2>3. asked /\ Has = Pipe
    BY <2>1 DEF EndControl, NotAsked
  <2>4. overlapped = {} /\ (NoneCompleted \/ OneCompleted)
    BY <2>1, <2>3 DEF EndControl, InOrder, OneAtOnce, FirstMidway, LastMidway, AllCompleted,
                      CallOverlapped, BothCounted
  <2>5. NoneCompleted' \/ OneCompleted'
    BY <2>1, <2>2, <2>4 DEF NoneCompleted, OneCompleted, OneLeft, Quiet, NotTold
  <2>6. Hndl \in Has
    BY <2>3 DEF Pipe
  <2> QED
    BY <2>1, <2>2, <2>3, <2>4, <2>5, <2>6 DEF EndControl, InOrder
<1> QED
  BY <1>1, <1>2

(* The call of a core, pipe by pipe.                                       *)
LEMMA CoreFirstEnd ==
  ASSUME EndControl, CoreEndSendingFirst
  PROVE  EndControl'
<1> DEFINE f == Firstly
<1>1. /\ MaySend /\ f \notin ended /\ UNCHANGED <<layout, io, object, nDone, told, midway, overlapped>>
      /\ asked' /\ io = "core"
  BY DEF CoreEndSendingFirst, chanCfgVars
<1>2. PICK r \in Result(f) \cup {"wouldBlock"} :
        /\ TellsPipe(f, r)
        /\ IF Has = Pipe
             THEN calling' = "second" /\ UNCHANGED answer
             ELSE answer' = r /\ UNCHANGED calling
  BY DEF CoreEndSendingFirst
<1>3. /\ NotAsked /\ ~Answered /\ f \in Has /\ (Has = Pipe => f = Blob)
      /\ (Has # Pipe => Has = {f})
  BY <1>1, BeforeAsking
<1>4. f \in Pipe /\ Blob # Hndl /\ Blob \in Pipe /\ r \in Pipe \cup {"ok", "wouldBlock"}
  BY <1>3, PipesAssumption DEF Has, Pipe, Result
<1>5. Has' = Has /\ Firstly' = f
  BY <1>1 DEF Has, Firstly
<1>6. /\ completing = {} /\ completed = <<>> /\ told' = <<>> /\ nDone' = 0 /\ midway' = {}
      /\ overlapped' = {} /\ calling = "no" /\ answer = "none"
      /\ syncErrCode = [p \in Pipe |-> "wouldBlock"]
  BY <1>1, <1>3 DEF NotAsked
<1>7. /\ syncErrCode' \in [Pipe -> Pipe \cup {"ok", "wouldBlock"}] /\ syncErrCode'[f] = r
      /\ f \in ended'
  BY <1>2, <1>4, <1>6 DEF TellsPipe
<1>8. /\ r = "wouldBlock" => completing' = {f} /\ completed' = <<>>
      /\ r # "wouldBlock" => completing' = {} /\ completed' = <<r>>
  BY <1>2, <1>6, AppendToShort DEF TellsPipe
<1> HIDE DEF f
<1>9. CASE Has = Pipe
  <2>1. calling' = "second" /\ ~Answered' /\ f = Blob
    BY <1>2, <1>3, <1>9 DEF Answered
  <2>2. CASE r = "wouldBlock"
    <3>1. PipesLeft' = Has'
      BY <1>5, <1>8, <1>9, <2>1, <2>2 DEF PipesLeft, Pipe
    <3>2. NoneCompleted'
      BY <1>6, <1>7, <1>8, <2>1, <2>2, <3>1 DEF NoneCompleted, Quiet, NotTold
    <3> QED
      BY <1>1, <1>4, <1>5, <1>6, <1>7, <1>8, <1>9, <2>1, <2>2, <3>2 DEF EndControl, InOrder, Pipe
  <2>3. CASE r # "wouldBlock"
    <3>1. PipesLeft' = {Hndl} /\ AtOnce' = r
      BY <1>7, <1>8, <2>1, <2>3 DEF PipesLeft, AtOnce
    <3>2. OneAtOnce'
      BY <1>1, <1>5, <1>6, <1>7, <1>8, <1>9, <2>1, <2>3, <3>1 DEF OneAtOnce, OneLeft, Quiet, NotTold
    <3> QED
      BY <1>1, <1>5, <1>6, <1>7, <1>8, <1>9, <2>1, <2>3, <3>2 DEF EndControl, InOrder, Pipe
  <2> QED
    BY <2>2, <2>3
<1>10. CASE Has # Pipe
  <2>1. calling' = "no" /\ answer' = r /\ Has = {f}
    BY <1>2, <1>3, <1>6, <1>10
  <2>2. CASE r = "wouldBlock"
    <3>1. PipesLeft' = Has' /\ ~Answered'
      BY <1>5, <1>8, <2>1, <2>2, PipesAssumption DEF PipesLeft, Answered
    <3>2. NoneCompleted'
      BY <1>6, <1>8, <2>1, <2>2, <3>1 DEF NoneCompleted, Quiet, NotTold
    <3> QED
      BY <1>1, <1>5, <1>6, <1>7, <1>8, <2>1, <2>2, <3>2 DEF EndControl, InOrder
  <2>3. CASE r # "wouldBlock"
    <3>1. Answered'
      BY <1>4, <2>1, <2>3 DEF Answered
    <3>2. Learnt' = <<r>>
      BY <1>6, <2>1, <3>1, ConcatEmptySeq DEF Learnt
    <3>3. AllCompleted'
      BY <1>6, <1>8, <2>1, <2>3, <3>2, FirstErrorOfOne DEF AllCompleted
    <3> QED
      BY <1>1, <1>5, <1>6, <1>7, <1>8, <2>1, <2>3, <3>3 DEF EndControl, InOrder
  <2> QED
    BY <2>2, <2>3
<1> QED
  BY <1>9, <1>10

(* What is left to show of a step between the call and the last report.    *)
LEMMA CoreGoesOn ==
  ASSUME EndControl, asked, UNCHANGED <<layout, asked, object>>, ended \subseteq ended',
         completing' \subseteq Has, calling' = "second" => calling = "second" /\ Hndl \notin completing',
         syncErrCode' \in [Pipe -> Pipe \cup {"ok", "wouldBlock"}],
         overlapped' = {} => InOrder', overlapped' # {} => CallOverlapped' \/ BothCounted'
  PROVE  EndControl'
<1>1. Has' = Has /\ Firstly' = Firstly
  BY DEF Has, Firstly
<1> QED
  BY <1>1 DEF EndControl

LEMMA CoreSecondEnd ==
  ASSUME EndControl, CoreEndSendingSecond
  PROVE  EndControl'
<1>1. /\ UNCHANGED <<layout, io, object, asked, midway, nDone, told, overlapped>>
      /\ io = "core" /\ calling = "second"
  BY DEF CoreEndSendingSecond, chanCfgVars
<1>2. PICK r \in Result(Hndl) \cup {"wouldBlock"} :
        /\ TellsPipe(Hndl, r)
        /\ CASE syncErrCode[Blob] # "wouldBlock" /\ r # "wouldBlock" ->
                  calling' = "no" /\ answer' = FirstError(syncErrCode[Blob], r)
             [] syncErrCode[Blob] = "wouldBlock" /\ r = "wouldBlock" -> calling' = "no" /\ answer' = "untouched"
             [] OTHER -> calling' = "count" /\ UNCHANGED answer
  BY DEF CoreEndSendingSecond
<1>3. asked /\ Has = Pipe /\ Hndl \notin completing /\ completing \subseteq Pipe
      /\ syncErrCode \in [Pipe -> Pipe \cup {"ok", "wouldBlock"}]
  BY <1>1 DEF EndControl, NotAsked
<1>4. Pipe = {Blob, Hndl} /\ Blob # Hndl /\ r \in Pipe \cup {"ok", "wouldBlock"}
  BY PipesAssumption DEF Pipe, Result
<1>5. Has' = Has /\ Firstly' = Firstly
  BY <1>1 DEF Has, Firstly
<1>6. /\ syncErrCode' \in [Pipe -> Pipe \cup {"ok", "wouldBlock"}]
      /\ syncErrCode'[Hndl] = r /\ syncErrCode'[Blob] = syncErrCode[Blob] /\ ended \subseteq ended'
  BY <1>2, <1>3, <1>4 DEF TellsPipe
<1>7. /\ r = "wouldBlock" => completing' = completing \cup {Hndl} /\ completed' = completed
      /\ r # "wouldBlock" => completing' = completing /\ completed' = Append(completed, r)
  BY <1>2 DEF TellsPipe
<1>8. calling' \in {"no", "count"} /\ PipesLeft' = completing'
  BY <1>2 DEF PipesLeft
<1>9. \/ overlapped = {} /\ NoneCompleted /\ completing = {Blob} /\ syncErrCode[Blob] = "wouldBlock"
      \/ overlapped = {} /\ OneAtOnce /\ completing = {} /\ syncErrCode[Blob] # "wouldBlock"
      \/ overlapped # {} /\ CallOverlapped /\ completing = {} /\ syncErrCode[Blob] = "wouldBlock"
  <2>1. \/ overlapped = {} /\ (NoneCompleted \/ OneAtOnce)
        \/ overlapped # {} /\ CallOverlapped
    BY <1>1, <1>3 DEF EndControl, InOrder, OneCompleted, FirstMidway, LastMidway, AllCompleted, BothCounted
  <2>2. PipesLeft = completing \cup {Hndl}
    BY <1>1 DEF PipesLeft
  <2>3. NoneCompleted => completing = {Blob} /\ syncErrCode[Blob] = "wouldBlock"
    BY <1>1, <1>3, <1>4, <2>2 DEF NoneCompleted
  <2>4. OneAtOnce => completing = {} /\ syncErrCode[Blob] # "wouldBlock"
    BY <1>1, <1>3, <1>4, <2>2 DEF OneAtOnce, OneLeft
  <2>5. CallOverlapped => completing = {} /\ syncErrCode[Blob] = "wouldBlock"
    BY <1>1 DEF CallOverlapped
  <2> QED
    BY <2>1, <2>3, <2>4, <2>5
<1>10. ~Answered /\ told = <<>>
  BY <1>9 DEF NoneCompleted, OneAtOnce, CallOverlapped, Quiet, NotTold
<1>11. ASSUME NoneCompleted, completing = {Blob}, syncErrCode[Blob] = "wouldBlock" PROVE InOrder'
  <2>1. midway = {} /\ completed = <<>> /\ nDone = 0
    BY <1>11 DEF NoneCompleted, Quiet
  <2>2. CASE r = "wouldBlock"
    <3>1. calling' = "no" /\ answer' = "untouched" /\ ~Answered'
      BY <1>2, <1>11, <2>2, PipesAssumption DEF Answered
    <3> QED
      BY <1>1, <1>3, <1>4, <1>5, <1>6, <1>7, <1>8, <1>10, <1>11, <2>1, <2>2, <3>1
         DEF NoneCompleted, Quiet, NotTold, InOrder
  <2>3. CASE r # "wouldBlock"
    <3>1. calling' = "count" /\ ~Answered'
      BY <1>2, <1>10, <1>11, <2>3 DEF Answered
    <3>2. completed' = <<r>> /\ AtOnce' = r
      BY <1>6, <1>7, <1>11, <2>1, <2>3, AppendToShort DEF AtOnce
    <3> QED
      BY <1>1, <1>3, <1>5, <1>6, <1>7, <1>8, <1>10, <1>11, <2>1, <2>3, <3>1, <3>2
         DEF OneAtOnce, OneLeft, Quiet, NotTold, InOrder
  <2> QED
    BY <2>2, <2>3
<1>12. ASSUME OneAtOnce, completing = {}, syncErrCode[Blob] # "wouldBlock" PROVE InOrder'
  <2>1. midway = {} /\ completed = <<syncErrCode[Blob]>> /\ nDone = 0
    BY <1>1, <1>12 DEF OneAtOnce, AtOnce, Quiet
  <2>2. CASE r = "wouldBlock"
    <3>1. calling' = "count" /\ ~Answered'
      BY <1>2, <1>10, <1>12, <2>2 DEF Answered
    <3>2. completed' = <<AtOnce'>>
      BY <1>6, <1>7, <1>12, <2>1, <2>2 DEF AtOnce
    <3> QED
      BY <1>1, <1>3, <1>5, <1>6, <1>7, <1>8, <1>10, <1>12, <2>1, <2>2, <3>1, <3>2
         DEF OneAtOnce, OneLeft, Quiet, NotTold, InOrder
  <2>3. CASE r # "wouldBlock"
    <3>1. calling' = "no" /\ answer' = FirstError(syncErrCode[Blob], r)
      BY <1>2, <1>12, <2>3
    <3>2. answer' \in Pipe \cup {"ok"}
      BY <1>3, <1>4, <1>12, <2>3, <3>1 DEF FirstError
    <3>3. Learnt' = <<answer'>>
      BY <1>1, <1>10, <3>2, ConcatEmptySeq DEF Learnt, Answered
    <3>4. completed' = <<syncErrCode[Blob], r>>
      BY <1>7, <2>1, <2>3, AppendToShort
    <3> QED
      BY <1>1, <1>7, <1>12, <2>1, <2>3, <3>1, <3>3, <3>4, FirstErrorOfTwo DEF AllCompleted, InOrder
  <2> QED
    BY <2>2, <2>3
<1>13. ASSUME CallOverlapped, completing = {}, syncErrCode[Blob] = "wouldBlock" PROVE CallOverlapped'
  <2>1. ~Answered'
    BY <1>2, <1>10, <1>13, PipesAssumption DEF Answered
  <2>2. \/ calling' = "no" /\ completing' = {Hndl}
        \/ calling' = "count" /\ completing' = {}
    BY <1>2, <1>7, <1>13
  <2> QED
    BY <1>1, <1>5, <1>13, <2>1, <2>2 DEF CallOverlapped, NotTold
<1>14. completing' \subseteq Has
  BY <1>3, <1>4, <1>7
<1>15. (overlapped' = {} => InOrder') /\ (overlapped' # {} => CallOverlapped' \/ BothCounted')
  BY <1>1, <1>9, <1>11, <1>12, <1>13
<1> QED
  BY <1>1, <1>3, <1>6, <1>8, <1>14, <1>15, CoreGoesOn

(* What the call does of the pipe that was over at once.                   *)
LEMMA CoreCallEnd ==
  ASSUME EndControl, CoreCountsSynchronous \/ CoreStoresSynchronous
  PROVE  EndControl'
<1> USE DEF chanCfgVars, coreEndVars
<1>1. /\ UNCHANGED <<layout, io, object, ended, asked, completing, completed, told>>
      /\ UNCHANGED <<syncErrCode, midway, overlapped>> /\ calling' # "second"
      /\ calling \in {"count", "store"}
  BY DEF CoreCountsSynchronous, CoreStoresSynchronous
<1>2. asked /\ completing \subseteq Has /\ syncErrCode \in [Pipe -> Pipe \cup {"ok", "wouldBlock"}]
  BY <1>1 DEF EndControl, NotAsked
<1>3. \/ overlapped = {} /\ OneAtOnce
      \/ overlapped # {} /\ (CallOverlapped \/ BothCounted)
  BY <1>1, <1>2
     DEF EndControl, InOrder, NoneCompleted, OneCompleted, FirstMidway, LastMidway, AllCompleted
<1>4. ~Answered
  BY <1>3 DEF OneAtOnce, CallOverlapped, BothCounted, Quiet, NotTold
<1>5. Has' = Has /\ PipesLeft' = PipesLeft /\ AtOnce' = AtOnce /\ (OneLeft' <=> OneLeft)
  BY <1>1 DEF Has, PipesLeft, AtOnce, OneLeft
<1>6. CASE CoreCountsSynchronous
  <2>1. calling = "count" /\ calling' = "store" /\ nDone' = nDone + 1 /\ ~Answered'
    BY <1>4, <1>6 DEF CoreCountsSynchronous, CountsSynchronous, Answered
  <2>2. OneAtOnce => OneAtOnce'
    BY <1>1, <1>5, <2>1 DEF OneAtOnce, Quiet, NotTold
  <2>3. CallOverlapped => BothCounted'
    BY <1>1, <1>5, <2>1 DEF CallOverlapped, BothCounted, NotTold
  <2>4. ~BothCounted
    BY <2>1 DEF BothCounted
  <2>5. (overlapped' = {} => InOrder') /\ (overlapped' # {} => CallOverlapped' \/ BothCounted')
    BY <1>1, <1>3, <2>2, <2>3, <2>4 DEF InOrder
  <2> QED
    BY <1>1, <1>2, <2>5, CoreGoesOn
<1>7. CASE CoreStoresSynchronous
  <2>1. /\ calling = "store" /\ calling' = "no" /\ nDone' = nDone /\ errCode1' = AtOnce
        /\ answer' = "untouched" /\ ~Answered'
    BY <1>7, PipesAssumption DEF CoreStoresSynchronous, Answered
  <2>2. OneAtOnce => OneCompleted'
    BY <1>1, <1>5, <2>1 DEF OneAtOnce, OneCompleted, Quiet, NotTold
  <2>3. BothCounted => BothCounted'
    BY <1>1, <1>5, <2>1 DEF BothCounted
  <2>4. ~CallOverlapped
    BY <2>1 DEF CallOverlapped
  <2>5. (overlapped' = {} => InOrder') /\ (overlapped' # {} => CallOverlapped' \/ BothCounted')
    BY <1>1, <1>3, <2>2, <2>3, <2>4 DEF InOrder
  <2> QED
    BY <1>1, <1>2, <2>5, CoreGoesOn
<1> QED
  BY <1>6, <1>7

(* A completion handler of a core counts itself.                           *)
LEMMA CoreHandlerCountsEnd ==
  ASSUME EndControl, NEW p \in Pipe, CoreHandlerCounts(p)
  PROVE  EndControl'
<1>1. /\ UNCHANGED <<layout, io, object, ended, calling, asked, syncErrCode, errCode1, answer, told>>
      /\ io = "core" /\ Has = Pipe /\ p \in completing /\ completing' = completing \ {p}
      /\ nDone' = nDone + 1
      /\ overlapped' = overlapped \cup (IF calling # "no" THEN {"call"} ELSE {})
                                  \cup (IF midway # {} THEN {"handler"} ELSE {})
  BY DEF CoreHandlerCounts, chanCfgVars
<1>2. PICK e \in Result(p) :
        completed' = Append(completed, e) /\ midway' = midway \cup {[err |-> e, last |-> nDone' = 2]}
  BY DEF CoreHandlerCounts
<1>3. /\ asked /\ Pipe = {Blob, Hndl} /\ Blob # Hndl /\ completing \subseteq Pipe
      /\ calling = "second" => Hndl \notin completing
      /\ syncErrCode \in [Pipe -> Pipe \cup {"ok", "wouldBlock"}]
  BY <1>1, PipesAssumption DEF EndControl, NotAsked, Pipe
<1>4. /\ Has' = Has /\ Firstly' = Firstly /\ (Answered' <=> Answered)
      /\ PipesLeft' = completing' \cup (IF calling = "second" THEN {Hndl} ELSE {})
  BY <1>1 DEF Has, Firstly, Answered, PipesLeft
<1>5. \/ overlapped = {} /\ (NoneCompleted \/ OneAtOnce \/ OneCompleted \/ FirstMidway)
      \/ overlapped # {} /\ CallOverlapped
  BY <1>1, <1>3 DEF EndControl, InOrder, LastMidway, AllCompleted, BothCounted
<1>6. nDone \in {0, 1} /\ told = <<>> /\ ~Answered
  BY <1>5 DEF NoneCompleted, OneAtOnce, OneCompleted, FirstMidway, CallOverlapped, Quiet, NotTold
<1>7. NotTold' /\ completing' \subseteq Has
  BY <1>1, <1>3, <1>4, <1>6 DEF NotTold
<1> DEFINE h == [err |-> e, last |-> nDone' = 2]
<1>8. /\ midway' = midway \cup {h} /\ (h.last <=> nDone' = 2)
      /\ (nDone = 0 => h = [err |-> e, last |-> FALSE] /\ ~h.last)
      /\ (nDone = 1 => h = [err |-> e, last |-> TRUE] /\ h.last /\ nDone' = 2)
  <2>1. midway' = midway \cup {h} /\ h.last = (nDone' = 2)
    BY <1>2
  <2>2. ASSUME nDone = 0 PROVE h = [err |-> e, last |-> FALSE]
    <3>1. (nDone' = 2) = FALSE
      BY <1>1, <2>2
    <3> QED
      BY <3>1, Zenon
  <2>3. ASSUME nDone = 1 PROVE h = [err |-> e, last |-> TRUE] /\ nDone' = 2
    <3>1. (nDone' = 2) = TRUE
      BY <1>1, <2>3
    <3> QED
      BY <3>1, Zenon
  <2> QED
    BY <2>1, <2>2, <2>3
<1> HIDE DEF h
<1>9. ASSUME overlapped = {}, NoneCompleted, calling = "no" PROVE overlapped' = {} /\ FirstMidway'
  <2>1. midway' = {[err |-> e, last |-> FALSE]} /\ completed' = <<e>> /\ nDone' = 1 /\ overlapped' = {}
    <3>1. midway = {} /\ nDone = 0 /\ completed = <<>>
      BY <1>9 DEF NoneCompleted, Quiet
    <3>2. overlapped' = {} /\ nDone' = 1 /\ midway' = {h}
      BY <1>1, <1>8, <1>9, <3>1
    <3>3. completed' = <<e>>
      BY <1>2, <3>1, AppendToShort
    <3> QED
      BY <1>8, <3>1, <3>2, <3>3
  <2>2. completing = Pipe
    BY <1>1, <1>9 DEF NoneCompleted, PipesLeft
  <2>3. OneLeft'
    BY <1>1, <1>3, <1>4, <1>9, <2>2 DEF OneLeft
  <2> QED
    BY <1>1, <1>7, <1>9, <2>1, <2>3 DEF FirstMidway
<1>10. ASSUME overlapped = {}, NoneCompleted, calling # "no" PROVE "call" \in overlapped' /\ CallOverlapped'
  <2>1. calling = "second" /\ syncErrCode[Blob] = "wouldBlock" /\ nDone = 0 /\ midway = {}
    BY <1>10 DEF NoneCompleted, Quiet
  <2>2. p = Blob /\ completing' = {}
    BY <1>1, <1>3, <2>1
  <2> QED
    BY <1>1, <1>4, <1>7, <1>8, <2>1, <2>2 DEF CallOverlapped
<1>11. ASSUME OneAtOnce PROVE "call" \in overlapped' /\ (CallOverlapped' \/ BothCounted')
  <2>1. calling # "second"
    BY <1>1, <1>3, <1>11 DEF OneAtOnce, OneLeft, PipesLeft
  <2>2. midway' = {h} /\ completing' = {}
    BY <1>1, <1>8, <1>11, <2>1 DEF OneAtOnce, OneLeft, PipesLeft, Quiet
  <2>3. CASE calling = "count" /\ nDone = 0
    BY <1>1, <1>4, <1>7, <1>8, <2>2, <2>3 DEF CallOverlapped
  <2>4. CASE calling = "store" /\ nDone = 1
    BY <1>1, <1>4, <1>7, <1>8, <2>2, <2>4 DEF BothCounted, NotTold
  <2> QED
    BY <1>11, <2>1, <2>3, <2>4 DEF OneAtOnce
<1>12. ASSUME overlapped = {}, OneCompleted PROVE overlapped' = {} /\ LastMidway'
  <2>1. calling = "no" /\ midway = {} /\ nDone = 1 /\ completed = <<errCode1>>
    BY <1>1, <1>12 DEF OneCompleted, Quiet
  <2>2. completing' = {}
    BY <1>1, <1>12, <2>1 DEF OneCompleted, OneLeft, PipesLeft
  <2>3. midway' = {[err |-> e, last |-> TRUE]} /\ nDone' = 2 /\ overlapped' = {}
    BY <1>1, <1>8, <1>12, <2>1
  <2>4. completed' = <<errCode1', e>>
    BY <1>1, <1>2, <2>1, AppendToShort
  <2> QED
    BY <1>1, <1>4, <1>7, <2>1, <2>2, <2>3, <2>4 DEF LastMidway
<1>13. ASSUME FirstMidway PROVE overlapped' # {} /\ BothCounted'
  <2>1. calling = "no" /\ nDone = 1 /\ completing' = {}
    BY <1>1, <1>13 DEF FirstMidway, OneLeft, PipesLeft
  <2>2. PICK f : midway = {[err |-> f, last |-> FALSE]}
    BY <1>13 DEF FirstMidway
  <2>3. overlapped' # {} /\ h \in midway' /\ h.last /\ \A g \in midway' : g.last => g = h
    BY <1>1, <1>8, <2>1, <2>2
  <2> QED
    BY <1>1, <1>4, <1>7, <1>8, <2>1, <2>3 DEF BothCounted, NotTold
<1>14. ASSUME CallOverlapped PROVE overlapped' # {} /\ BothCounted'
  <2>1. /\ calling = "no" /\ nDone = 1 /\ completing' = {} /\ "call" \in overlapped'
        /\ \A g \in midway : ~g.last
    BY <1>1, <1>14 DEF CallOverlapped
  <2> QED
    BY <1>1, <1>4, <1>7, <1>8, <2>1 DEF BothCounted, NotTold
<1>15. (overlapped' = {} => InOrder') /\ (overlapped' # {} => CallOverlapped' \/ BothCounted')
  BY <1>5, <1>9, <1>10, <1>11, <1>12, <1>13, <1>14 DEF InOrder
<1> QED
  BY <1>1, <1>3, <1>7, <1>15, CoreGoesOn

(* And stores its error, or reports.                                       *)
LEMMA CoreHandlerEndsEnd ==
  ASSUME EndControl, CoreHandlerEnds
  PROVE  EndControl'
<1>1. /\ UNCHANGED <<layout, io, object, ended, calling, asked, syncErrCode, completing, nDone>>
      /\ UNCHANGED <<answer, completed, overlapped>>
  BY DEF CoreHandlerEnds, chanCfgVars
<1>2. PICK h \in midway :
        /\ midway' = midway \ {h}
        /\ IF h.last
             THEN \E seen \in {errCode1} \cup (IF Storing THEN {"torn"} ELSE {}) :
                    told' = Append(told, FirstError(seen, h.err))
             ELSE errCode1' = h.err /\ UNCHANGED told
  BY DEF CoreHandlerEnds
<1>3. /\ asked /\ completing \subseteq Has /\ (calling = "second" => Hndl \notin completing)
      /\ syncErrCode \in [Pipe -> Pipe \cup {"ok", "wouldBlock"}]
  BY DEF EndControl, NotAsked
<1>4. Has' = Has /\ PipesLeft' = PipesLeft /\ (Answered' <=> Answered) /\ (OneLeft' <=> OneLeft)
  BY <1>1 DEF Has, PipesLeft, Answered, OneLeft
<1>5. \/ overlapped = {} /\ (FirstMidway \/ LastMidway)
      \/ overlapped # {} /\ (CallOverlapped \/ BothCounted)
  BY <1>2, <1>3 DEF EndControl, InOrder, NoneCompleted, OneAtOnce, OneCompleted, AllCompleted, Quiet
<1>6. ASSUME FirstMidway PROVE OneCompleted'
  <2>1. PICK e : midway = {[err |-> e, last |-> FALSE]} /\ completed = <<e>>
    BY <1>6 DEF FirstMidway
  <2>2. h = [err |-> e, last |-> FALSE]
    BY <1>2, <2>1
  <2>3. midway' = {} /\ errCode1' = e /\ told' = told
    BY <1>2, <2>1, <2>2
  <2> QED
    BY <1>1, <1>4, <1>6, <2>1, <2>3 DEF FirstMidway, OneCompleted, Quiet, NotTold
<1>7. ASSUME LastMidway PROVE AllCompleted'
  <2>1. PICK e : midway = {[err |-> e, last |-> TRUE]} /\ completed = <<errCode1, e>>
    BY <1>7 DEF LastMidway
  <2>2. h = [err |-> e, last |-> TRUE] /\ midway' = {}
    BY <1>2, <2>1
  <2>3. ~Storing /\ told = <<>> /\ ~Answered /\ calling = "no" /\ completing = {}
    BY <1>7, <2>1 DEF LastMidway, Storing, NotTold
  <2>4. told' = <<FirstError(errCode1, e)>>
    <3>1. told' = Append(told, FirstError(errCode1, e))
      BY <1>2, <2>2, <2>3
    <3> QED
      BY <2>3, <3>1, AppendToShort
  <2>5. Learnt' = told'
    BY <1>4, <2>3 DEF Learnt
  <2> QED
    BY <1>1, <2>1, <2>2, <2>3, <2>4, <2>5, FirstErrorOfTwo DEF AllCompleted
<1>8. ASSUME CallOverlapped PROVE CallOverlapped'
  <2>1. ~h.last /\ told' = told /\ midway' \subseteq midway
    BY <1>2, <1>8 DEF CallOverlapped
  <2> QED
    BY <1>1, <1>4, <1>8, <2>1 DEF CallOverlapped, NotTold
<1>9. ASSUME BothCounted PROVE BothCounted'
  <2>1. CASE h.last
    <3>1. told = <<>> /\ \A g \in midway : g.last => g = h
      BY <1>2, <1>9, <2>1 DEF BothCounted
    <3>2. \E e : told' = <<e>>
      BY <1>2, <2>1, <3>1, AppendToShort
    <3> QED
      BY <1>1, <1>2, <1>4, <1>9, <3>1, <3>2 DEF BothCounted
  <2>2. CASE ~h.last
    BY <1>1, <1>2, <1>4, <1>9, <2>2 DEF BothCounted
  <2> QED
    BY <2>1, <2>2
<1>10. (overlapped' = {} => InOrder') /\ (overlapped' # {} => CallOverlapped' \/ BothCounted')
  BY <1>1, <1>5, <1>6, <1>7, <1>8, <1>9 DEF InOrder
<1> QED
  BY <1>1, <1>3, <1>10, CoreGoesOn

(* Every step of a channel.                                                *)
LEMMA NextEnd ==
  ASSUME EndControl, ChannelNext
  PROVE  EndControl'
<1> USE DEF chanCfgVars
<1>1. CASE Construct
  <2>1. PICK p \in Pipe : layout'[p] # "none"
    BY <1>1 DEF Construct
  <2>2. /\ ~asked /\ NotAsked /\ Has' # {}
        /\ syncErrCode \in [Pipe -> Pipe \cup {"ok", "wouldBlock"}]
    BY <1>1, <2>1 DEF Construct, EndControl, Has
  <2>3. UNCHANGED <<calling, asked, completing, nDone, completed, told, syncErrCode, midway, answer, overlapped>>
    BY <1>1 DEF Construct, chanEndVars, coreEndVars
  <2>4. NotAsked'
    BY <2>2, <2>3 DEF NotAsked
  <2> QED
    BY <2>2, <2>3, <2>4 DEF EndControl, NotAsked
<1>2. CASE \E p \in Pipe : InitPipe(p) \/ InitPipe2(p)
  <2>1. PICK p \in Pipe : InitPipe(p) \/ InitPipe2(p)
    BY <1>2
  <2>2. layout[p] # "none" /\ UNCHANGED <<layout, io, ended, chanEndVars>>
    BY <2>1 DEF InitPipe, InitPipe2, UserSetsUp
  <2>3. p \in Has
    BY <2>2 DEF Has
  <2> QED
    BY <2>2, <2>3, EndStays DEF EndControl
<1>3. CASE \/ ReplaceEventWaitHandles \/ AsyncIoObj \/ EndSending \/ AutoPing \/ IdleTimerRun
           \/ \E p \in Pipe, d \in Direction : StartOps(p, d)
  <2>1. UNCHANGED <<layout, chanEndVars, object>>
    BY <1>3 DEF ReplaceEventWaitHandles, AsyncIoObj, UserSetsUp, StartOps, EndSending, AutoPing, IdleTimerRun
  <2>2. asked => Firstly \in ended' /\ io' = io
    BY <1>3 DEF ReplaceEventWaitHandles, AsyncIoObj, UserSetsUp, StartOps, EndSending, AutoPing, IdleTimerRun,
                EndControl
  <2> QED
    BY <2>1, <2>2, EndStays DEF EndControl
<1>4. CASE AsyncEndSendingFirst \/ AsyncEndSendingSecond
  BY <1>4, AsyncCallEnd
<1>5. CASE CoreEndsSending
  BY <1>5, CoreFirstEnd, CoreSecondEnd, CoreCallEnd, CoreHandlerCountsEnd, CoreHandlerEndsEnd DEF CoreEndsSending
<1>6. CASE \E p \in Pipe : HandlerRuns(p)
  <2>1. PICK p \in Pipe : HandlerRuns(p)
    BY <1>6
  <2>2. PICK e : Completes(p, e)
    BY <2>1 DEF HandlerRuns
  <2>3. /\ p \in completing /\ (io = "async" \/ Has = {p})
        /\ UNCHANGED <<layout, io, ended, calling, object>>
    BY <2>1 DEF HandlerRuns
  <2> QED
    BY <2>2, <2>3, CompletesEnd
<1>7. CASE \E p \in Pipe : DestroyPipe(p)
  <2>1. PICK p \in Pipe : DestroyPipe(p)
    BY <1>7
  <2>2. UNCHANGED <<layout, io, ended, calling>> /\ object # {}
    BY <2>1 DEF DestroyPipe
  <2>3. CASE p \in completing /\ io = "async"
    <3>1. Completes(p, p)
      BY <2>1, <2>3 DEF DestroyPipe
    <3> QED
      BY <2>2, <2>3, <3>1, CompletesEnd
  <2>4. CASE ~(p \in completing /\ io = "async")
    <3>1. UNCHANGED chanEndVars
      BY <2>1, <2>4 DEF DestroyPipe, chanEndVars
    <3> QED
      BY <2>2, <3>1, EndStays DEF EndControl
  <2> QED
    BY <2>3, <2>4
<1> QED
  BY <1>1, <1>2, <1>3, <1>4, <1>5, <1>6, <1>7 DEF ChannelNext, SetUp, EndsSending

(* Of a channel, whatever the processes do around it.                      *)
LEMMA MqsNextEnd == EndControl /\ [MqsNext]_mqsChannelVars => EndControl'
<1> SUFFICES ASSUME EndControl, [MqsNext]_mqsChannelVars PROVE EndControl'
  OBVIOUS
<1>1. ASSUME UNCHANGED channelVars PROVE EndControl'
  BY <1>1, EndStays DEF channelVars, chanCfgVars, EndControl
<1>2. ASSUME ChannelGone PROVE EndControl'
  BY <1>2, PipesAssumption DEF ChannelGone, EndControl, NotAsked, Has
<1>3. CASE ChannelStep
  BY <1>3, NextEnd DEF ChannelStep
<1>4. CASE OwnerDestroys \/ OwnerCrashes
  BY <1>2, <1>4 DEF OwnerDestroys, OwnerCrashes
<1>5. CASE OwnerStep \/ OtherStep \/ UNCHANGED mqsChannelVars
  BY <1>1, <1>5 DEF OwnerStep, OtherStep, mqsChannelVars
<1> QED
  BY <1>3, <1>4, <1>5 DEF MqsNext

(* async_end_sending() tells the user at most once, and not before every   *)
(* pipe is done; what it tells is the error that came first, unless a      *)
(* completion of a core ran into another or into the call; and it does     *)
(* tell, unless one ran into the call.                                     *)
THEOREM EndReportedOnce == MqsSpec => []CombinedEndReported
<1>1. MqsInit => EndControl
  BY InitEnd DEF MqsInit
<1>2. EndControl => CombinedEndReported
  <2> SUFFICES ASSUME EndControl PROVE CombinedEndReported
    OBVIOUS
  <2>1. \/ ~asked /\ NotAsked
        \/ overlapped = {} /\ InOrder
        \/ overlapped # {} /\ (CallOverlapped \/ BothCounted)
    BY DEF EndControl
  <2>2. ASSUME NotTold, asked /\ calling = "no" /\ midway = {} => completing # {} \/ "call" \in overlapped
        PROVE  CombinedEndReported
    <3>1. Learnt = <<>>
      BY <2>2, LearntIs
    <3> QED
      BY <2>2, <3>1 DEF CombinedEndReported
  <2>3. ~asked /\ NotAsked => CombinedEndReported
    BY <2>2, PipesAssumption DEF NotAsked, NotTold, Answered
  <2>4. asked => Has # {}
    BY DEF EndControl
  <2>5. NoneCompleted \/ OneAtOnce \/ OneCompleted => CombinedEndReported
    BY <2>2, <2>3, <2>1, <2>4 DEF NoneCompleted, OneAtOnce, OneCompleted, OneLeft, Quiet, PipesLeft, EndControl
  <2>6. FirstMidway \/ LastMidway \/ CallOverlapped => CombinedEndReported
    BY <2>2 DEF FirstMidway, LastMidway, CallOverlapped
  <2>7. ASSUME AllCompleted PROVE CombinedEndReported
    <3>1. Len(Learnt) = 1 /\ Learnt[1] = FirstErrorIn(completed) /\ Learnt # <<>>
      BY <2>7 DEF AllCompleted
    <3> QED
      BY <2>7, <3>1 DEF AllCompleted, CombinedEndReported
  <2>8. ASSUME BothCounted, overlapped # {} PROVE CombinedEndReported
    <3>1. Learnt = told /\ completing = {} /\ calling \in {"no", "store"}
      BY <2>8, LearntIs DEF BothCounted
    <3>2. CASE told = <<>>
      BY <2>8, <3>1, <3>2 DEF BothCounted, CombinedEndReported
    <3>3. CASE \E e : told = <<e>>
      <4>1. Len(Learnt) = 1 /\ Learnt # <<>>
        BY <3>1, <3>3
      <4> QED
        BY <2>8, <3>1, <4>1 DEF CombinedEndReported
    <3> QED
      BY <2>8, <3>2, <3>3 DEF BothCounted
  <2> QED
    BY <2>1, <2>3, <2>5, <2>6, <2>7, <2>8 DEF InOrder
<1>3. MqsSpec => []EndControl
  BY <1>1, MqsNextEnd, PTL DEF MqsSpec
<1> QED
  BY <1>2, <1>3, PTL

=============================================================================
