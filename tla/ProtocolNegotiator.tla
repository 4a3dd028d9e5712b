------------------------- MODULE ProtocolNegotiator -------------------------
(***************************************************************************)
(* Two Protocol_negotiator objects, one at each end of a comm pathway.     *)
(* Each side announces its preferred (highest) version once, as its first  *)
(* out-message, and computes the version to speak from the opposing        *)
(* side's first in-message.  A message may arrive unparsable, in which     *)
(* case the user passes S_VER_UNKNOWN (Native_socket_stream does so when   *)
(* the first message carries a native handle).                             *)
(***************************************************************************)
EXTENDS ProtoVersion, Sequences

CONSTANT MaxVer   \* bound: versions are drawn from 1..MaxVer

ASSUME MaxVerAssumption == MaxVer \in Nat \ {0}

Side == {1, 2}
Opposite(s) == 3 - s

VARIABLES
  lo,          \* m_local_min_proto_ver of each side
  hi,          \* m_local_max_proto_ver of each side
  sent,        \* m_local_max_proto_ver_sent of each side
  negotiated,  \* m_negotiated_proto_ver of each side
  err,         \* the last error compute_negotiated_proto_ver() emitted
  announced,   \* announced[s]: what s has sent, on its way to the other side
  garbled      \* garbled[s]: s was handed an unparsable first message

vars == <<lo, hi, sent, negotiated, err, announced, garbled>>

Version == 1 .. MaxVer

(* Types: what is announced is always a version, and what is negotiated is *)
(* a version, unknown, or unsupported.                                     *)
TypeOK ==
  /\ lo \in [Side -> Version]
  /\ hi \in [Side -> Version]
  /\ \A s \in Side : ValidRange(lo[s], hi[s])
  /\ sent \in [Side -> BOOLEAN]
  /\ negotiated \in [Side -> Version \cup {S_VER_UNKNOWN, S_VER_UNSUPPORTED}]
  /\ err \in [Side -> NegotiationErrors \cup {NoError}]
  /\ announced \in [Side -> Seq(Version)]
  /\ garbled \in [Side -> BOOLEAN]

Init ==
  /\ lo \in [Side -> Version]
  /\ hi \in [Side -> Version]
  /\ \A s \in Side : ValidRange(lo[s], hi[s])
  /\ sent = [s \in Side |-> FALSE]
  /\ negotiated = [s \in Side |-> S_VER_UNKNOWN]
  /\ err = [s \in Side |-> NoError]
  /\ announced = [s \in Side |-> <<>>]
  /\ garbled = [s \in Side |-> FALSE]

(* local_max_proto_ver_for_sending() yields the version the first time and *)
(* S_VER_UNKNOWN from then on; the caller sends only the former.           *)
LocalMaxForSending(s) == IF sent[s] THEN S_VER_UNKNOWN ELSE hi[s]

AnnounceVersion(s) ==
  /\ announced' = IF LocalMaxForSending(s) = S_VER_UNKNOWN
                    THEN announced
                    ELSE [announced EXCEPT ![s] = Append(@, LocalMaxForSending(s))]
  /\ sent' = [sent EXCEPT ![s] = TRUE]
  /\ UNCHANGED <<lo, hi, negotiated, err, garbled>>

(* compute_negotiated_proto_ver(): a no-op if it was called before.        *)
ComputeNegotiated(s, opposing) ==
  IF negotiated[s] # S_VER_UNKNOWN
    THEN UNCHANGED <<negotiated, err>>
    ELSE /\ negotiated' = [negotiated EXCEPT ![s] = NegotiatedVer(lo[s], hi[s], opposing)]
         /\ err' = [err EXCEPT ![s] = NegotiationErr(lo[s], hi[s], opposing)]

ReceiveVersion(s) ==
  /\ announced[Opposite(s)] # <<>>
  /\ ComputeNegotiated(s, announced[Opposite(s)][1])
  /\ UNCHANGED <<lo, hi, sent, announced, garbled>>

ReceiveGarbled(s) ==
  /\ announced[Opposite(s)] # <<>>
  /\ negotiated[s] = S_VER_UNKNOWN
  /\ ComputeNegotiated(s, S_VER_UNKNOWN)
  /\ garbled' = [garbled EXCEPT ![s] = TRUE]
  /\ UNCHANGED <<lo, hi, sent, announced>>

Next == \E s \in Side : AnnounceVersion(s) \/ ReceiveVersion(s) \/ ReceiveGarbled(s)

Spec == Init /\ [][Next]_vars

-----------------------------------------------------------------------------

Overlap == \E v \in Version : \A s \in Side : lo[s] <= v /\ v <= hi[s]
BothDone == \A s \in Side : negotiated[s] # S_VER_UNKNOWN

(* Two sides whose ranges share no version never both go on: whichever     *)
(* side is too new refuses in compute_negotiated_proto_ver(), although     *)
(* neither knows the other's minimum.                                      *)
DisjointRangesDetected ==
  BothDone /\ ~Overlap => \E s \in Side : err[s] # NoError

(* Two sides whose ranges share a version, and whose announcements arrive  *)
(* intact, are never refused by compute_negotiated_proto_ver().            *)
CompatibleNeverRefused ==
  Overlap => \A s \in Side : err[s] # NoError => garbled[s]

(* The version is announced at most once per side, whatever the number of  *)
(* start_send_*_ops()-like callers of local_max_proto_ver_for_sending().   *)
AnnouncedOnce == \A s \in Side : Len(announced[s]) <= 1

(* The documented algorithm `(H <= Hp) ? H : ((Hp >= L) ? Hp : UNSUPPORTED)` *)
(* makes both sides of a pathway speak the same version.                   *)
VersionAgreed ==
  BothDone /\ (\A s \in Side : err[s] = NoError) => negotiated[1] = negotiated[2]

(* The outcome is final: a later call of compute_negotiated_proto_ver()    *)
(* changes neither the version nor the error.                              *)
NegotiationIsFinal ==
  [][\A s \in Side : negotiated[s] # S_VER_UNKNOWN =>
       negotiated'[s] = negotiated[s] /\ err'[s] = err[s]]_vars
=============================================================================
