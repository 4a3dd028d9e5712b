---------------------- MODULE ProtocolNegotiator_proofs ----------------------
(***************************************************************************)
(* Proofs about ProtocolNegotiator for every MaxVer.  The inductive        *)
(* invariant says where what a side computed came from: nothing yet, an    *)
(* unparsable message, or the highest version of the opposing side, which  *)
(* is the only thing ever announced.                                       *)
(***************************************************************************)
EXTENDS ProtocolNegotiator, SequenceTheorems, TLAPS

(* A side that has settled used the opposing side's maximum, or was handed *)
(* garbage; only a maximum is ever announced, and at most once.            *)
Provenance ==
  \A s \in Side :
    /\ announced[s] = IF sent[s] THEN <<hi[s]>> ELSE <<>>
    /\ negotiated[s] = S_VER_UNKNOWN => err[s] = NoError /\ ~garbled[s]
    /\ garbled[s] => negotiated[s] # S_VER_UNKNOWN
    /\ negotiated[s] # S_VER_UNKNOWN /\ garbled[s] =>
         /\ negotiated[s] = NegotiatedVer(lo[s], hi[s], S_VER_UNKNOWN)
         /\ err[s] = NegotiationErr(lo[s], hi[s], S_VER_UNKNOWN)
    /\ negotiated[s] # S_VER_UNKNOWN /\ ~garbled[s] =>
         /\ negotiated[s] = NegotiatedVer(lo[s], hi[s], hi[Opposite(s)])
         /\ err[s] = NegotiationErr(lo[s], hi[s], hi[Opposite(s)])

IInv == TypeOK /\ Provenance

(* What is stored is a version of the local range, or "unsupported" with an*)
(* error: never "unknown", so that a side settles once.                    *)
LEMMA NegotiatedVerType ==
  ASSUME NEW l \in Version, NEW h \in Version, ValidRange(l, h),
         NEW o \in Int
  PROVE  /\ NegotiatedVer(l, h, o) \in {h, S_VER_UNSUPPORTED}
         /\ NegotiatedVer(l, h, o) # S_VER_UNKNOWN
         /\ NegotiationErr(l, h, o) \in NegotiationErrors \cup {NoError}
         /\ NegotiationErr(l, h, o) = NoError <=> NegotiatedVer(l, h, o) = h
BY MaxVerAssumption DEF NegotiatedVer, NegotiationErr, ValidRange, Version, S_VER_UNKNOWN,
     S_VER_UNSUPPORTED, NegotiationErrors, NoError, OpposingVerInvalid, OpposingVerTooOld

LEMMA OppositeSide == \A s \in Side : Opposite(s) \in Side /\ Opposite(Opposite(s)) = s
BY DEF Side, Opposite

LEMMA InitInv == Init => IInv
BY MaxVerAssumption
   DEF Init, IInv, TypeOK, Provenance, Version, NegotiationErrors, S_VER_UNKNOWN, Side

LEMMA AnnouncePreserves ==
  ASSUME IInv, NEW s \in Side, AnnounceVersion(s)
  PROVE  IInv'
<1> USE MaxVerAssumption DEF IInv, AnnounceVersion
<1>1. hi[s] \in Version /\ hi[s] # S_VER_UNKNOWN
  BY DEF TypeOK, Version, S_VER_UNKNOWN
<1>2. CASE sent[s]
  <2>1. announced' = announced /\ sent' = sent
    BY <1>2 DEF LocalMaxForSending, TypeOK
  <2> QED
    BY <2>1 DEF TypeOK, Provenance
<1>3. CASE ~sent[s]
  <2>1. announced[s] = <<>>
    BY <1>3 DEF Provenance
  <2>2. announced' = [announced EXCEPT ![s] = <<hi[s]>>]
    BY <1>1, <1>3, <2>1 DEF LocalMaxForSending, TypeOK
  <2>3. <<hi[s]>> \in Seq(Version)
    BY <1>1
  <2>4. TypeOK'
    BY <2>2, <2>3 DEF TypeOK
  <2>5. Provenance'
    BY <2>2 DEF TypeOK, Provenance
  <2> QED
    BY <2>4, <2>5
<1> QED
  BY <1>2, <1>3

(* Both handlers: a side computes from o, garbage or the opposing maximum. *)
LEMMA ComputePreserves ==
  ASSUME IInv, NEW s \in Side, NEW o \in Int, NEW g \in BOOLEAN,
         g => negotiated[s] = S_VER_UNKNOWN,
         o = IF g THEN S_VER_UNKNOWN ELSE hi[Opposite(s)],
         ComputeNegotiated(s, o),
         garbled' = IF g THEN [garbled EXCEPT ![s] = TRUE] ELSE garbled,
         UNCHANGED <<lo, hi, sent, announced>>
  PROVE  IInv'
<1> USE MaxVerAssumption DEF IInv
<1>1. /\ lo[s] \in Version /\ hi[s] \in Version /\ ValidRange(lo[s], hi[s])
  BY DEF TypeOK
<1>2. CASE negotiated[s] # S_VER_UNKNOWN
  BY <1>2 DEF ComputeNegotiated, TypeOK, Provenance
<1>3. CASE negotiated[s] = S_VER_UNKNOWN
  <2> DEFINE v == NegotiatedVer(lo[s], hi[s], o)
             e == NegotiationErr(lo[s], hi[s], o)
  <2>1. /\ v \in Version \cup {S_VER_UNSUPPORTED} /\ v # S_VER_UNKNOWN
        /\ e \in NegotiationErrors \cup {NoError}
    BY <1>1, NegotiatedVerType
  <2>2. /\ negotiated' = [negotiated EXCEPT ![s] = v]
        /\ err' = [err EXCEPT ![s] = e]
    BY <1>3 DEF ComputeNegotiated
  <2> HIDE DEF v, e
  <2>3. TypeOK'
    BY <2>1, <2>2 DEF TypeOK
  <2>4. ASSUME NEW t \in Side, t # s
        PROVE  /\ negotiated'[t] = negotiated[t] /\ err'[t] = err[t]
               /\ garbled'[t] = garbled[t]
    BY <2>2, <2>4 DEF TypeOK
  <2>5. /\ negotiated'[s] = v /\ err'[s] = e
        /\ garbled'[s] = g
    BY <1>3, <2>2 DEF TypeOK, Provenance
  <2>6. Provenance'
    BY <2>1, <2>4, <2>5 DEF Provenance, v, e
  <2> QED
    BY <2>3, <2>6
<1> QED
  BY <1>2, <1>3

LEMMA NextPreserves == IInv /\ [Next]_vars => IInv'
<1> SUFFICES ASSUME IInv, [Next]_vars PROVE IInv'
  OBVIOUS
<1>1. ASSUME NEW s \in Side, AnnounceVersion(s) PROVE IInv'
  BY <1>1, AnnouncePreserves
<1>2. ASSUME NEW s \in Side, ReceiveVersion(s) PROVE IInv'
  <2>1. announced[Opposite(s)] = <<hi[Opposite(s)]>>
    BY <1>2, OppositeSide DEF ReceiveVersion, IInv, Provenance
  <2>2. hi[Opposite(s)] \in Int
    BY OppositeSide, MaxVerAssumption DEF IInv, TypeOK, Version
  <2>3. ComputeNegotiated(s, hi[Opposite(s)])
    BY <1>2, <2>1 DEF ReceiveVersion
  <2> QED
    BY <1>2, <2>2, <2>3, ComputePreserves DEF ReceiveVersion
<1>3. ASSUME NEW s \in Side, ReceiveGarbled(s) PROVE IInv'
  <2>1. S_VER_UNKNOWN \in Int
    BY DEF S_VER_UNKNOWN
  <2>2. /\ negotiated[s] = S_VER_UNKNOWN
        /\ ComputeNegotiated(s, S_VER_UNKNOWN)
        /\ garbled' = [garbled EXCEPT ![s] = TRUE]
        /\ UNCHANGED <<lo, hi, sent, announced>>
    BY <1>3 DEF ReceiveGarbled
  <2> QED
    BY <2>1, <2>2, ComputePreserves
<1>4. CASE UNCHANGED vars
  BY <1>4 DEF vars, IInv, TypeOK, Provenance
<1> QED
  BY <1>1, <1>2, <1>3, <1>4 DEF Next

LEMMA Invariance == Spec => []IInv
BY InitInv, NextPreserves, PTL DEF Spec

(* The variables of the negotiation keep their types, and a range stays a  *)
(* range, for any number of versions.                                      *)
THEOREM TypeCorrect == Spec => []TypeOK
BY Invariance, PTL DEF IInv

(* Each side announces its preferred version at most once.                 *)
THEOREM AnnouncedAtMostOnce == Spec => []AnnouncedOnce
<1>1. IInv => AnnouncedOnce
  <2> SUFFICES ASSUME IInv, NEW s \in Side PROVE Len(announced[s]) <= 1
    BY DEF AnnouncedOnce
  <2>1. announced[s] = <<>> \/ announced[s] = <<hi[s]>>
    BY DEF IInv, Provenance
  <2>2. Len(<<>>) = 0 /\ Len(<<hi[s]>>) = 1
    OBVIOUS
  <2>3. Len(announced[s]) \in {0, 1}
    BY <2>1, <2>2, Zenon
  <2>4. \A n \in {0, 1} : n <= 1
    OBVIOUS
  <2> QED
    BY <2>3, <2>4, Zenon
<1> QED
  BY <1>1, Invariance, PTL

(* Incompatible sides never both go on: if the ranges are disjoint, one    *)
(* side's maximum lies below the other's minimum, and the other refuses.   *)
THEOREM DisjointDetected == Spec => []DisjointRangesDetected
<1>1. IInv => DisjointRangesDetected
  <2> SUFFICES ASSUME IInv, BothDone, ~Overlap, \A s \in Side : err[s] = NoError
               PROVE  FALSE
    BY DEF DisjointRangesDetected
  <2>1. ASSUME NEW s \in Side PROVE lo[s] <= hi[Opposite(s)]
    <3>1. /\ lo[s] \in Version /\ hi[Opposite(s)] \in Version /\ hi[s] \in Version
          /\ lo[s] <= hi[s]
      BY OppositeSide DEF IInv, TypeOK, ValidRange
    <3>2. \/ err[s] = NegotiationErr(lo[s], hi[s], S_VER_UNKNOWN)
          \/ err[s] = NegotiationErr(lo[s], hi[s], hi[Opposite(s)])
      BY DEF IInv, Provenance, BothDone
    <3> QED
      BY <3>1, <3>2, MaxVerAssumption DEF NegotiationErr, NoError, OpposingVerInvalid,
           OpposingVerTooOld, S_VER_UNKNOWN, Version
  <2>2. /\ lo[1] <= hi[2] /\ lo[2] <= hi[1] /\ lo[1] <= hi[1] /\ lo[2] <= hi[2]
        /\ \A s \in Side : lo[s] \in Version /\ hi[s] \in Version
    BY <2>1 DEF Opposite, Side, IInv, TypeOK, ValidRange
  <2>3. CASE hi[1] <= hi[2]
    BY <2>2, <2>3, MaxVerAssumption DEF Overlap, Side, Version
  <2>4. CASE hi[2] <= hi[1]
    BY <2>2, <2>4, MaxVerAssumption DEF Overlap, Side, Version
  <2> QED
    BY <2>2, <2>3, <2>4, MaxVerAssumption DEF Side, Version
<1> QED
  BY <1>1, Invariance, PTL

(* Compatible sides are never refused, unless the announcement was garbled.*)
THEOREM CompatibleAccepted == Spec => []CompatibleNeverRefused
<1>1. IInv => CompatibleNeverRefused
  <2> SUFFICES ASSUME IInv, NEW s \in Side, err[s] # NoError, ~garbled[s],
                      NEW v \in Version, \A t \in Side : lo[t] <= v /\ v <= hi[t]
               PROVE  FALSE
    BY DEF CompatibleNeverRefused, Overlap
  <2>1. err[s] = NegotiationErr(lo[s], hi[s], hi[Opposite(s)])
    BY DEF IInv, Provenance
  <2>2. /\ lo[s] \in Version /\ hi[Opposite(s)] \in Version
        /\ lo[s] <= v /\ v <= hi[Opposite(s)]
    BY OppositeSide DEF IInv, TypeOK
  <2> QED
    BY <2>1, <2>2, MaxVerAssumption DEF NegotiationErr, NoError, Version
<1> QED
  BY <1>1, Invariance, PTL

(* What a side computed is final: a later call, with whatever the opposing *)
(* side sent, changes neither version nor error.                           *)
THEOREM OutcomeIsFinal == Spec => NegotiationIsFinal
<1>1. IInv /\ [Next]_vars =>
        [\A s \in Side : negotiated[s] # S_VER_UNKNOWN =>
           negotiated'[s] = negotiated[s] /\ err'[s] = err[s]]_vars
  <2> SUFFICES ASSUME IInv, Next, NEW s \in Side, negotiated[s] # S_VER_UNKNOWN
               PROVE  negotiated'[s] = negotiated[s] /\ err'[s] = err[s]
    OBVIOUS
  <2> QED
    BY DEF Next, AnnounceVersion, ReceiveVersion, ReceiveGarbled, ComputeNegotiated,
           IInv, TypeOK
<1> QED
  BY <1>1, Invariance, PTL DEF Spec, NegotiationIsFinal
=============================================================================
