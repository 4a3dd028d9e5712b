---------------------------- MODULE ProtoVersion ----------------------------
(***************************************************************************)
(* The arithmetic of ipc::transport::Protocol_negotiator, without state:   *)
(* what compute_negotiated_proto_ver() stores and emits, given the local   *)
(* range [lo, hi] and the preferred version the opposing side announced.   *)
(***************************************************************************)
EXTENDS Integers

S_VER_UNKNOWN == -1
S_VER_UNSUPPORTED == 0

NoError == "ok"
OpposingVerInvalid == "PROTOCOL_NEGOTIATION_OPPOSING_VER_INVALID"
OpposingVerTooOld == "PROTOCOL_NEGOTIATION_OPPOSING_VER_TOO_OLD"
NegotiationErrors == {OpposingVerInvalid, OpposingVerTooOld}

(* The constructor's contract on a version range.                          *)
ValidRange(lo, hi) == 0 < lo /\ lo <= hi

(* The version stored, one arm per branch of the code.  The third branch    *)
(* stores the local maximum, not the opposing one: see VersionAgreed in    *)
(* ProtocolNegotiator.                                                     *)
NegotiatedVer(lo, hi, opposing) ==
  IF opposing <= 0 THEN S_VER_UNSUPPORTED
  ELSE IF hi <= opposing THEN hi
  ELSE IF opposing >= lo THEN hi
  ELSE S_VER_UNSUPPORTED

(* Mutants of NegotiationErr.                                              *)
NegotiationErrNeverTooOld(lo, hi, opposing) ==
  IF opposing <= 0 THEN OpposingVerInvalid ELSE NoError
NegotiationErrOffByOne(lo, hi, opposing) ==
  CASE opposing <= 0 -> OpposingVerInvalid
    [] opposing > 0 /\ opposing <= lo -> OpposingVerTooOld
    [] OTHER -> NoError

NegotiationErr(lo, hi, opposing) ==
  CASE opposing <= 0 -> OpposingVerInvalid
    [] opposing > 0 /\ opposing < lo -> OpposingVerTooOld
    [] OTHER -> NoError
=============================================================================
