----------------------------- MODULE StreamWire -----------------------------
(***************************************************************************)
(* What the two directions of sync_io::Native_socket_stream::Impl share:   *)
(* the low-level payload encoding and one direction of the Unix domain     *)
(* socket connection, from the sending endpoint to the receiving one.      *)
(*                                                                         *)
(* A byte is a member of 0..Base-1 (Base is 256 in the code).  The length  *)
(* field of payload 1 has two bytes as in the code, so the all-ones ping   *)
(* sentinel is Base^2 - 1 and the largest meta-blob is one byte shorter.   *)
(***************************************************************************)
EXTENDS Integers, Sequences

CONSTANTS
  Base,       \* number of values of a byte
  Handle,     \* native handles a user may send
  NoHandle,   \* the null Native_handle
  KernelCap   \* bytes the kernel buffers in this direction

ASSUME BaseAssumption == Base \in Nat /\ Base >= 2
ASSUME HandleAssumption == NoHandle \notin Handle
ASSUME KernelCapAssumption == KernelCap \in Nat \ {0}

VARIABLES
  wire,     \* bytes in the kernel, sent and not yet received
  sndOpen,  \* the sending endpoint's FD is not closed
  rcvOpen   \* the receiving endpoint's FD is not closed

wireVars == <<wire, sndOpen, rcvOpen>>

Byte == 0 .. Base - 1
HandleOrNull == Handle \cup {NoHandle}
Blob == Seq(Byte)

(* Message: what a user passes to send_native_handle() or send_blob().     *)
(* Payload: what is written as one unit, with at most one handle riding on *)
(* its first byte.  Both are a handle and a blob.                          *)
Payload == [h : HandleOrNull, b : Blob]
Unit == [v : Byte, h : HandleOrNull]

S_META_BLOB_LENGTH_PING_SENTINEL == Base * Base - 1
S_MAX_META_BLOB_LENGTH == S_META_BLOB_LENGTH_PING_SENTINEL - 1
SizeofMetaLength == 2

(* low_lvl_payload_blob_length_t in memory, and read back.                 *)
MetaLengthBytes(n) == <<n % Base, n \div Base>>
MetaLength(bytes) == bytes[1] + Base * bytes[2]

HeadPayload(h, n) == [h |-> h, b |-> MetaLengthBytes(n)]

(* The first n bytes of a payload as they travel: the handle goes with     *)
(* byte 1.                                                                 *)
UnitsOf(p, n) == [i \in 1 .. n |-> [v |-> p.b[i], h |-> IF i = 1 THEN p.h ELSE NoHandle]]

BytesOf(units) == [i \in 1 .. Len(units) |-> units[i].v]

Lesser(a, b) == IF a <= b THEN a ELSE b

(* How much of p a non-blocking write may take: nothing only if the buffer *)
(* is full, otherwise any non-empty prefix that fits.                      *)
WriteSizes(p) ==
  LET room == KernelCap - Len(wire)
  IN IF room <= 0 THEN {0} ELSE 1 .. Lesser(room, Len(p.b))

(* How much a non-blocking read of at most `want` bytes may return.        *)
ReadSizes(want) == 1 .. Lesser(want, Len(wire))

WireInit == wire = <<>> /\ sndOpen = TRUE /\ rcvOpen = TRUE

WireTypeOK ==
  /\ wire \in Seq(Unit)
  /\ Len(wire) <= KernelCap
  /\ sndOpen \in BOOLEAN
  /\ rcvOpen \in BOOLEAN

(* The owner of an endpoint destroys it, or its process ends: the kernel   *)
(* keeps what it wrote for the other side to read.  An endpoint that goes  *)
(* takes with it what it did not read.                                     *)
SndEndpointCloses ==
  /\ sndOpen
  /\ sndOpen' = FALSE
  /\ UNCHANGED <<wire, rcvOpen>>

RcvEndpointCloses ==
  /\ rcvOpen
  /\ rcvOpen' = FALSE
  /\ wire' = <<>>
  /\ UNCHANGED sndOpen
=============================================================================
