------------------------ MODULE SocketStreamPipe_proofs ------------------------
(***************************************************************************)
(* One direction of a connection between two objects of this code: what is *)
(* on the line between what is sent and what is received, and from it the  *)
(* absence of spurious errors and the refinement of MessagePipe.           *)
(*                                                                         *)
(* The payloads not yet consumed, each cut by the kernel wherever it likes *)
(* and some of them still held by the sender, are one sequence laid out    *)
(* end to end (Carried).  Of each the history says which message it is a   *)
(* part of (Told); SenderEnd and ReaderEnd tie the last and the first of   *)
(* them to the state of the two objects.  Everything else follows from how *)
(* this line changes at its ends.                                          *)
(***************************************************************************)
EXTENDS SocketStreamPipe, SocketStreamEnds_proofs

(* The i-th unit of payload p as it travels.                               *)
UnitAt(p, i) == [v |-> p.b[i], h |-> IF i = 1 THEN p.h ELSE NoHandle]

(* Where the payloads of the line begin, counted from what is written and  *)
(* not read, wl bytes: of n payloads of these sizes c bytes are read; the  *)
(* first m are written, and so are `off` bytes of the next, the first of   *)
(* hl that are not.                                                        *)
Placed(size, n, start, m, off, hl, wl, c) ==
  /\ n \in Nat /\ m \in Nat /\ off \in Nat /\ hl \in Nat /\ wl \in Nat /\ c \in Nat
  /\ n = m + hl
  /\ size \in [1 .. n -> Nat \ {0}] /\ start \in [1 .. n + 1 -> Int]
  /\ start[1] = -c
  /\ \A j \in 1 .. n : start[j + 1] = start[j] + size[j]
  /\ \A i, j \in 1 .. n + 1 : i < j => start[i] + size[i] <= start[j]
  /\ wl = start[m + 1] + off
  /\ IF hl = 0 THEN off = 0 ELSE off < size[m + 1]

(* What becomes of sizes and places when a payload of size x is added, k   *)
(* bytes are read, the first payload is done with, the last is dropped.    *)
Added(size2, start2, size, start, n, x) ==
  /\ x \in Nat \ {0} /\ size2 \in [1 .. n + 1 -> Nat \ {0}] /\ start2 \in [1 .. n + 2 -> Int]
  /\ \A j \in 1 .. n : size2[j] = size[j]
  /\ \A j \in 1 .. n + 1 : start2[j] = start[j]
  /\ size2[n + 1] = x /\ start2[n + 2] = start[n + 1] + x

Shifted(start2, start, n, k) ==
  start2 \in [1 .. n + 1 -> Int] /\ \A j \in 1 .. n + 1 : start2[j] = start[j] - k

Popped(size2, start2, size, start, n) ==
  /\ size2 \in [1 .. n - 1 -> Nat \ {0}] /\ start2 \in [1 .. n -> Int]
  /\ \A j \in 1 .. n - 1 : size2[j] = size[j + 1]
  /\ \A j \in 1 .. n : start2[j] = start[j + 1]

Cut(size2, start2, size, start, n) ==
  /\ size2 \in [1 .. n - 1 -> Nat \ {0}] /\ start2 \in [1 .. n -> Int]
  /\ \A j \in 1 .. n - 1 : size2[j] = size[j]
  /\ \A j \in 1 .. n : start2[j] = start[j]

Sizes(ps) == [j \in 1 .. Len(ps) |-> Len(ps[j].b)]

(* The payloads ps lie so in the wire w and in what is held.               *)
Laid(ps, start, m, off, w, held, c) ==
  /\ Placed(Sizes(ps), Len(ps), start, m, off, Len(held), Len(w), c)
  /\ \A j \in 1 .. Len(ps) : \A i \in 1 .. Len(ps[j].b) :
       start[j] + i \in 1 .. Len(w) => w[start[j] + i] = UnitAt(ps[j], i)
  /\ \A j \in 1 .. Len(held) :
       held[j] = IF j = 1 THEN Remainder(ps[m + 1], off) ELSE ps[m + j]

-----------------------------------------------------------------------------
(* What is left of a sequence whose first elements are taken.              *)
LEMMA CutSeq ==
  ASSUME NEW S, NEW s \in Seq(S), NEW a \in 0 .. Len(s)
  PROVE  /\ SubSeq(s, a + 1, Len(s)) \in Seq(S)
         /\ Len(SubSeq(s, a + 1, Len(s))) = Len(s) - a
         /\ \A i \in 1 .. Len(s) - a : SubSeq(s, a + 1, Len(s))[i] = s[a + i]
         /\ \A n \in 0 .. Len(s) - a :
              SubSeq(SubSeq(s, a + 1, Len(s)), n + 1, Len(s) - a) = SubSeq(s, a + n + 1, Len(s))
<1> DEFINE N == Len(s)
           t == SubSeq(s, a + 1, N)
<1>1. N \in Nat /\ a \in Nat /\ a <= N
  OBVIOUS
<1> HIDE DEF N
<1>2. ASSUME NEW b \in 0 .. N
      PROVE  /\ SubSeq(s, b + 1, N) \in Seq(S)
             /\ Len(SubSeq(s, b + 1, N)) = N - b
             /\ \A i \in 1 .. N - b : SubSeq(s, b + 1, N)[i] = s[b + i]
  <2>1. \A i \in b + 1 .. N : s[i] \in S
    BY <1>1 DEF N
  <2>2. b + 1 \in Int /\ N \in Int
    BY <1>1
  <2>3. /\ SubSeq(s, b + 1, N) \in Seq(S)
        /\ Len(SubSeq(s, b + 1, N)) = IF b + 1 <= N THEN N - (b + 1) + 1 ELSE 0
        /\ \A i \in 1 .. N - (b + 1) + 1 : SubSeq(s, b + 1, N)[i] = s[b + 1 + i - 1]
    BY <2>1, <2>2, SubSeqProperties
  <2>4. N - (b + 1) + 1 = N - b /\ (~(b + 1 <= N) => N - b = 0)
        /\ \A i \in 1 .. N - b : b + 1 + i - 1 = b + i
    BY <1>1
  <2> QED
    BY <2>3, <2>4
<1>3. t \in Seq(S) /\ Len(t) = N - a /\ \A i \in 1 .. N - a : t[i] = s[a + i]
  BY <1>1, <1>2
<1> HIDE DEF t
<1>4. ASSUME NEW n \in 0 .. N - a
      PROVE  SubSeq(t, n + 1, N - a) = SubSeq(s, a + n + 1, N)
  <2> DEFINE u == SubSeq(t, n + 1, N - a)
             v == SubSeq(s, a + n + 1, N)
  <2>1. a + n \in 0 .. N /\ N - a - n \in Nat /\ N - (a + n) = N - a - n /\ n \in Nat
    BY <1>1
  <2>2. v \in Seq(S) /\ Len(v) = N - a - n /\ \A i \in 1 .. N - a - n : v[i] = s[a + n + i]
    BY <1>2, <2>1
  <2>3. \A i \in n + 1 .. N - a : t[i] \in S
    BY <1>3, <2>1
  <2>4. n + 1 \in Int /\ N - a \in Int
    BY <1>1
  <2>5. /\ u \in Seq(S)
        /\ Len(u) = IF n + 1 <= N - a THEN N - a - (n + 1) + 1 ELSE 0
        /\ \A i \in 1 .. N - a - (n + 1) + 1 : u[i] = t[n + 1 + i - 1]
    BY <2>3, <2>4, SubSeqProperties
  <2> HIDE DEF u, v
  <2>6. Len(u) = N - a - n
    BY <1>1, <2>1, <2>5
  <2>7. ASSUME NEW i \in 1 .. N - a - n PROVE u[i] = v[i]
    <3>1. i \in 1 .. N - a - (n + 1) + 1 /\ n + 1 + i - 1 = n + i /\ n + i \in 1 .. N - a
          /\ a + (n + i) = a + n + i
      BY <1>1, <2>1
    <3>2. u[i] = t[n + i]
      BY <2>5, <3>1
    <3>3. t[n + i] = s[a + (n + i)]
      BY <1>3, <3>1
    <3>4. v[i] = s[a + n + i]
      BY <2>2
    <3> QED
      BY <3>1, <3>2, <3>3, <3>4
  <2>8. u = v
    BY <2>2, <2>5, <2>6, <2>7, SeqEqual
  <2> QED
    BY <2>8 DEF u, v
<1> QED
  BY <1>3, <1>4 DEF t, N

(* What remains of a payload.                                              *)
LEMMA RemainderOf ==
  ASSUME NEW p \in Payload, NEW o \in 0 .. Len(p.b), NEW r, r = Remainder(p, o)
  PROVE  /\ r \in Payload /\ Len(r.b) = Len(p.b) - o
         /\ \A i \in 1 .. Len(r.b) : UnitAt(r, i) = UnitAt(p, o + i)
         /\ \A n \in 0 .. Len(r.b) : Remainder(r, n) = Remainder(p, o + n)
<1>1. p.b \in Seq(Byte) /\ p.h \in HandleOrNull /\ Len(p.b) \in Nat /\ NoHandle \in HandleOrNull
  BY DEF Payload, Blob, HandleOrNull
<1>2. r.b = SubSeq(p.b, o + 1, Len(p.b)) /\ r.h = (IF o = 0 THEN p.h ELSE NoHandle)
      /\ r = [h |-> r.h, b |-> r.b]
  BY DEF Remainder
<1>3. /\ r.b \in Seq(Byte) /\ Len(r.b) = Len(p.b) - o
      /\ \A i \in 1 .. Len(p.b) - o : r.b[i] = p.b[o + i]
      /\ \A n \in 0 .. Len(p.b) - o :
           SubSeq(r.b, n + 1, Len(p.b) - o) = SubSeq(p.b, o + n + 1, Len(p.b))
  BY <1>1, <1>2, CutSeq
<1>4. r \in Payload
  BY <1>1, <1>2, <1>3 DEF Payload, Blob
<1>5. ASSUME NEW i \in 1 .. Len(r.b) PROVE UnitAt(r, i) = UnitAt(p, o + i)
  <2>1. i \in Nat /\ i >= 1 /\ o \in Nat /\ i \in 1 .. Len(p.b) - o
    BY <1>1, <1>3
  <2>2. r.b[i] = p.b[o + i]
    BY <1>3, <2>1
  <2>3. o = 0 => o + i = i
    BY <2>1
  <2>4. o # 0 => o + i # 1
    BY <2>1
  <2> QED
    BY <1>2, <2>2, <2>3, <2>4 DEF UnitAt
<1>6. ASSUME NEW n \in 0 .. Len(r.b) PROVE Remainder(r, n) = Remainder(p, o + n)
  <2>1. SubSeq(r.b, n + 1, Len(r.b)) = SubSeq(p.b, o + n + 1, Len(p.b))
    BY <1>3
  <2>2. (n = 0 /\ o = 0) <=> (o + n = 0)
    BY <1>1, <1>3
  <2> QED
    BY <1>2, <2>1, <2>2 DEF Remainder
<1> QED
  BY <1>3, <1>4, <1>5, <1>6

(* The handle that a payload loses with its first byte; the rest if whole. *)
LEMMA RemainderWhole ==
  ASSUME NEW p \in Payload PROVE Remainder(p, 0) = p
<1>1. p.b \in Seq(Byte) /\ p = [h |-> p.h, b |-> p.b] /\ Len(p.b) \in Nat
  BY DEF Payload, Blob
<1>2. SubSeq(p.b, 0 + 1, Len(p.b)) = p.b
  <2> DEFINE t == SubSeq(p.b, 0 + 1, Len(p.b))
  <2>1. t \in Seq(Byte) /\ Len(t) = Len(p.b) - 0 /\ \A i \in 1 .. Len(p.b) - 0 : t[i] = p.b[0 + i]
    BY <1>1, CutSeq
  <2> HIDE DEF t
  <2>2. Len(t) = Len(p.b) /\ \A i \in 1 .. Len(p.b) : t[i] = p.b[i]
    BY <1>1, <2>1
  <2>3. t = p.b
    BY <1>1, <2>1, <2>2, SeqEqual
  <2> QED
    BY <2>3 DEF t
<1> QED
  BY <1>1, <1>2 DEF Remainder

-----------------------------------------------------------------------------
(* Placing.                                                                *)

(* A payload is added at the end: it ends what is held back.               *)
LEMMA PlacedAppend ==
  ASSUME NEW size, NEW n, NEW start, NEW m, NEW off, NEW hl, NEW wl, NEW c,
         Placed(size, n, start, m, off, hl, wl, c),
         NEW size2, NEW start2, NEW x, Added(size2, start2, size, start, n, x)
  PROVE  Placed(size2, n + 1, start2, m, off, hl + 1, wl, c) /\ wl <= start[n + 1]
<1>0. /\ x \in Nat \ {0} /\ size2 \in [1 .. n + 1 -> Nat \ {0}] /\ start2 \in [1 .. n + 2 -> Int]
      /\ \A j \in 1 .. n : size2[j] = size[j]
      /\ \A j \in 1 .. n + 1 : start2[j] = start[j]
      /\ size2[n + 1] = x /\ start2[n + 2] = start[n + 1] + x
  BY DEF Added
<1>1. /\ n \in Nat /\ m \in Nat /\ off \in Nat /\ hl \in Nat /\ wl \in Nat /\ c \in Nat
      /\ n = m + hl
      /\ start[1] = -c
      /\ wl = start[m + 1] + off
  BY DEF Placed
<1>2. /\ size \in [1 .. n -> Nat \ {0}] /\ start \in [1 .. n + 1 -> Int]
      /\ \A j \in 1 .. n : start[j + 1] = start[j] + size[j]
      /\ \A i, j \in 1 .. n + 1 : i < j => start[i] + size[i] <= start[j]
      /\ IF hl = 0 THEN off = 0 ELSE off < size[m + 1]
  BY DEF Placed
<1>3. start[n + 1] \in Int /\ start2 \in [1 .. n + 2 -> Int] /\ start2[n + 2] = start[n + 1] + x
  <2>1. n + 1 \in 1 .. n + 1
    BY <1>1
  <2> QED
    BY <1>0, <1>2, <2>1
<1>4. \A j \in 1 .. n + 1 : start2[j] = start[j]
  BY <1>0
<1>5. wl <= start[n + 1]
  <2>1. CASE hl = 0
    BY <1>1, <1>2, <2>1
  <2>2. CASE hl # 0
    <3>1. m + 1 \in 1 .. n + 1 /\ n + 1 \in 1 .. n + 1 /\ m + 1 < n + 1 /\ m + 1 \in 1 .. n
      BY <1>1, <2>2
    <3>2. start[m + 1] + size[m + 1] <= start[n + 1] /\ off < size[m + 1]
      BY <1>2, <2>2, <3>1
    <3>3. start[m + 1] \in Int
      BY <1>2, <3>1
    <3>4. size[m + 1] \in Nat
      BY <1>2, <3>1
    <3>5. off \in Nat /\ wl = start[m + 1] + off /\ start[n + 1] \in Int
      BY <1>1, <1>3
    <3> QED
      BY <3>2, <3>3, <3>4, <3>5
  <2> QED
    BY <2>1, <2>2
<1>6. ASSUME NEW j \in 1 .. n + 1 PROVE start2[j + 1] = start2[j] + size2[j]
  <2>1. CASE j = n + 1
    <3>1. j + 1 = n + 2 /\ n + 1 \in 1 .. n + 1
      BY <1>1, <2>1
    <3> QED
      BY <1>0, <2>1, <3>1
  <2>2. CASE j # n + 1
    <3>1. j \in 1 .. n /\ j + 1 \in 1 .. n + 1
      BY <1>0, <1>1, <2>2
    <3> QED
      BY <1>0, <1>2, <1>4, <3>1
  <2> QED
    BY <2>1, <2>2
<1>7. ASSUME NEW i \in 1 .. n + 2, NEW j \in 1 .. n + 2, i < j
      PROVE  start2[i] + size2[i] <= start2[j]
  <2>1. i \in 1 .. n + 1
    BY <1>0, <1>1, <1>7
  <2>2. CASE i = n + 1
    <3>1. j = n + 2
      BY <1>0, <1>1, <1>7, <2>2
    <3>2. start2[i] + size2[i] = start2[j]
      BY <1>0, <1>3, <1>4, <2>1, <2>2, <3>1
    <3> QED
      BY <1>0, <1>3, <3>2
  <2>3. CASE i # n + 1
    <3>1. i \in 1 .. n /\ n + 1 \in 1 .. n + 1 /\ i < n + 1
      BY <1>0, <1>1, <2>1, <2>3
    <3>2. start[i] \in Int /\ size[i] \in Nat /\ start2[i] = start[i] /\ size2[i] = size[i]
          /\ start[i] + size[i] <= start[n + 1]
      BY <1>0, <1>2, <1>4, <2>1, <3>1
    <3>3. CASE j = n + 2
      BY <1>0, <1>3, <3>2, <3>3
    <3>4. CASE j # n + 2
      <4>1. j \in 1 .. n + 1
        BY <1>0, <1>1, <3>4
      <4> QED
        BY <1>0, <1>2, <1>4, <1>7, <2>1, <3>2, <4>1
    <3> QED
      BY <3>3, <3>4
  <2> QED
    BY <2>2, <2>3
<1>8. wl = start2[m + 1] + off
  <2>1. m + 1 \in 1 .. n + 1
    BY <1>0, <1>1
  <2> QED
    BY <1>0, <1>1, <1>4, <2>1
<1>9. hl + 1 # 0 /\ off < size2[m + 1]
  <2>1. CASE hl = 0
    BY <1>0, <1>1, <1>2, <2>1
  <2>2. CASE hl # 0
    <3>1. m + 1 \in 1 .. n
      BY <1>0, <1>1, <2>2
    <3> QED
      BY <1>0, <1>1, <1>2, <2>2, <3>1
  <2> QED
    BY <2>1, <2>2
<1>10. n + 1 \in Nat /\ hl + 1 \in Nat /\ n + 1 = m + (hl + 1) /\ n + 1 + 1 = n + 2 /\ start2[1] = -c
  BY <1>0, <1>1, <1>4
<1> QED
  BY <1>0, <1>1, <1>3, <1>4, <1>5, <1>6, <1>7, <1>8, <1>9, <1>10 DEF Placed

(* More of the first payload held is written, in part or to its end.       *)
LEMMA PlacedWrite ==
  ASSUME NEW size, NEW n, NEW start, NEW m, NEW off, NEW hl, NEW wl, NEW c,
         Placed(size, n, start, m, off, hl, wl, c), hl # 0,
         NEW k \in 0 .. size[m + 1] - off
  PROVE  IF k = size[m + 1] - off
           THEN Placed(size, n, start, m + 1, 0, hl - 1, wl + k, c)
           ELSE Placed(size, n, start, m, off + k, hl, wl + k, c)
<1>1. /\ n \in Nat /\ m \in Nat /\ off \in Nat /\ hl \in Nat /\ wl \in Nat /\ c \in Nat
      /\ n = m + hl /\ wl = start[m + 1] + off
  BY DEF Placed
<1>2. /\ size \in [1 .. n -> Nat \ {0}] /\ start \in [1 .. n + 1 -> Int]
      /\ \A j \in 1 .. n : start[j + 1] = start[j] + size[j]
      /\ off < size[m + 1]
  BY DEF Placed
<1>3. m + 1 \in 1 .. n /\ m + 1 \in 1 .. n + 1 /\ m + 1 + 1 \in 1 .. n + 1
  BY <1>1
<1>4. start[m + 1] \in Int /\ size[m + 1] \in Nat /\ start[m + 1 + 1] = start[m + 1] + size[m + 1]
  BY <1>2, <1>3
<1>5. k \in Nat
  BY <1>1, <1>4
<1>6. CASE k = size[m + 1] - off
  <2>1. m + 1 \in Nat /\ 0 \in Nat /\ hl - 1 \in Nat /\ wl + k \in Nat /\ n = m + 1 + (hl - 1)
    BY <1>1, <1>5
  <2>2. wl + k = start[m + 1 + 1] + 0
    BY <1>1, <1>4, <1>5, <1>6
  <2>3. hl - 1 # 0 => 0 < size[m + 1 + 1]
    <3> SUFFICES ASSUME hl - 1 # 0 PROVE 0 < size[m + 1 + 1]
      OBVIOUS
    <3>1. m + 1 + 1 \in 1 .. n
      BY <1>1
    <3> QED
      BY <1>2, <3>1
  <2> QED
    BY <1>1, <1>6, <2>1, <2>2, <2>3 DEF Placed
<1>7. CASE k # size[m + 1] - off
  <2>1. off + k \in Nat /\ off + k < size[m + 1] /\ wl + k \in Nat
    BY <1>1, <1>4, <1>5, <1>7
  <2>2. wl + k = start[m + 1] + (off + k)
    BY <1>1, <1>4, <1>5
  <2> QED
    BY <1>7, <2>1, <2>2 DEF Placed
<1> QED
  BY <1>6, <1>7

(* Bytes are read: every payload moves nearer.                             *)
LEMMA PlacedRead ==
  ASSUME NEW size, NEW n, NEW start, NEW m, NEW off, NEW hl, NEW wl, NEW c,
         Placed(size, n, start, m, off, hl, wl, c),
         NEW k \in 0 .. wl,
         NEW start2, Shifted(start2, start, n, k)
  PROVE  Placed(size, n, start2, m, off, hl, wl - k, c + k)
<1>1. /\ n \in Nat /\ m \in Nat /\ off \in Nat /\ hl \in Nat /\ wl \in Nat /\ c \in Nat
      /\ n = m + hl /\ start[1] = -c /\ wl = start[m + 1] + off
  BY DEF Placed
<1>2. /\ size \in [1 .. n -> Nat \ {0}] /\ start \in [1 .. n + 1 -> Int]
      /\ \A j \in 1 .. n : start[j + 1] = start[j] + size[j]
      /\ \A i, j \in 1 .. n + 1 : i < j => start[i] + size[i] <= start[j]
      /\ IF hl = 0 THEN off = 0 ELSE off < size[m + 1]
  BY DEF Placed
<1>3. k \in Nat /\ wl - k \in Nat /\ c + k \in Nat
  BY <1>1
<1>4. \A j \in 1 .. n + 1 : start[j] \in Int /\ start2[j] = start[j] - k
  BY <1>2 DEF Shifted
<1>5. start2 \in [1 .. n + 1 -> Int]
  BY DEF Shifted
<1>6. start2[1] = -(c + k) /\ wl - k = start2[m + 1] + off
  <2>1. 1 \in 1 .. n + 1 /\ m + 1 \in 1 .. n + 1
    BY <1>1
  <2>2. start2[1] = start[1] - k /\ start2[m + 1] = start[m + 1] - k /\ start[m + 1] \in Int
    BY <1>4, <2>1
  <2>3. start2[1] = -c - k /\ -c - k = -(c + k)
    BY <1>1, <1>3, <2>2
  <2>4. wl - k = start[m + 1] - k + off
    <3>1. wl = start[m + 1] + off /\ off \in Int /\ start[m + 1] \in Int /\ k \in Int
      BY <1>1, <1>3, <2>2
    <3> QED
      BY <3>1
  <2> QED
    BY <2>2, <2>3, <2>4
<1>7. ASSUME NEW j \in 1 .. n PROVE start2[j + 1] = start2[j] + size[j]
  <2>1. j \in 1 .. n + 1 /\ j + 1 \in 1 .. n + 1
    BY <1>1
  <2>2. size[j] \in Nat /\ start[j + 1] = start[j] + size[j]
    BY <1>2
  <2>3. start[j] \in Int /\ start2[j] = start[j] - k /\ start2[j + 1] = start[j + 1] - k
    BY <1>4, <2>1
  <2> QED
    BY <1>3, <2>2, <2>3
<1>8. ASSUME NEW i \in 1 .. n + 1, NEW j \in 1 .. n + 1, i < j
      PROVE  start2[i] + size[i] <= start2[j]
  <2>1. i \in 1 .. n
    BY <1>1, <1>8
  <2>2. size[i] \in Nat /\ start[i] + size[i] <= start[j]
    BY <1>2, <1>8, <2>1
  <2>3. start[i] \in Int /\ start2[i] = start[i] - k /\ start[j] \in Int /\ start2[j] = start[j] - k
    BY <1>4
  <2> QED
    BY <1>3, <2>2, <2>3
<1> QED
  BY <1>1, <1>2, <1>3, <1>5, <1>6, <1>7, <1>8 DEF Placed

(* The first payload, all read, is done with.                              *)
LEMMA PlacedPop ==
  ASSUME NEW size, NEW n, NEW start, NEW m, NEW off, NEW hl, NEW wl, NEW c,
         Placed(size, n, start, m, off, hl, wl, c), n > 0, c = size[1],
         NEW size2, NEW start2, Popped(size2, start2, size, start, n)
  PROVE  Placed(size2, n - 1, start2, m - 1, off, hl, wl, 0) /\ m >= 1
<1>0. /\ size2 \in [1 .. n - 1 -> Nat \ {0}] /\ start2 \in [1 .. n -> Int]
      /\ \A j \in 1 .. n - 1 : size2[j] = size[j + 1]
      /\ \A j \in 1 .. n : start2[j] = start[j + 1]
  BY DEF Popped
<1>1. /\ n \in Nat /\ m \in Nat /\ off \in Nat /\ hl \in Nat /\ wl \in Nat /\ c \in Nat
      /\ n = m + hl /\ start[1] = -c /\ wl = start[m + 1] + off
  BY DEF Placed
<1>2. /\ size \in [1 .. n -> Nat \ {0}] /\ start \in [1 .. n + 1 -> Int]
      /\ \A j \in 1 .. n : start[j + 1] = start[j] + size[j]
      /\ \A i, j \in 1 .. n + 1 : i < j => start[i] + size[i] <= start[j]
      /\ IF hl = 0 THEN off = 0 ELSE off < size[m + 1]
  BY DEF Placed
<1>3. m >= 1
  <2> SUFFICES ASSUME m = 0 PROVE FALSE
    BY <1>1
  <2>1. hl # 0 /\ m + 1 = 1
    BY <1>1
  <2>2. off < c /\ wl = -c + off
    BY <1>1, <1>2, <2>1
  <2> QED
    BY <1>1, <2>2
<1>4. \A j \in 1 .. n : j + 1 \in 1 .. n + 1 /\ start2[j] = start[j + 1] /\ start[j + 1] \in Int
  <2>1. \A j \in 1 .. n : j + 1 \in 1 .. n + 1
    BY <1>1
  <2> QED
    BY <1>0, <1>2, <2>1
<1>5. start2 \in [1 .. n -> Int] /\ n - 1 + 1 = n /\ n - 1 \in Nat /\ m - 1 \in Nat
      /\ n - 1 = m - 1 + hl /\ 0 \in Nat
  BY <1>0, <1>1, <1>3
<1>6. start2[1] = -0
  <2>1. 1 \in 1 .. n /\ 1 + 1 \in 1 .. n + 1
    BY <1>1
  <2>2. start2[1] = start[1] + c
    BY <1>0, <1>2, <1>4, <2>1
  <2> QED
    BY <1>1, <2>2
<1>7. wl = start2[m - 1 + 1] + off
  <2>1. m \in 1 .. n /\ m - 1 + 1 = m
    BY <1>1, <1>3
  <2> QED
    BY <1>1, <1>4, <2>1
<1>8. ASSUME NEW j \in 1 .. n - 1 PROVE start2[j + 1] = start2[j] + size2[j]
  <2>1. j \in 1 .. n /\ j + 1 \in 1 .. n
    BY <1>1
  <2> QED
    BY <1>0, <1>2, <1>4, <2>1
<1>9. ASSUME NEW i \in 1 .. n, NEW j \in 1 .. n, i < j PROVE start2[i] + size2[i] <= start2[j]
  <2>1. i \in 1 .. n - 1 /\ i + 1 \in 1 .. n + 1 /\ j + 1 \in 1 .. n + 1 /\ i + 1 < j + 1
    BY <1>1, <1>9
  <2>2. start[i + 1] + size[i + 1] <= start[j + 1]
    BY <1>2, <2>1
  <2> QED
    BY <1>0, <1>4, <2>1, <2>2
<1>10. IF hl = 0 THEN off = 0 ELSE off < size2[m - 1 + 1]
  <2>1. CASE hl = 0
    BY <1>2, <2>1
  <2>2. CASE hl # 0
    <3>1. m \in 1 .. n - 1 /\ m - 1 + 1 = m
      BY <1>1, <1>3, <2>2
    <3> QED
      BY <1>0, <1>2, <2>2, <3>1
  <2> QED
    BY <2>1, <2>2
<1> QED
  BY <1>0, <1>1, <1>3, <1>5, <1>6, <1>7, <1>8, <1>9, <1>10 DEF Placed

(* The last payload, no byte of it written, is dropped.                    *)
LEMMA PlacedDrop ==
  ASSUME NEW size, NEW n, NEW start, NEW m, NEW off, NEW hl, NEW wl, NEW c,
         Placed(size, n, start, m, off, hl, wl, c), hl > 0, hl = 1 => off = 0,
         NEW size2, NEW start2, Cut(size2, start2, size, start, n)
  PROVE  Placed(size2, n - 1, start2, m, off, hl - 1, wl, c)
<1>0. /\ size2 \in [1 .. n - 1 -> Nat \ {0}] /\ start2 \in [1 .. n -> Int]
      /\ \A j \in 1 .. n - 1 : size2[j] = size[j]
      /\ \A j \in 1 .. n : start2[j] = start[j]
  BY DEF Cut
<1>1. /\ n \in Nat /\ m \in Nat /\ off \in Nat /\ hl \in Nat /\ wl \in Nat /\ c \in Nat
      /\ n = m + hl /\ start[1] = -c /\ wl = start[m + 1] + off
  BY DEF Placed
<1>2. /\ size \in [1 .. n -> Nat \ {0}] /\ start \in [1 .. n + 1 -> Int]
      /\ \A j \in 1 .. n : start[j + 1] = start[j] + size[j]
      /\ \A i, j \in 1 .. n + 1 : i < j => start[i] + size[i] <= start[j]
      /\ IF hl = 0 THEN off = 0 ELSE off < size[m + 1]
  BY DEF Placed
<1>3. n - 1 + 1 = n /\ n - 1 \in Nat /\ hl - 1 \in Nat /\ n - 1 = m + (hl - 1)
  BY <1>1
<1>4. \A j \in 1 .. n : j \in 1 .. n + 1 /\ start2[j] = start[j] /\ start[j] \in Int
  <2>1. \A j \in 1 .. n : j \in 1 .. n + 1
    BY <1>1
  <2> QED
    BY <1>0, <1>2, <2>1
<1>5. start2 \in [1 .. n -> Int]
  BY <1>0
<1>6. start2[1] = -c /\ wl = start2[m + 1] + off
  <2>1. 1 \in 1 .. n /\ m + 1 \in 1 .. n
    BY <1>1
  <2> QED
    BY <1>1, <1>4, <2>1
<1>7. ASSUME NEW j \in 1 .. n - 1 PROVE start2[j + 1] = start2[j] + size2[j]
  <2>1. j \in 1 .. n /\ j + 1 \in 1 .. n
    BY <1>1
  <2> QED
    BY <1>0, <1>2, <1>4, <2>1
<1>8. ASSUME NEW i \in 1 .. n, NEW j \in 1 .. n, i < j PROVE start2[i] + size2[i] <= start2[j]
  <2>1. i \in 1 .. n - 1 /\ i \in 1 .. n + 1 /\ j \in 1 .. n + 1
    BY <1>1, <1>8
  <2>2. start[i] + size[i] <= start[j]
    BY <1>2, <1>8, <2>1
  <2> QED
    BY <1>0, <1>4, <2>1, <2>2
<1>9. IF hl - 1 = 0 THEN off = 0 ELSE off < size2[m + 1]
  <2>1. CASE hl = 1
    BY <2>1
  <2>2. CASE hl # 1
    <3>1. m + 1 \in 1 .. n - 1
      BY <1>1, <2>2
    <3> QED
      BY <1>0, <1>1, <1>2, <2>2, <3>1
  <2> QED
    BY <2>1, <2>2
<1> QED
  BY <1>0, <1>1, <1>3, <1>5, <1>6, <1>7, <1>8, <1>9 DEF Placed

(* What is written next lies in the first payload that is held.            *)
LEMMA PlacedNext ==
  ASSUME NEW size, NEW n, NEW start, NEW m, NEW off, NEW hl, NEW wl, NEW c,
         Placed(size, n, start, m, off, hl, wl, c), hl # 0,
         NEW k \in 0 .. size[m + 1] - off,
         NEW j \in 1 .. n, NEW i \in 1 .. size[j], start[j] + i \in wl + 1 .. wl + k
  PROVE  j = m + 1 /\ i - off \in 1 .. k /\ start[j] + i = wl + (i - off)
<1>1. /\ n \in Nat /\ m \in Nat /\ off \in Nat /\ wl \in Nat
      /\ n = m + hl /\ wl = start[m + 1] + off /\ hl \in Nat
  BY DEF Placed
<1>2. /\ size \in [1 .. n -> Nat \ {0}] /\ start \in [1 .. n + 1 -> Int]
      /\ \A a, b \in 1 .. n + 1 : a < b => start[a] + size[a] <= start[b]
  BY DEF Placed
<1>3. m + 1 \in 1 .. n /\ m + 1 \in 1 .. n + 1 /\ j \in 1 .. n + 1 /\ m + 1 \in Int /\ j \in Int
  BY <1>1
<1>4. start[m + 1] \in Int /\ start[j] \in Int
  BY <1>2, <1>3
<1>5. size[m + 1] \in Nat
  BY <1>2, <1>3
<1>6. size[j] \in Nat
  BY <1>2
<1>7. ~(j < m + 1)
  <2> SUFFICES ASSUME j < m + 1 PROVE FALSE
    OBVIOUS
  <2>1. start[j] + size[j] <= start[m + 1]
    BY <1>2, <1>3
  <2>2. i \in Int /\ i <= size[j] /\ start[j] + i >= wl + 1
    BY <1>1, <1>4, <1>6
  <2> QED
    BY <1>1, <1>4, <1>6, <2>1, <2>2
<1>8. ~(m + 1 < j)
  <2> SUFFICES ASSUME m + 1 < j PROVE FALSE
    OBVIOUS
  <2>1. start[m + 1] + size[m + 1] <= start[j]
    BY <1>2, <1>3
  <2>2. i \in Int /\ i >= 1 /\ start[j] + i <= wl + k /\ k <= size[m + 1] - off /\ k \in Int
    BY <1>1, <1>4, <1>5, <1>6
  <2> QED
    BY <1>1, <1>4, <1>5, <2>1, <2>2
<1>9. j = m + 1
  BY <1>3, <1>7, <1>8
<1>10. k \in Int /\ i \in Int
  BY <1>1, <1>5, <1>6
<1>11. start[j] + i = wl + (i - off)
  BY <1>1, <1>4, <1>9, <1>10
<1>12. wl + (i - off) >= wl + 1 /\ wl + (i - off) <= wl + k
  BY <1>1, <1>10, <1>11
<1> QED
  BY <1>1, <1>9, <1>10, <1>11, <1>12

(* What is read lies in the first payload; nothing does if there is none.  *)
LEMMA PlacedFirst ==
  ASSUME NEW size, NEW n, NEW start, NEW m, NEW off, NEW hl, NEW wl, NEW c,
         Placed(size, n, start, m, off, hl, wl, c)
  PROVE  /\ \A i \in Nat : start[1] + (c + i) = i
         /\ n = 0 => wl = 0 /\ c = 0
<1>1. /\ n \in Nat /\ m \in Nat /\ off \in Nat /\ hl \in Nat /\ wl \in Nat /\ c \in Nat
      /\ n = m + hl /\ start[1] = -c /\ wl = start[m + 1] + off
      /\ hl = 0 => off = 0
  BY DEF Placed
<1>2. \A i \in Nat : start[1] + (c + i) = i
  BY <1>1
<1>3. ASSUME n = 0 PROVE wl = 0 /\ c = 0
  <2>1. m = 0 /\ hl = 0 /\ off = 0 /\ m + 1 = 1
    BY <1>1, <1>3
  <2>2. wl = -c
    BY <1>1, <2>1
  <2> QED
    BY <1>1, <2>2
<1> QED
  BY <1>2, <1>3

-----------------------------------------------------------------------------
(* Payloads in their places.                                               *)

(* The types and lengths that Laid implies.                                *)
LEMMA LaidTypes ==
  ASSUME NEW ps \in Seq(Payload), NEW held \in Seq(Payload), NEW w \in Seq(Unit),
         NEW start, NEW m, NEW off, NEW c, Laid(ps, start, m, off, w, held, c)
  PROVE  /\ m \in Nat /\ off \in Nat /\ c \in Nat /\ Len(ps) = m + Len(held)
         /\ Len(ps) \in Nat /\ Len(held) \in Nat /\ Len(w) \in Nat
         /\ Sizes(ps) \in [1 .. Len(ps) -> Nat \ {0}]
         /\ \A j \in 1 .. Len(ps) : ps[j] \in Payload /\ Sizes(ps)[j] = Len(ps[j].b)
         /\ start \in [1 .. Len(ps) + 1 -> Int]
<1>1. /\ m \in Nat /\ off \in Nat /\ c \in Nat /\ Len(ps) = m + Len(held)
      /\ Len(ps) \in Nat /\ Len(held) \in Nat /\ Len(w) \in Nat
      /\ Sizes(ps) \in [1 .. Len(ps) -> Nat \ {0}]
      /\ start \in [1 .. Len(ps) + 1 -> Int]
  BY DEF Laid, Placed
<1>2. \A j \in 1 .. Len(ps) : ps[j] \in Payload
  BY ElementOfSeq
<1>3. \A j \in 1 .. Len(ps) : Sizes(ps)[j] = Len(ps[j].b)
  BY DEF Sizes
<1> QED
  BY <1>1, <1>2, <1>3

(* A payload is added at the end, to what is held.                         *)
LEMMA LaidAppend ==
  ASSUME NEW ps \in Seq(Payload), NEW held \in Seq(Payload), NEW w \in Seq(Unit),
         NEW start, NEW m, NEW off, NEW c, Laid(ps, start, m, off, w, held, c),
         NEW x \in Payload, x.b # <<>>
  PROVE  \E start2 : Laid(Append(ps, x), start2, m, off, w, Append(held, x), c)
<1> DEFINE n == Len(ps)
           hl == Len(held)
           wl == Len(w)
           size == Len(x.b)
           ps2 == Append(ps, x)
           held2 == Append(held, x)
           s2 == [j \in 1 .. n + 2 |-> IF j = n + 2 THEN start[n + 1] + size ELSE start[j]]
<1>1. /\ m \in Nat /\ off \in Nat /\ n = m + hl /\ n \in Nat /\ hl \in Nat /\ wl \in Nat
  BY LaidTypes
<1>2. \A j \in 1 .. n : ps[j] \in Payload /\ Sizes(ps)[j] = Len(ps[j].b)
  BY LaidTypes
<1>3. Sizes(ps) \in [1 .. n -> Nat \ {0}]
  BY LaidTypes
<1>4. size \in Nat \ {0}
  BY DEF Payload, Blob
<1>5. /\ ps2 \in Seq(Payload) /\ Len(ps2) = n + 1 /\ ps2[n + 1] = x
      /\ \A j \in 1 .. n : ps2[j] = ps[j]
  OBVIOUS
<1>6. /\ held2 \in Seq(Payload) /\ Len(held2) = hl + 1 /\ held2[hl + 1] = x
      /\ \A j \in 1 .. hl : held2[j] = held[j]
  OBVIOUS
<1>7. Placed(Sizes(ps), n, start, m, off, hl, wl, c)
  BY DEF Laid
<1>8. \A j \in 1 .. n : \A i \in 1 .. Len(ps[j].b) :
        start[j] + i \in 1 .. wl => w[start[j] + i] = UnitAt(ps[j], i)
  BY DEF Laid
<1>9. \A j \in 1 .. hl : held[j] = IF j = 1 THEN Remainder(ps[m + 1], off) ELSE ps[m + j]
  BY DEF Laid
<1>10. Remainder(x, 0) = x
  BY RemainderWhole
<1>11. /\ Sizes(ps2) \in [1 .. n + 1 -> Nat \ {0}] /\ Sizes(ps2)[n + 1] = size
       /\ \A j \in 1 .. n : Sizes(ps2)[j] = Sizes(ps)[j]
  <2> HIDE DEF n, ps2, size
  <2>1. Sizes(ps2) = [j \in 1 .. n + 1 |-> Len(ps2[j].b)]
    BY <1>5 DEF Sizes
  <2>2. n + 1 \in 1 .. n + 1 /\ \A j \in 1 .. n : j \in 1 .. n + 1
    BY <1>1
  <2>3. \A j \in 1 .. n + 1 : j = n + 1 \/ j \in 1 .. n
    BY <1>1
  <2>4. \A j \in 1 .. n : Len(ps2[j].b) = Sizes(ps)[j] /\ Sizes(ps)[j] \in Nat \ {0}
    BY <1>2, <1>3, <1>5
  <2>5. Len(ps2[n + 1].b) = size
    BY <1>5 DEF size
  <2>6. \A j \in 1 .. n + 1 : Len(ps2[j].b) \in Nat \ {0}
    BY <1>4, <2>3, <2>4, <2>5
  <2> QED
    BY <2>1, <2>2, <2>4, <2>5, <2>6
<1> HIDE DEF n, hl, wl, size, ps2, held2, s2
<1>12. /\ Placed(Sizes(ps2), n + 1, s2, m, off, hl + 1, wl, c)
       /\ \A j \in 1 .. n + 1 : s2[j] = start[j]
       /\ wl <= start[n + 1]
  <2> DEFINE z == Sizes(ps)
             z2 == Sizes(ps2)
  <2>1. start \in [1 .. n + 1 -> Int]
    BY <1>7 DEF Placed
  <2>2. /\ n + 1 \in 1 .. n + 1 /\ n + 2 \in 1 .. n + 2 /\ size \in Int
        /\ \A j \in 1 .. n + 1 : j # n + 2 /\ j \in 1 .. n + 2
        /\ \A j \in 1 .. n + 2 : j = n + 2 \/ j \in 1 .. n + 1
    BY <1>1, <1>4
  <2>3. start[n + 1] + size \in Int /\ \A j \in 1 .. n + 2 : j # n + 2 => start[j] \in Int
    <3>1. start[n + 1] \in Int
      BY <2>1, <2>2
    <3>2. \A j \in 1 .. n + 1 : start[j] \in Int
      BY <2>1
    <3> QED
      BY <2>2, <3>1, <3>2
  <2>4. /\ s2 \in [1 .. n + 2 -> Int] /\ s2[n + 2] = start[n + 1] + size
        /\ \A j \in 1 .. n + 1 : s2[j] = start[j]
    BY <2>2, <2>3 DEF s2
  <2>5. Placed(z, n, start, m, off, hl, wl, c)
    BY <1>7
  <2>6. Added(z2, s2, z, start, n, size)
    BY <1>4, <1>11, <2>4 DEF Added
  <2> HIDE DEF z, z2
  <2>7. Placed(z2, n + 1, s2, m, off, hl + 1, wl, c) /\ wl <= start[n + 1]
    BY <2>5, <2>6, PlacedAppend
  <2> QED
    BY <2>4, <2>7 DEF z2
<1>13. \A j \in 1 .. n + 1 : j = n + 1 \/ j \in 1 .. n
  BY <1>1
<1>14. start[n + 1] \in Int
  <2>1. start \in [1 .. n + 1 -> Int] /\ n + 1 \in 1 .. n + 1
    BY <1>1, <1>7 DEF Placed
  <2> QED
    BY <2>1
<1>15. ASSUME NEW j \in 1 .. n + 1, NEW i \in 1 .. Len(ps2[j].b), s2[j] + i \in 1 .. wl
       PROVE  w[s2[j] + i] = UnitAt(ps2[j], i)
  <2>1. CASE j = n + 1
    <3>1. s2[j] = start[n + 1] /\ ps2[j] = x
      BY <1>5, <1>12, <2>1
    <3>2. i \in 1 .. size
      BY <3>1 DEF size
    <3>3. start[n + 1] + i <= wl /\ i >= 1 /\ i \in Int
      BY <1>1, <1>4, <1>14, <1>15, <3>1, <3>2
    <3> QED
      BY <1>1, <1>12, <1>14, <3>3
  <2>2. CASE j # n + 1
    <3>1. j \in 1 .. n
      BY <1>13, <2>2
    <3>2. s2[j] = start[j] /\ ps2[j] = ps[j]
      BY <1>5, <1>12, <3>1
    <3> QED
      BY <1>8, <1>15, <3>1, <3>2
  <2> QED
    BY <2>1, <2>2
<1>16. ASSUME NEW j \in 1 .. hl + 1
       PROVE  held2[j] = IF j = 1 THEN Remainder(ps2[m + 1], off) ELSE ps2[m + j]
  <2>1. CASE j = hl + 1
    <3>1. m + j = n + 1
      BY <1>1, <2>1
    <3>2. held2[j] = x /\ ps2[m + j] = x
      BY <1>5, <1>6, <2>1, <3>1
    <3>3. ASSUME j = 1 PROVE off = 0
      <4>1. hl = 0
        BY <1>1, <2>1, <3>3
      <4> QED
        BY <1>7, <4>1 DEF Placed
    <3> QED
      BY <1>10, <3>2, <3>3
  <2>2. CASE j # hl + 1
    <3>1. j \in 1 .. hl /\ m + j \in 1 .. n /\ m + 1 \in 1 .. n
      BY <1>1, <2>2
    <3>2. held2[j] = held[j] /\ ps2[m + j] = ps[m + j] /\ ps2[m + 1] = ps[m + 1]
      BY <1>5, <1>6, <3>1
    <3> QED
      BY <1>9, <3>1, <3>2
  <2> QED
    BY <2>1, <2>2
<1>17. Laid(ps2, s2, m, off, w, held2, c)
  BY <1>5, <1>6, <1>12, <1>15, <1>16 DEF Laid, wl
<1> QED
  BY <1>17 DEF ps2, held2

(* What is held once k bytes of its first payload are written.             *)
HeldAfter(held, k) ==
  IF k = Len(held[1].b) THEN Tail(held) ELSE <<Remainder(held[1], k)>> \o Tail(held)

(* Bytes of the first held payload are written.                            *)
LEMMA LaidWrite ==
  ASSUME NEW ps \in Seq(Payload), NEW held \in Seq(Payload), NEW w \in Seq(Unit),
         NEW start, NEW m, NEW off, NEW c, Laid(ps, start, m, off, w, held, c),
         held # <<>>, NEW k \in 0 .. Len(held[1].b)
  PROVE  \E m2, off2 :
           /\ Laid(ps, start, m2, off2, w \o UnitsOf(held[1], k), HeldAfter(held, k), c)
           /\ k = Len(held[1].b) => off2 = 0
<1> DEFINE n == Len(ps)
           hl == Len(held)
           wl == Len(w)
           r == held[1]
           left == Len(r.b)
           more == UnitsOf(r, k)
           w2 == w \o more
           rest == HeldAfter(held, k)
           m2 == IF k = left THEN m + 1 ELSE m
           off2 == IF k = left THEN 0 ELSE off + k
           z == Sizes(ps)
<1>1. /\ m \in Nat /\ off \in Nat /\ n = m + hl /\ n \in Nat /\ hl \in Nat /\ wl \in Nat
  BY LaidTypes
<1>2. \A j \in 1 .. n : ps[j] \in Payload /\ z[j] = Len(ps[j].b)
  BY LaidTypes
<1>3. Placed(z, n, start, m, off, hl, wl, c)
  BY DEF Laid
<1>4. \A j \in 1 .. n : \A i \in 1 .. Len(ps[j].b) :
        start[j] + i \in 1 .. wl => w[start[j] + i] = UnitAt(ps[j], i)
  BY DEF Laid
<1>5. \A j \in 1 .. hl : held[j] = IF j = 1 THEN Remainder(ps[m + 1], off) ELSE ps[m + j]
  BY DEF Laid
<1>6. hl # 0
  OBVIOUS
<1>7. m + 1 \in 1 .. n /\ 1 \in 1 .. hl
  BY <1>1, <1>6
<1>8. ps[m + 1] \in Payload /\ r = Remainder(ps[m + 1], off) /\ z[m + 1] = Len(ps[m + 1].b)
  BY <1>2, <1>5, <1>7
<1>9. z[m + 1] \in Nat /\ off < z[m + 1]
  <2>1. z \in [1 .. n -> Nat \ {0}] /\ off < z[m + 1]
    BY <1>3, <1>6 DEF Placed
  <2> QED
    BY <1>7, <2>1
<1>10. off \in 0 .. Len(ps[m + 1].b)
  BY <1>1, <1>8, <1>9
<1>11. /\ r \in Payload /\ left = z[m + 1] - off
       /\ \A i \in 1 .. left : UnitAt(r, i) = UnitAt(ps[m + 1], off + i)
       /\ Remainder(r, k) = Remainder(ps[m + 1], off + k)
  <2> DEFINE p == ps[m + 1]
  <2>1. p \in Payload /\ r = Remainder(p, off) /\ off \in 0 .. Len(p.b) /\ z[m + 1] = Len(p.b)
        /\ k \in 0 .. Len(r.b)
    BY <1>8, <1>10
  <2> HIDE DEF p, r, z
  <2>2. /\ r \in Payload /\ Len(r.b) = Len(p.b) - off
        /\ \A i \in 1 .. Len(r.b) : UnitAt(r, i) = UnitAt(p, off + i)
        /\ \A a \in 0 .. Len(r.b) : Remainder(r, a) = Remainder(p, off + a)
    <3>1. p \in Payload /\ off \in 0 .. Len(p.b) /\ r = Remainder(p, off)
      BY <2>1
    <3> QED
      BY <3>1, RemainderOf, Zenon
  <2>3. Remainder(r, k) = Remainder(p, off + k)
    BY <2>1, <2>2
  <2> QED
    BY <2>1, <2>2, <2>3 DEF p
<1>12. k \in 0 .. z[m + 1] - off /\ k \in Nat /\ k <= left
  BY <1>1, <1>9, <1>11
<1>13. /\ more \in Seq(Unit) /\ Len(more) = k
       /\ \A i \in 1 .. k : more[i] = UnitAt(r, i)
  <2>1. \A i \in 1 .. k : r.b[i] \in Byte
    <3>1. r.b \in Seq(Byte) /\ \A i \in 1 .. k : i \in 1 .. Len(r.b)
      BY <1>11, <1>12 DEF Payload, Blob
    <3> QED
      BY <3>1, ElementOfSeq
  <2>2. \A i \in 1 .. k : UnitAt(r, i) \in Unit
    BY <1>11, <2>1 DEF UnitAt, Unit, Payload, HandleOrNull
  <2>3. more = [i \in 1 .. k |-> UnitAt(r, i)]
    BY DEF UnitsOf, UnitAt
  <2> QED
    BY <1>12, <2>2, <2>3
<1> HIDE DEF more
<1>14. /\ w2 \in Seq(Unit) /\ Len(w2) = wl + k
       /\ \A i \in 1 .. wl : w2[i] = w[i]
       /\ \A i \in 1 .. k : w2[wl + i] = more[i]
  <2>1. /\ w \o more \in Seq(Unit) /\ Len(w \o more) = Len(w) + Len(more)
        /\ \A i \in 1 .. Len(w) + Len(more) :
             (w \o more)[i] = IF i <= Len(w) THEN w[i] ELSE more[i - Len(w)]
    BY <1>13, ConcatProperties
  <2>2. \A i \in 1 .. wl : i \in 1 .. wl + k /\ i <= wl
    BY <1>1, <1>12
  <2>3. \A i \in 1 .. k : wl + i \in 1 .. wl + k /\ ~(wl + i <= wl) /\ wl + i - wl = i
    BY <1>1, <1>12
  <2> HIDE DEF wl
  <2> QED
    BY <1>13, <2>1, <2>2, <2>3 DEF wl
<1>15. /\ Tail(held) \in Seq(Payload) /\ Len(Tail(held)) = hl - 1
       /\ \A j \in 1 .. hl - 1 : Tail(held)[j] = held[j + 1]
  OBVIOUS
<1>16. /\ rest \in Seq(Payload) /\ Len(rest) = IF k = left THEN hl - 1 ELSE hl
       /\ \A j \in 1 .. Len(rest) :
            rest[j] = IF j = 1 THEN Remainder(ps[m2 + 1], off2) ELSE ps[m2 + j]
  <2>1. CASE k = left
    <3>1. rest = Tail(held)
      BY <2>1 DEF HeldAfter
    <3>2. ASSUME NEW j \in 1 .. hl - 1
          PROVE  rest[j] = ps[m + 1 + j] /\ ps[m + 1 + j] = Remainder(ps[m + 1 + j], 0)
      <4>1. j + 1 \in 1 .. hl /\ j + 1 # 1 /\ m + (j + 1) = m + 1 + j /\ m + 1 + j \in 1 .. n
        BY <1>1
      <4>2. held[j + 1] = ps[m + 1 + j]
        BY <1>5, <4>1
      <4>3. ps[m + 1 + j] = Remainder(ps[m + 1 + j], 0)
        BY <1>2, <4>1, RemainderWhole
      <4> QED
        BY <1>15, <3>1, <4>2, <4>3
    <3>3. m2 = m + 1 /\ off2 = 0
      BY <2>1
    <3>4. Len(rest) = hl - 1 /\ rest \in Seq(Payload)
      BY <1>15, <3>1
    <3> HIDE DEF rest, m2, off2, hl
    <3> QED
      BY <2>1, <3>2, <3>3, <3>4
  <2>2. CASE k # left
    <3> DEFINE q == Remainder(r, k)
    <3>1. rest = <<q>> \o Tail(held)
      BY <2>2 DEF HeldAfter
    <3>2. q \in Payload
      BY <1>11, RemainderType
    <3> HIDE DEF q
    <3>3. /\ rest \in Seq(Payload) /\ Len(rest) = hl /\ rest[1] = q
          /\ \A j \in 2 .. hl : rest[j] = held[j]
      <4>1. <<q>> \in Seq(Payload) /\ Len(<<q>>) = 1 /\ <<q>>[1] = q
        BY <3>2
      <4>2. /\ rest \in Seq(Payload) /\ Len(rest) = 1 + (hl - 1)
            /\ \A j \in 1 .. 1 + (hl - 1) :
                 rest[j] = IF j <= 1 THEN <<q>>[j] ELSE Tail(held)[j - 1]
        BY <1>15, <3>1, <4>1, ConcatProperties
      <4>3. 1 + (hl - 1) = hl /\ 1 \in 1 .. hl /\ 1 <= 1
        BY <1>1, <1>7
      <4>4. \A j \in 2 .. hl : j \in 1 .. hl /\ ~(j <= 1) /\ j - 1 \in 1 .. hl - 1 /\ j - 1 + 1 = j
        BY <1>1
      <4> HIDE DEF rest, hl
      <4>5. rest[1] = q
        BY <4>1, <4>2, <4>3
      <4>6. ASSUME NEW j \in 2 .. hl PROVE rest[j] = held[j]
        <5>1. rest[j] = Tail(held)[j - 1]
          BY <4>2, <4>3, <4>4
        <5>2. Tail(held)[j - 1] = held[j]
          BY <1>15, <4>4
        <5> QED
          BY <5>1, <5>2
      <4> QED
        BY <4>2, <4>3, <4>5, <4>6
    <3>4. m2 = m /\ off2 = off + k /\ q = Remainder(ps[m + 1], off + k)
      BY <1>11, <2>2 DEF q
    <3>5. \A j \in 1 .. hl : j # 1 => j \in 2 .. hl
      BY <1>1
    <3> HIDE DEF rest, m2, off2, hl
    <3> QED
      BY <1>5, <2>2, <3>3, <3>4, <3>5
  <2> QED
    BY <2>1, <2>2
<1>17. Placed(z, n, start, m2, off2, Len(rest), wl + k, c)
  <2> HIDE DEF z, n, hl, wl, left, rest, r
  <2>1. CASE k = left
    <3>1. k = z[m + 1] - off
      BY <1>11, <2>1
    <3>2. Placed(z, n, start, m + 1, 0, hl - 1, wl + k, c)
      BY <1>3, <1>6, <1>12, <3>1, PlacedWrite
    <3>3. m2 = m + 1 /\ off2 = 0 /\ Len(rest) = hl - 1
      BY <1>16, <2>1
    <3> QED
      BY <3>2, <3>3
  <2>2. CASE k # left
    <3>1. k # z[m + 1] - off
      BY <1>11, <2>2
    <3>2. Placed(z, n, start, m, off + k, hl, wl + k, c)
      BY <1>3, <1>6, <1>12, <3>1, PlacedWrite
    <3>3. m2 = m /\ off2 = off + k /\ Len(rest) = hl
      BY <1>16, <2>2
    <3> QED
      BY <3>2, <3>3
  <2> QED
    BY <2>1, <2>2
<1>18. ASSUME NEW j \in 1 .. n, NEW i \in 1 .. Len(ps[j].b), start[j] + i \in 1 .. wl + k
       PROVE  w2[start[j] + i] = UnitAt(ps[j], i)
  <2>1. CASE start[j] + i \in 1 .. wl
    BY <1>4, <1>14, <2>1
  <2>2. CASE start[j] + i \notin 1 .. wl
    <3>1. start[j] + i \in wl + 1 .. wl + k
      BY <1>1, <1>12, <1>18, <2>2
    <3>2. i \in 1 .. z[j]
      BY <1>2
    <3> HIDE DEF z, n, hl, wl, left, rest, r, w2
    <3>3. j = m + 1 /\ i - off \in 1 .. k /\ start[j] + i = wl + (i - off)
      BY <1>3, <1>6, <1>12, <3>1, <3>2, PlacedNext
    <3>4. i - off \in 1 .. left /\ off + (i - off) = i
      <4>1. \A q \in 1 .. k : q \in 1 .. left
        BY <1>9, <1>11, <1>12
      <4>2. z[j] \in Nat /\ i \in Int
        BY <1>9, <3>2, <3>3
      <4> QED
        BY <1>1, <3>3, <4>1, <4>2
    <3>5. w2[wl + (i - off)] = UnitAt(r, i - off)
      BY <1>13, <1>14, <3>3
    <3>6. UnitAt(r, i - off) = UnitAt(ps[m + 1], off + (i - off))
      BY <1>11, <3>4
    <3> QED
      BY <3>3, <3>4, <3>5, <3>6
  <2> QED
    BY <2>1, <2>2
<1>19. Laid(ps, start, m2, off2, w2, rest, c)
  BY <1>14, <1>16, <1>17, <1>18 DEF Laid
<1>20. k = left => off2 = 0
  OBVIOUS
<1> QED
  BY <1>19, <1>20 DEF more

(* k bytes are read.                                                       *)
LEMMA LaidRead ==
  ASSUME NEW ps \in Seq(Payload), NEW held \in Seq(Payload), NEW w \in Seq(Unit),
         NEW start, NEW m, NEW off, NEW c, Laid(ps, start, m, off, w, held, c),
         NEW k \in 0 .. Len(w)
  PROVE  \E start2 : Laid(ps, start2, m, off, SubSeq(w, k + 1, Len(w)), held, c + k)
<1> DEFINE n == Len(ps)
           hl == Len(held)
           wl == Len(w)
           w2 == SubSeq(w, k + 1, Len(w))
           s2 == [j \in 1 .. n + 1 |-> start[j] - k]
           z == Sizes(ps)
<1>1. /\ m \in Nat /\ off \in Nat /\ n = m + hl /\ n \in Nat /\ hl \in Nat /\ wl \in Nat
  BY LaidTypes
<1>2. Placed(z, n, start, m, off, hl, wl, c)
  BY DEF Laid
<1>3. \A j \in 1 .. n : \A i \in 1 .. Len(ps[j].b) :
        start[j] + i \in 1 .. wl => w[start[j] + i] = UnitAt(ps[j], i)
  BY DEF Laid
<1>4. \A j \in 1 .. hl : held[j] = IF j = 1 THEN Remainder(ps[m + 1], off) ELSE ps[m + j]
  BY DEF Laid
<1>5. k \in Nat /\ k <= wl
  BY <1>1
<1>6. w2 \in Seq(Unit) /\ Len(w2) = wl - k /\ \A i \in 1 .. wl - k : w2[i] = w[k + i]
  BY CutSeq
<1>7. \A j \in 1 .. n : \A i \in 1 .. Len(ps[j].b) : i \in Int
  <2>1. \A j \in 1 .. n : Len(ps[j].b) \in Nat
    <3>1. \A j \in 1 .. n : ps[j] \in Payload
      BY LaidTypes
    <3> QED
      BY <3>1 DEF Payload, Blob
  <2> HIDE DEF n
  <2> QED
    BY <2>1
<1> HIDE DEF n, hl, wl, w2, s2, z
<1>8. start \in [1 .. n + 1 -> Int]
  BY <1>2 DEF Placed
<1>9. \A j \in 1 .. n + 1 : start[j] \in Int /\ s2[j] = start[j] - k
  BY <1>8 DEF s2
<1>10. Shifted(s2, start, n, k)
  <2>1. \A j \in 1 .. n + 1 : start[j] - k \in Int
    BY <1>5, <1>9
  <2>2. s2 \in [1 .. n + 1 -> Int]
    BY <2>1 DEF s2
  <2> QED
    BY <1>9, <2>2 DEF Shifted
<1>11. Placed(z, n, s2, m, off, hl, wl - k, c + k)
  <2>1. k \in 0 .. wl
    BY <1>1, <1>5
  <2> QED
    BY <1>2, <1>10, <2>1, PlacedRead
<1>12. ASSUME NEW j \in 1 .. n, NEW i \in 1 .. Len(ps[j].b), s2[j] + i \in 1 .. wl - k
       PROVE  w2[s2[j] + i] = UnitAt(ps[j], i)
  <2>1. j \in 1 .. n + 1
    BY <1>1
  <2>2. start[j] \in Int /\ s2[j] = start[j] - k /\ i \in Int
    BY <1>7, <1>9, <2>1
  <2>5. \A a, b, q \in Int :
          b = a - k /\ b + q \in 1 .. wl - k => k + (b + q) = a + q /\ a + q \in 1 .. wl
    BY <1>1, <1>5
  <2>6. s2[j] \in Int
    BY <1>5, <2>2
  <2>3. k + (s2[j] + i) = start[j] + i /\ start[j] + i \in 1 .. wl
    BY <1>12, <2>2, <2>5, <2>6
  <2>4. w2[s2[j] + i] = w[k + (s2[j] + i)]
    BY <1>6, <1>12
  <2> QED
    BY <1>3, <2>3, <2>4
<1>13. Laid(ps, s2, m, off, w2, held, c + k)
  BY <1>4, <1>6, <1>11, <1>12 DEF Laid, n, hl, z
<1> QED
  BY <1>13 DEF w2

(* The first payload, all read, is done with.                              *)
LEMMA LaidPop ==
  ASSUME NEW ps \in Seq(Payload), NEW held \in Seq(Payload), NEW w \in Seq(Unit),
         NEW start, NEW m, NEW off, NEW c, Laid(ps, start, m, off, w, held, c),
         ps # <<>>, c = Len(ps[1].b)
  PROVE  /\ \E start2 : Laid(Tail(ps), start2, m - 1, off, w, held, 0)
         /\ m >= 1
<1> DEFINE n == Len(ps)
           hl == Len(held)
           wl == Len(w)
           ps2 == Tail(ps)
           s2 == [j \in 1 .. n |-> start[j + 1]]
           z == Sizes(ps)
           z2 == Sizes(ps2)
<1>1. /\ m \in Nat /\ off \in Nat /\ n = m + hl /\ n \in Nat /\ hl \in Nat /\ wl \in Nat
  BY LaidTypes
<1>2. Placed(z, n, start, m, off, hl, wl, c)
  BY DEF Laid
<1>3. \A j \in 1 .. n : \A i \in 1 .. Len(ps[j].b) :
        start[j] + i \in 1 .. wl => w[start[j] + i] = UnitAt(ps[j], i)
  BY DEF Laid
<1>4. \A j \in 1 .. hl : held[j] = IF j = 1 THEN Remainder(ps[m + 1], off) ELSE ps[m + j]
  BY DEF Laid
<1>5. n > 0
  OBVIOUS
<1>6. /\ ps2 \in Seq(Payload) /\ Len(ps2) = n - 1
      /\ \A j \in 1 .. n - 1 : ps2[j] = ps[j + 1]
  OBVIOUS
<1>7. \A j \in 1 .. n : ps[j] \in Payload /\ z[j] = Len(ps[j].b)
  BY LaidTypes
<1> HIDE DEF n, hl, wl, ps2, s2, z
<1>8. \A j \in 1 .. n - 1 : j \in 1 .. n /\ j + 1 \in 1 .. n
  BY <1>1
<1>9. start \in [1 .. n + 1 -> Int] /\ z \in [1 .. n -> Nat \ {0}]
  BY <1>2 DEF Placed
<1>10. Popped(z2, s2, z, start, n)
  <2>1. z2 = [j \in 1 .. n - 1 |-> Len(ps2[j].b)]
    BY <1>6 DEF Sizes
  <2>2. \A j \in 1 .. n - 1 : Len(ps2[j].b) = z[j + 1] /\ z[j + 1] \in Nat \ {0}
    BY <1>6, <1>7, <1>8, <1>9
  <2>3. z2 \in [1 .. n - 1 -> Nat \ {0}] /\ \A j \in 1 .. n - 1 : z2[j] = z[j + 1]
    BY <2>1, <2>2
  <2>4. \A j \in 1 .. n : j + 1 \in 1 .. n + 1
    BY <1>1
  <2>5. \A j \in 1 .. n : start[j + 1] \in Int
    BY <1>9, <2>4
  <2>6. s2 \in [1 .. n -> Int] /\ \A j \in 1 .. n : s2[j] = start[j + 1]
    BY <2>5 DEF s2
  <2> QED
    BY <2>3, <2>6 DEF Popped
<1>11. c = z[1]
  <2>1. 1 \in 1 .. n
    BY <1>1, <1>5
  <2> QED
    BY <1>7, <2>1
<1> HIDE DEF z2
<1>12. Placed(z2, n - 1, s2, m - 1, off, hl, wl, 0) /\ m >= 1
  BY <1>2, <1>5, <1>10, <1>11, PlacedPop
<1>13. ASSUME NEW j \in 1 .. n - 1, NEW i \in 1 .. Len(ps2[j].b), s2[j] + i \in 1 .. wl
       PROVE  w[s2[j] + i] = UnitAt(ps2[j], i)
  <2>1. j \in 1 .. n /\ j + 1 \in 1 .. n
    BY <1>8
  <2>2. s2[j] = start[j + 1] /\ ps2[j] = ps[j + 1]
    BY <1>6, <2>1 DEF s2
  <2> QED
    BY <1>3, <1>13, <2>1, <2>2
<1>14. ASSUME NEW j \in 1 .. hl
       PROVE  held[j] = IF j = 1 THEN Remainder(ps2[m - 1 + 1], off) ELSE ps2[m - 1 + j]
  <2>1. m - 1 + j \in 1 .. n - 1 /\ m - 1 + j + 1 = m + j
        /\ m - 1 + 1 \in 1 .. n - 1 /\ m - 1 + 1 + 1 = m + 1
    BY <1>1, <1>12
  <2>2. ps2[m - 1 + j] = ps[m + j] /\ ps2[m - 1 + 1] = ps[m + 1]
    BY <1>6, <2>1
  <2> QED
    BY <1>4, <2>2
<1>15. Laid(ps2, s2, m - 1, off, w, held, 0)
  BY <1>6, <1>12, <1>13, <1>14 DEF Laid, hl, wl, z2
<1> QED
  BY <1>12, <1>15 DEF ps2

(* The last payload, not begun, is dropped.                                *)
LEMMA LaidDrop ==
  ASSUME NEW ps \in Seq(Payload), NEW h0 \in Seq(Payload), NEW x \in Payload, NEW w \in Seq(Unit),
         NEW start, NEW m, NEW off, NEW c, Laid(ps, start, m, off, w, Append(h0, x), c),
         h0 = <<>> => off = 0
  PROVE  \E start2 : Laid(SubSeq(ps, 1, Len(ps) - 1), start2, m, off, w, h0, c)
<1> DEFINE n == Len(ps)
           held == Append(h0, x)
           hl == Len(h0)
           wl == Len(w)
           ps2 == SubSeq(ps, 1, Len(ps) - 1)
           s2 == [j \in 1 .. n |-> start[j]]
           z == Sizes(ps)
           z2 == Sizes(ps2)
<1>0. /\ held \in Seq(Payload) /\ Len(held) = hl + 1
      /\ \A j \in 1 .. hl : held[j] = h0[j]
  OBVIOUS
<1>1. /\ m \in Nat /\ off \in Nat /\ n = m + (hl + 1) /\ n \in Nat /\ hl \in Nat /\ wl \in Nat
  <2>1. held \in Seq(Payload) /\ Laid(ps, start, m, off, w, held, c)
    BY <1>0
  <2> HIDE DEF held
  <2>2. m \in Nat /\ off \in Nat /\ n = m + Len(held) /\ n \in Nat /\ wl \in Nat
    BY <2>1, LaidTypes
  <2> QED
    BY <1>0, <2>2
<1>2. Placed(z, n, start, m, off, hl + 1, wl, c)
  BY <1>0 DEF Laid
<1>3. \A j \in 1 .. n : \A i \in 1 .. Len(ps[j].b) :
        start[j] + i \in 1 .. wl => w[start[j] + i] = UnitAt(ps[j], i)
  BY DEF Laid
<1>4. \A j \in 1 .. hl + 1 : held[j] = IF j = 1 THEN Remainder(ps[m + 1], off) ELSE ps[m + j]
  BY <1>0 DEF Laid
<1>5. hl + 1 > 0 /\ n > 0 /\ (hl + 1 = 1 => off = 0)
  <2>1. hl = 0 => h0 = <<>>
    OBVIOUS
  <2> QED
    BY <1>1, <2>1
<1>6. /\ ps2 \in Seq(Payload) /\ Len(ps2) = n - 1
      /\ \A j \in 1 .. n - 1 : ps2[j] = ps[j]
  <2>1. n >= 1
    BY <1>1, <1>5
  <2>2. 1 \in Int /\ n - 1 \in Int /\ \A j \in 1 .. n - 1 : ps[j] \in Payload
    <3>1. \A j \in 1 .. n - 1 : j \in 1 .. n
      BY <1>1
    <3> QED
      BY <1>1, <3>1, ElementOfSeq
  <2>3. /\ ps2 \in Seq(Payload)
        /\ Len(ps2) = IF 1 <= n - 1 THEN n - 1 - 1 + 1 ELSE 0
        /\ \A j \in 1 .. n - 1 - 1 + 1 : ps2[j] = ps[1 + j - 1]
    BY <2>2, SubSeqProperties
  <2>4. n - 1 - 1 + 1 = n - 1 /\ (~(1 <= n - 1) => n - 1 = 0) /\ \A j \in 1 .. n - 1 : 1 + j - 1 = j
    BY <1>1, <2>1
  <2> HIDE DEF ps2, n
  <2> QED
    BY <2>3, <2>4
<1>7. \A j \in 1 .. n : ps[j] \in Payload /\ z[j] = Len(ps[j].b)
  BY <1>0, LaidTypes
<1> HIDE DEF n, hl, wl, ps2, s2, z, held
<1>8. \A j \in 1 .. n - 1 : j \in 1 .. n
  BY <1>1
<1>9. start \in [1 .. n + 1 -> Int] /\ z \in [1 .. n -> Nat \ {0}]
  BY <1>2 DEF Placed
<1>10. Cut(z2, s2, z, start, n)
  <2>1. z2 = [j \in 1 .. n - 1 |-> Len(ps2[j].b)]
    BY <1>6 DEF Sizes
  <2>2. \A j \in 1 .. n - 1 : Len(ps2[j].b) = z[j] /\ z[j] \in Nat \ {0}
    BY <1>6, <1>7, <1>8, <1>9
  <2>3. z2 \in [1 .. n - 1 -> Nat \ {0}] /\ \A j \in 1 .. n - 1 : z2[j] = z[j]
    BY <2>1, <2>2
  <2>4. \A j \in 1 .. n : j \in 1 .. n + 1
    BY <1>1
  <2>5. \A j \in 1 .. n : start[j] \in Int
    BY <1>9, <2>4
  <2>6. s2 \in [1 .. n -> Int] /\ \A j \in 1 .. n : s2[j] = start[j]
    BY <2>5 DEF s2
  <2> QED
    BY <2>3, <2>6 DEF Cut
<1> HIDE DEF z2
<1>12. Placed(z2, n - 1, s2, m, off, hl, wl, c)
  <2> DEFINE whole == hl + 1
  <2>1. Placed(z, n, start, m, off, whole, wl, c) /\ whole > 0 /\ (whole = 1 => off = 0)
    BY <1>2, <1>5
  <2>2. whole - 1 = hl
    BY <1>1
  <2> HIDE DEF whole
  <2>3. Placed(z2, n - 1, s2, m, off, whole - 1, wl, c)
    BY <1>10, <2>1, PlacedDrop
  <2> QED
    BY <2>2, <2>3
<1>13. ASSUME NEW j \in 1 .. n - 1, NEW i \in 1 .. Len(ps2[j].b), s2[j] + i \in 1 .. wl
       PROVE  w[s2[j] + i] = UnitAt(ps2[j], i)
  <2>1. j \in 1 .. n
    BY <1>8
  <2>2. s2[j] = start[j] /\ ps2[j] = ps[j]
    BY <1>6, <2>1 DEF s2
  <2> QED
    BY <1>3, <1>13, <2>1, <2>2
<1>14. ASSUME NEW j \in 1 .. hl
       PROVE  h0[j] = IF j = 1 THEN Remainder(ps2[m + 1], off) ELSE ps2[m + j]
  <2>1. m + j \in 1 .. n - 1 /\ m + 1 \in 1 .. n - 1 /\ j \in 1 .. hl + 1
    BY <1>1
  <2>2. ps2[m + j] = ps[m + j] /\ ps2[m + 1] = ps[m + 1]
    BY <1>6, <2>1
  <2> QED
    BY <1>0, <1>4, <2>1, <2>2
<1>15. Laid(ps2, s2, m, off, w, h0, c)
  BY <1>6, <1>12, <1>13, <1>14 DEF Laid, hl, wl, z2
<1> QED
  BY <1>15 DEF ps2

(* What is read first is the next of the first payload.                    *)
LEMMA LaidFirst ==
  ASSUME NEW ps \in Seq(Payload), NEW held \in Seq(Payload), NEW w \in Seq(Unit),
         NEW start, NEW m, NEW off, NEW c, Laid(ps, start, m, off, w, held, c)
  PROVE  /\ ps = <<>> => w = <<>> /\ c = 0
         /\ ps # <<>> => \A i \in 1 .. Len(w) :
              c + i <= Len(ps[1].b) => w[i] = UnitAt(ps[1], c + i)
<1> DEFINE n == Len(ps)
           wl == Len(w)
<1>1. n \in Nat /\ wl \in Nat /\ c \in Nat
  BY LaidTypes
<1>2. (\A i \in Nat : start[1] + (c + i) = i) /\ (n = 0 => wl = 0 /\ c = 0)
  <2> DEFINE z == Sizes(ps)
             hl == Len(held)
  <2>1. Placed(z, n, start, m, off, hl, wl, c)
    BY DEF Laid
  <2> HIDE DEF z, hl, n, wl
  <2> QED
    BY <2>1, PlacedFirst
<1>3. ASSUME ps = <<>> PROVE w = <<>> /\ c = 0
  <2>1. n = 0
    BY <1>3
  <2>2. wl = 0 /\ c = 0
    BY <1>2, <1>3, <2>1
  <2> QED
    BY <2>2
<1>4. ASSUME ps # <<>>, NEW i \in 1 .. wl, c + i <= Len(ps[1].b)
      PROVE  w[i] = UnitAt(ps[1], c + i)
  <2>1. 1 \in 1 .. n
    BY <1>4
  <2>2. Len(ps[1].b) \in Nat
    <3>1. ps[1] \in Payload
      BY <2>1, ElementOfSeq
    <3> QED
      BY <3>1 DEF Payload, Blob
  <2> HIDE DEF n, wl
  <2>3. i \in Nat /\ i >= 1 /\ c + i \in 1 .. Len(ps[1].b)
    BY <1>1, <1>4, <2>2
  <2>4. start[1] + (c + i) = i
    BY <1>2, <2>3
  <2>5. \A q \in 1 .. Len(ps[1].b) : start[1] + q \in 1 .. wl => w[start[1] + q] = UnitAt(ps[1], q)
    BY <2>1 DEF Laid, n, wl
  <2> QED
    BY <1>4, <2>3, <2>4, <2>5
<1> QED
  BY <1>3, <1>4

(***************************************************************************)
(* What the payloads are.                                                  *)
(***************************************************************************)

(* "nothing" is before the first payload.                                  *)
Kind == {"nothing", "version", "ping", "close", "head", "blob"}

PayloadOf(k, msg) ==
  CASE k = "version" -> VersionPayload
    [] k = "ping" -> PingPayload
    [] k = "close" -> HeadPayload(NoHandle, 0)
    [] k = "head" -> HeadPayload(msg.h, Len(msg.b))
    [] OTHER -> [h |-> NoHandle, b |-> msg.b]

(* The meta-blob of message r comes next.                                  *)
BlobDue(k, r, s) == k = "head" /\ s[r].b # <<>>

(* Payload p of kind k is after one of kind k0, up to which r0 messages    *)
(* began.                                                                  *)
Follows(k, r, p, k0, r0, s) ==
  /\ k # "nothing" /\ k0 # "close"
  /\ k = "version" <=> k0 = "nothing"
  /\ k = "blob" <=> BlobDue(k0, r0, s)
  /\ r = IF k = "head" THEN r0 + 1 ELSE r0
  /\ p = PayloadOf(k, s[r])

(* The kinds of payloads ps, and how many messages began up to each; the   *)
(* same of what was before them, at 0.                                     *)
Told(ps, kind, rank, s) ==
  /\ kind \in [0 .. Len(ps) -> Kind] /\ rank \in [0 .. Len(ps) -> 0 .. Len(s)]
  /\ \A i, j \in 0 .. Len(ps) : i <= j => rank[i] <= rank[j]
  /\ \A j \in 0 .. Len(ps) : kind[j] = "head" => rank[j] >= 1
  /\ \A j \in 1 .. Len(ps) : Follows(kind[j], rank[j], ps[j], kind[j - 1], rank[j - 1], s)

-----------------------------------------------------------------------------
(* All but the last of a sequence.                                         *)
LEMMA FrontOfSeq ==
  ASSUME NEW S, NEW s \in Seq(S), s # <<>>
  PROVE  /\ SubSeq(s, 1, Len(s) - 1) \in Seq(S)
         /\ Len(SubSeq(s, 1, Len(s) - 1)) = Len(s) - 1
         /\ \A i \in 1 .. Len(s) - 1 : SubSeq(s, 1, Len(s) - 1)[i] = s[i]
<1> DEFINE n == Len(s) - 1
<1>1. n \in Nat /\ 1 \in Int /\ \A i \in 1 .. n : s[i] \in S
  OBVIOUS
<1> HIDE DEF n
<1>2. /\ SubSeq(s, 1, n) \in Seq(S)
      /\ Len(SubSeq(s, 1, n)) = IF 1 <= n THEN n - 1 + 1 ELSE 0
      /\ \A i \in 1 .. n - 1 + 1 : SubSeq(s, 1, n)[i] = s[1 + i - 1]
  BY <1>1, SubSeqProperties
<1>3. /\ n - 1 + 1 = n /\ (~(1 <= n) => n = 0)
      /\ \A i \in 1 .. n : 1 + i - 1 = i
  BY <1>1
<1> QED
  BY <1>2, <1>3 DEF n

(* A longer history tells the same.                                        *)
LEMMA FollowsHistory ==
  ASSUME NEW k \in Kind, NEW r, NEW p, NEW k0, NEW r0, NEW n \in Nat, NEW s, NEW s2,
         r \in 0 .. n, r0 \in 0 .. n, k = "head" => r >= 1, k0 = "head" => r0 >= 1,
         Follows(k, r, p, k0, r0, s),
         \A i \in 1 .. n : s2[i] = s[i]
  PROVE  Follows(k, r, p, k0, r0, s2)
<1>1. BlobDue(k0, r0, s2) <=> BlobDue(k0, r0, s)
  <2>1. k0 = "head" => r0 \in 1 .. n
    OBVIOUS
  <2> QED
    BY <2>1 DEF BlobDue
<1>2. k \in {"head", "blob"} => r \in 1 .. n
  BY DEF Follows, BlobDue
<1>3. PayloadOf(k, s2[r]) = PayloadOf(k, s[r])
  <2>1. CASE k \in {"head", "blob"}
    BY <1>2, <2>1
  <2>2. CASE k \notin {"head", "blob"}
    <3>1. k \in {"version", "ping", "close"}
      BY <2>2 DEF Kind, Follows
    <3> QED
      BY <3>1 DEF PayloadOf
  <2> QED
    BY <2>1, <2>2
<1> QED
  BY <1>1, <1>3 DEF Follows

(* A history told of what was sent stays told when more is sent.           *)
LEMMA ToldHistory ==
  ASSUME NEW ps, NEW kind, NEW rank, NEW s, NEW s2, Told(ps, kind, rank, s),
         Len(ps) \in Nat, Len(s) \in Nat, Len(s2) \in Nat, Len(s) <= Len(s2),
         \A i \in 1 .. Len(s) : s2[i] = s[i]
  PROVE  Told(ps, kind, rank, s2)
<1> DEFINE n == Len(ps)
           a == Len(s)
           b == Len(s2)
<1>1. /\ kind \in [0 .. n -> Kind] /\ rank \in [0 .. n -> 0 .. a]
      /\ \A i, j \in 0 .. n : i <= j => rank[i] <= rank[j]
      /\ \A j \in 0 .. n : kind[j] = "head" => rank[j] >= 1
      /\ \A j \in 1 .. n : Follows(kind[j], rank[j], ps[j], kind[j - 1], rank[j - 1], s)
  BY DEF Told
<1>2. n \in Nat /\ a \in Nat /\ b \in Nat /\ a <= b /\ \A i \in 1 .. a : s2[i] = s[i]
  OBVIOUS
<1> HIDE DEF n, a, b
<1>3. \A j \in 1 .. n : j \in 0 .. n /\ j - 1 \in 0 .. n
  BY <1>2
<1>4. ASSUME NEW j \in 1 .. n
      PROVE  Follows(kind[j], rank[j], ps[j], kind[j - 1], rank[j - 1], s2)
  <2> DEFINE j0 == j - 1
  <2>1. j \in 0 .. n /\ j0 \in 0 .. n
    BY <1>3
  <2> HIDE DEF j0
  <2>2. /\ kind[j] \in Kind /\ rank[j] \in 0 .. a /\ rank[j0] \in 0 .. a
        /\ (kind[j] = "head" => rank[j] >= 1) /\ (kind[j0] = "head" => rank[j0] >= 1)
    BY <1>1, <2>1
  <2>3. Follows(kind[j], rank[j], ps[j], kind[j0], rank[j0], s)
    BY <1>1 DEF j0
  <2>4. Follows(kind[j], rank[j], ps[j], kind[j0], rank[j0], s2)
    BY <1>2, <2>2, <2>3, FollowsHistory
  <2> QED
    BY <2>4 DEF j0
<1>5. rank \in [0 .. n -> 0 .. b]
  <2>1. \A j \in 0 .. n : rank[j] \in 0 .. b
    BY <1>1, <1>2
  <2> QED
    BY <1>1, <2>1
<1> QED
  BY <1>1, <1>4, <1>5 DEF Told, n, b

(* A payload is added.                                                     *)
LEMMA ToldAppend ==
  ASSUME NEW ps \in Seq(Payload), NEW kind, NEW rank, NEW s, Told(ps, kind, rank, s),
         Len(s) \in Nat, NEW x \in Payload, NEW k \in Kind, NEW r \in 0 .. Len(s),
         Follows(k, r, x, kind[Len(ps)], rank[Len(ps)], s)
  PROVE  \E kind2, rank2 :
           /\ Told(Append(ps, x), kind2, rank2, s)
           /\ kind2[Len(ps) + 1] = k /\ rank2[Len(ps) + 1] = r
           /\ kind2[0] = kind[0] /\ rank2[0] = rank[0]
<1> DEFINE n == Len(ps)
           a == Len(s)
           ps2 == Append(ps, x)
           kind2 == [j \in 0 .. n + 1 |-> IF j = n + 1 THEN k ELSE kind[j]]
           rank2 == [j \in 0 .. n + 1 |-> IF j = n + 1 THEN r ELSE rank[j]]
<1>1. /\ kind \in [0 .. n -> Kind] /\ rank \in [0 .. n -> 0 .. a]
      /\ \A i, j \in 0 .. n : i <= j => rank[i] <= rank[j]
      /\ \A j \in 0 .. n : kind[j] = "head" => rank[j] >= 1
      /\ \A j \in 1 .. n : Follows(kind[j], rank[j], ps[j], kind[j - 1], rank[j - 1], s)
  BY DEF Told
<1>2. /\ ps2 \in Seq(Payload) /\ Len(ps2) = n + 1 /\ ps2[n + 1] = x
      /\ \A j \in 1 .. n : ps2[j] = ps[j]
  OBVIOUS
<1>3. n \in Nat /\ a \in Nat /\ r \in 0 .. a /\ Follows(k, r, x, kind[n], rank[n], s)
  OBVIOUS
<1> HIDE DEF n, a, ps2
<1>4. /\ \A j \in 0 .. n + 1 : j = n + 1 \/ j \in 0 .. n
      /\ \A j \in 0 .. n : j \in 0 .. n + 1 /\ j # n + 1
      /\ 0 \in 0 .. n /\ n \in 0 .. n /\ n + 1 \in 0 .. n + 1
      /\ \A j \in 1 .. n : j \in 0 .. n /\ j - 1 \in 0 .. n
      /\ \A j \in 1 .. n + 1 : j = n + 1 \/ j \in 1 .. n
      /\ n + 1 - 1 = n
  BY <1>3
<1>5. /\ kind2 \in [0 .. n + 1 -> Kind] /\ kind2[n + 1] = k
      /\ \A j \in 0 .. n : kind2[j] = kind[j]
  BY <1>1, <1>4
<1>6. /\ rank2 \in [0 .. n + 1 -> 0 .. a] /\ rank2[n + 1] = r
      /\ \A j \in 0 .. n : rank2[j] = rank[j]
  BY <1>1, <1>3, <1>4
<1> HIDE DEF kind2, rank2
<1>7. rank[n] \in Nat /\ rank[n] <= r /\ (k = "head" => r >= 1)
  <2>1. rank[n] \in 0 .. a
    BY <1>1, <1>4
  <2>2. r = IF k = "head" THEN rank[n] + 1 ELSE rank[n]
    BY <1>3 DEF Follows
  <2> QED
    BY <1>3, <2>1, <2>2
<1>8. ASSUME NEW i \in 0 .. n + 1, NEW j \in 0 .. n + 1, i <= j PROVE rank2[i] <= rank2[j]
  <2>1. CASE i = n + 1
    <3>1. j = n + 1
      BY <1>3, <1>8, <2>1
    <3> QED
      BY <1>3, <1>6, <2>1, <3>1
  <2>2. CASE i # n + 1 /\ j = n + 1
    <3>1. i \in 0 .. n /\ n \in 0 .. n /\ i <= n
      BY <1>3, <1>4, <2>2
    <3>2. rank[i] \in 0 .. a /\ rank[i] <= rank[n] /\ rank2[i] = rank[i]
      BY <1>1, <1>6, <3>1
    <3> QED
      BY <1>3, <1>6, <1>7, <2>2, <3>2
  <2>3. CASE i # n + 1 /\ j # n + 1
    <3>1. i \in 0 .. n /\ j \in 0 .. n
      BY <1>4, <2>3
    <3> QED
      BY <1>1, <1>6, <1>8, <3>1
  <2> QED
    BY <2>1, <2>2, <2>3
<1>9. ASSUME NEW j \in 0 .. n + 1, kind2[j] = "head" PROVE rank2[j] >= 1
  BY <1>1, <1>4, <1>5, <1>6, <1>7, <1>9
<1>10. ASSUME NEW j \in 1 .. n + 1
       PROVE  Follows(kind2[j], rank2[j], ps2[j], kind2[j - 1], rank2[j - 1], s)
  <2>1. CASE j = n + 1
    <3>1. kind2[n] = kind[n] /\ rank2[n] = rank[n]
      BY <1>4, <1>5, <1>6
    <3>2. Follows(kind2[n + 1], rank2[n + 1], ps2[n + 1], kind2[n], rank2[n], s)
      BY <1>2, <1>3, <1>5, <1>6, <3>1
    <3> QED
      BY <1>4, <2>1, <3>2
  <2>2. CASE j # n + 1
    <3>1. j \in 1 .. n
      BY <1>4, <2>2
    <3>2. j \in 0 .. n /\ j - 1 \in 0 .. n
      BY <1>4, <3>1
    <3> QED
      BY <1>1, <1>2, <1>5, <1>6, <3>1, <3>2
  <2> QED
    BY <2>1, <2>2
<1>11. Told(ps2, kind2, rank2, s)
  BY <1>2, <1>5, <1>6, <1>8, <1>9, <1>10 DEF Told, a
<1> QED
  BY <1>4, <1>5, <1>6, <1>11 DEF ps2, n

(* The first payload is gone.                                              *)
LEMMA ToldPop ==
  ASSUME NEW ps \in Seq(Payload), NEW kind, NEW rank, NEW s, Told(ps, kind, rank, s), ps # <<>>
  PROVE  \E kind2, rank2 :
           /\ Told(Tail(ps), kind2, rank2, s)
           /\ kind2[0] = kind[1] /\ rank2[0] = rank[1]
           /\ kind2[Len(ps) - 1] = kind[Len(ps)] /\ rank2[Len(ps) - 1] = rank[Len(ps)]
<1> DEFINE n == Len(ps)
           a == Len(s)
           ps2 == Tail(ps)
           kind2 == [j \in 0 .. n - 1 |-> kind[j + 1]]
           rank2 == [j \in 0 .. n - 1 |-> rank[j + 1]]
<1>1. /\ kind \in [0 .. n -> Kind] /\ rank \in [0 .. n -> 0 .. a]
      /\ \A i, j \in 0 .. n : i <= j => rank[i] <= rank[j]
      /\ \A j \in 0 .. n : kind[j] = "head" => rank[j] >= 1
      /\ \A j \in 1 .. n : Follows(kind[j], rank[j], ps[j], kind[j - 1], rank[j - 1], s)
  BY DEF Told
<1>2. /\ ps2 \in Seq(Payload) /\ Len(ps2) = n - 1
      /\ \A j \in 1 .. n - 1 : ps2[j] = ps[j + 1]
  OBVIOUS
<1>3. n \in Nat /\ n >= 1
  OBVIOUS
<1> HIDE DEF n, a, ps2
<1>4. /\ \A j \in 0 .. n - 1 : j + 1 \in 0 .. n /\ j + 1 \in 1 .. n
      /\ \A j \in 1 .. n - 1 : j \in 0 .. n - 1 /\ j - 1 \in 0 .. n - 1
      /\ \A j \in 1 .. n - 1 : j + 1 - 1 = j /\ j - 1 + 1 = j
      /\ 0 \in 0 .. n - 1 /\ 0 + 1 = 1 /\ n - 1 \in 0 .. n - 1 /\ n - 1 + 1 = n
      /\ \A i, j \in 0 .. n - 1 : i <= j => i + 1 <= j + 1
  BY <1>3
<1>5. kind2 \in [0 .. n - 1 -> Kind] /\ \A j \in 0 .. n - 1 : kind2[j] = kind[j + 1]
  <2>1. \A j \in 0 .. n - 1 : kind[j + 1] \in Kind
    BY <1>1, <1>4
  <2> QED
    BY <2>1
<1>6. rank2 \in [0 .. n - 1 -> 0 .. a] /\ \A j \in 0 .. n - 1 : rank2[j] = rank[j + 1]
  <2>1. \A j \in 0 .. n - 1 : rank[j + 1] \in 0 .. a
    BY <1>1, <1>4
  <2> QED
    BY <2>1
<1> HIDE DEF kind2, rank2
<1>7. \A i, j \in 0 .. n - 1 : i <= j => rank2[i] <= rank2[j]
  BY <1>1, <1>4, <1>6
<1>8. \A j \in 0 .. n - 1 : kind2[j] = "head" => rank2[j] >= 1
  BY <1>1, <1>4, <1>5, <1>6
<1>9. ASSUME NEW j \in 1 .. n - 1
      PROVE  Follows(kind2[j], rank2[j], ps2[j], kind2[j - 1], rank2[j - 1], s)
  <2>1. j \in 0 .. n - 1 /\ j - 1 \in 0 .. n - 1 /\ j + 1 \in 1 .. n
        /\ j + 1 - 1 = j /\ j - 1 + 1 = j
    BY <1>4
  <2>2. /\ kind2[j] = kind[j + 1] /\ rank2[j] = rank[j + 1] /\ ps2[j] = ps[j + 1]
        /\ kind2[j - 1] = kind[j] /\ rank2[j - 1] = rank[j]
    BY <1>2, <1>5, <1>6, <2>1
  <2>3. Follows(kind[j + 1], rank[j + 1], ps[j + 1], kind[j], rank[j], s)
    BY <1>1, <2>1
  <2> QED
    BY <2>2, <2>3
<1>10. Told(ps2, kind2, rank2, s)
  BY <1>2, <1>5, <1>6, <1>7, <1>8, <1>9 DEF Told, a
<1>11. /\ kind2[0] = kind[1] /\ rank2[0] = rank[1]
       /\ kind2[n - 1] = kind[n] /\ rank2[n - 1] = rank[n]
  BY <1>4, <1>5, <1>6
<1> QED
  BY <1>10, <1>11 DEF ps2, n

(* The last payload is dropped.                                            *)
LEMMA ToldDrop ==
  ASSUME NEW ps \in Seq(Payload), NEW kind, NEW rank, NEW s, Told(ps, kind, rank, s), ps # <<>>
  PROVE  LET ps2 == SubSeq(ps, 1, Len(ps) - 1)
         IN  /\ ps2 \in Seq(Payload) /\ Len(ps2) = Len(ps) - 1
             /\ \A j \in 1 .. Len(ps) - 1 : ps2[j] = ps[j]
             /\ \E kind2, rank2 :
                  /\ Told(ps2, kind2, rank2, s)
                  /\ \A j \in 0 .. Len(ps) - 1 : kind2[j] = kind[j] /\ rank2[j] = rank[j]
<1> DEFINE n == Len(ps)
           a == Len(s)
           ps2 == SubSeq(ps, 1, Len(ps) - 1)
           kind2 == [j \in 0 .. n - 1 |-> kind[j]]
           rank2 == [j \in 0 .. n - 1 |-> rank[j]]
<1>1. /\ kind \in [0 .. n -> Kind] /\ rank \in [0 .. n -> 0 .. a]
      /\ \A i, j \in 0 .. n : i <= j => rank[i] <= rank[j]
      /\ \A j \in 0 .. n : kind[j] = "head" => rank[j] >= 1
      /\ \A j \in 1 .. n : Follows(kind[j], rank[j], ps[j], kind[j - 1], rank[j - 1], s)
  BY DEF Told
<1>2. n \in Nat /\ n >= 1
  OBVIOUS
<1>3. ps2 \in Seq(Payload) /\ Len(ps2) = n - 1 /\ \A j \in 1 .. n - 1 : ps2[j] = ps[j]
  BY FrontOfSeq
<1> HIDE DEF n, a, ps2
<1>4. /\ \A j \in 0 .. n - 1 : j \in 0 .. n
      /\ \A j \in 1 .. n - 1 : j \in 0 .. n - 1 /\ j - 1 \in 0 .. n - 1 /\ j \in 1 .. n
  BY <1>2
<1>5. kind2 \in [0 .. n - 1 -> Kind] /\ \A j \in 0 .. n - 1 : kind2[j] = kind[j]
  BY <1>1, <1>4
<1>6. rank2 \in [0 .. n - 1 -> 0 .. a] /\ \A j \in 0 .. n - 1 : rank2[j] = rank[j]
  BY <1>1, <1>4
<1> HIDE DEF kind2, rank2
<1>7. \A i, j \in 0 .. n - 1 : i <= j => rank2[i] <= rank2[j]
  BY <1>1, <1>4, <1>6
<1>8. \A j \in 0 .. n - 1 : kind2[j] = "head" => rank2[j] >= 1
  BY <1>1, <1>4, <1>5, <1>6
<1>9. \A j \in 1 .. n - 1 : Follows(kind2[j], rank2[j], ps2[j], kind2[j - 1], rank2[j - 1], s)
  BY <1>1, <1>3, <1>4, <1>5, <1>6
<1>10. Told(ps2, kind2, rank2, s)
  BY <1>3, <1>5, <1>6, <1>7, <1>8, <1>9 DEF Told, a
<1> QED
  BY <1>3, <1>5, <1>6, <1>10 DEF ps2, n

(* The first payload, of which bytes may have been read.                   *)
First(ps) == IF ps = <<>> THEN NoPayload ELSE ps[1]

(* Payloads lie in the wire w and in what is held, c bytes of the first    *)
(* having been read; the queue q begins with the rest of one if it is in   *)
(* part written.  Before them was a payload of kind k0, up to which r0     *)
(* messages began; the last is of kind k1, up to which r1 did.             *)
Carried(w, held, c, s, q, first, k0, r0, k1, r1) ==
  \E ps \in Seq(Payload) : \E start, m, off, kind, rank :
    /\ Laid(ps, start, m, off, w, held, c)
    /\ q = <<>> => off = 0
    /\ Told(ps, kind, rank, s)
    /\ first = First(ps)
    /\ kind[0] = k0 /\ rank[0] = r0
    /\ kind[Len(ps)] = k1 /\ rank[Len(ps)] = r1

-----------------------------------------------------------------------------
(* The first and the last payload, and what was before.                    *)
LEMMA CarriedEnds ==
  ASSUME NEW w \in Seq(Unit), NEW held \in Seq(Payload), NEW c, NEW s, NEW q, NEW first,
         NEW k0, NEW r0, NEW k1, NEW r1, Len(s) \in Nat,
         Carried(w, held, c, s, q, first, k0, r0, k1, r1)
  PROVE  /\ c \in Nat /\ k0 \in Kind /\ k1 \in Kind
         /\ r0 \in 0 .. Len(s) /\ r1 \in 0 .. Len(s) /\ r0 <= r1
         /\ (k0 = "head" => r0 >= 1) /\ (k1 = "head" => r1 >= 1)
         /\ held # <<>> => first # NoPayload
         /\ first = NoPayload => k0 = k1 /\ r0 = r1 /\ w = <<>> /\ c = 0
         /\ first # NoPayload =>
              /\ first \in Payload
              /\ \E k \in Kind, r \in 0 .. r1 : Follows(k, r, first, k0, r0, s)
              /\ \E k \in Kind, r \in r0 .. Len(s) : \E p : Follows(k1, r1, p, k, r, s)
              /\ \A i \in 1 .. Len(w) : c + i <= Len(first.b) => w[i] = UnitAt(first, c + i)
<1>1. PICK ps, start, m, off, kind, rank :
        /\ ps \in Seq(Payload)
        /\ Laid(ps, start, m, off, w, held, c)
        /\ Told(ps, kind, rank, s)
        /\ first = First(ps)
        /\ kind[0] = k0 /\ rank[0] = r0
        /\ kind[Len(ps)] = k1 /\ rank[Len(ps)] = r1
  BY DEF Carried
<1> ps \in Seq(Payload)
  BY <1>1
<1> DEFINE n == Len(ps)
<1>2. /\ c \in Nat /\ n \in Nat /\ m \in Nat /\ n = m + Len(held) /\ Len(held) \in Nat
      /\ Sizes(ps) \in [1 .. n -> Nat \ {0}]
      /\ \A j \in 1 .. n : ps[j] \in Payload /\ Sizes(ps)[j] = Len(ps[j].b)
  BY <1>1, LaidTypes
<1>3. /\ ps = <<>> => w = <<>> /\ c = 0
      /\ ps # <<>> => \A i \in 1 .. Len(w) :
           c + i <= Len(ps[1].b) => w[i] = UnitAt(ps[1], c + i)
  BY <1>1, LaidFirst
<1>4. /\ kind \in [0 .. n -> Kind] /\ rank \in [0 .. n -> 0 .. Len(s)]
      /\ \A i, j \in 0 .. n : i <= j => rank[i] <= rank[j]
      /\ \A j \in 0 .. n : kind[j] = "head" => rank[j] >= 1
      /\ \A j \in 1 .. n : Follows(kind[j], rank[j], ps[j], kind[j - 1], rank[j - 1], s)
  BY <1>1 DEF Told
<1>5. (ps = <<>> <=> n = 0) /\ (held # <<>> => n # 0)
  <2>1. held # <<>> => Len(held) # 0
    OBVIOUS
  <2> QED
    BY <1>2, <2>1
<1> HIDE DEF n
<1>6. /\ 0 \in 0 .. n /\ n \in 0 .. n /\ 0 <= n
      /\ n # 0 => 1 \in 1 .. n /\ 1 \in 0 .. n /\ 1 <= n /\ 1 - 1 = 0
                  /\ n \in 1 .. n /\ n - 1 \in 0 .. n /\ 0 <= n - 1
  BY <1>2
<1>7. /\ k0 \in Kind /\ k1 \in Kind /\ r0 \in 0 .. Len(s) /\ r1 \in 0 .. Len(s) /\ r0 <= r1
      /\ (k0 = "head" => r0 >= 1) /\ (k1 = "head" => r1 >= 1)
  BY <1>1, <1>4, <1>6 DEF n
<1>8. ASSUME n = 0
      PROVE  first = NoPayload /\ k0 = k1 /\ r0 = r1 /\ w = <<>> /\ c = 0
  BY <1>1, <1>3, <1>5, <1>8 DEF First, n
<1>9. ASSUME n # 0
      PROVE  /\ first # NoPayload /\ first \in Payload
             /\ \E k \in Kind, r \in 0 .. r1 : Follows(k, r, first, k0, r0, s)
             /\ \E k \in Kind, r \in r0 .. Len(s) : \E p : Follows(k1, r1, p, k, r, s)
             /\ \A i \in 1 .. Len(w) : c + i <= Len(first.b) => w[i] = UnitAt(first, c + i)
  <2>1. first = ps[1]
    BY <1>1, <1>5, <1>9 DEF First
  <2>2. first \in Payload /\ Len(first.b) # 0
    BY <1>2, <1>6, <1>9, <2>1
  <2>3. first # NoPayload
    BY <2>2 DEF NoPayload
  <2>4. Follows(kind[1], rank[1], first, k0, r0, s)
    BY <1>1, <1>4, <1>6, <1>9, <2>1
  <2>5. kind[1] \in Kind /\ rank[1] \in 0 .. r1
    <3>1. kind[1] \in Kind /\ rank[1] \in 0 .. Len(s) /\ rank[1] <= rank[n]
      BY <1>4, <1>6, <1>9
    <3> QED
      BY <1>1, <1>7, <3>1 DEF n
  <2>6. Follows(k1, r1, ps[n], kind[n - 1], rank[n - 1], s)
    BY <1>1, <1>4, <1>6, <1>9 DEF n
  <2>7. kind[n - 1] \in Kind /\ rank[n - 1] \in r0 .. Len(s)
    <3>1. kind[n - 1] \in Kind /\ rank[n - 1] \in 0 .. Len(s) /\ rank[0] <= rank[n - 1]
      BY <1>4, <1>6, <1>9
    <3> QED
      BY <1>1, <1>7, <3>1
  <2>8. \A i \in 1 .. Len(w) : c + i <= Len(first.b) => w[i] = UnitAt(first, c + i)
    BY <1>3, <1>5, <1>9, <2>1
  <2> QED
    BY <2>2, <2>3, <2>4, <2>5, <2>6, <2>7, <2>8
<1> QED
  BY <1>2, <1>5, <1>7, <1>8, <1>9

(* If the last payload is part of a message, and no meta-blob is due, a    *)
(* message begins on the line.                                             *)
LEMMA CarriedMessage ==
  ASSUME NEW w \in Seq(Unit), NEW held \in Seq(Payload), NEW c, NEW s, NEW q, NEW first,
         NEW k0, NEW r0, NEW k1, NEW r1, Len(s) \in Nat,
         Carried(w, held, c, s, q, first, k0, r0, k1, r1),
         first # NoPayload, k1 \in {"head", "blob"}, ~BlobDue(k0, r0, s)
  PROVE  r0 < r1
<1>1. PICK ps, start, m, off, kind, rank :
        /\ ps \in Seq(Payload)
        /\ Laid(ps, start, m, off, w, held, c)
        /\ Told(ps, kind, rank, s)
        /\ first = First(ps)
        /\ kind[0] = k0 /\ rank[0] = r0
        /\ kind[Len(ps)] = k1 /\ rank[Len(ps)] = r1
  BY DEF Carried
<1> ps \in Seq(Payload)
  BY <1>1
<1> DEFINE n == Len(ps)
<1>2. n \in Nat /\ n >= 1
  BY <1>1 DEF First
<1>3. /\ rank \in [0 .. n -> 0 .. Len(s)]
      /\ \A i, j \in 0 .. n : i <= j => rank[i] <= rank[j]
      /\ \A j \in 1 .. n : Follows(kind[j], rank[j], ps[j], kind[j - 1], rank[j - 1], s)
  BY <1>1 DEF Told
<1>4. kind[0] = k0 /\ rank[0] = r0 /\ kind[n] = k1 /\ rank[n] = r1
  BY <1>1
<1> HIDE DEF n
<1>5. \A j \in 0 .. n : rank[j] \in Nat
  BY <1>3
<1>6. 0 \in 0 .. n /\ n - 1 \in 0 .. n /\ 0 <= n - 1 /\ n \in 0 .. n /\ n \in 1 .. n /\ n - 1 <= n
  BY <1>2
<1>7. CASE k1 = "head"
  <2>1. rank[n] = rank[n - 1] + 1
    BY <1>3, <1>4, <1>6, <1>7 DEF Follows
  <2>2. rank[0] <= rank[n - 1]
    BY <1>3, <1>6
  <2> QED
    BY <1>4, <1>5, <1>6, <2>1, <2>2
<1>8. CASE k1 = "blob"
  <2>1. BlobDue(kind[n - 1], rank[n - 1], s)
    BY <1>3, <1>4, <1>6, <1>8 DEF Follows
  <2>2. n - 1 # 0
    BY <1>4, <2>1
  <2>3. /\ n - 1 \in 1 .. n /\ n - 1 - 1 \in 0 .. n /\ 0 <= n - 1 - 1
    BY <1>2, <2>2
  <2>4. rank[n - 1] = rank[n - 1 - 1] + 1
    BY <1>3, <2>1, <2>3 DEF Follows, BlobDue
  <2>5. rank[0] <= rank[n - 1 - 1] /\ rank[n - 1] <= rank[n]
    BY <1>3, <1>6, <2>3
  <2> QED
    BY <1>4, <1>5, <1>6, <2>3, <2>4, <2>5
<1> QED
  BY <1>7, <1>8

(* The history grows.                                                      *)
LEMMA CarriedHistory ==
  ASSUME NEW w, NEW held, NEW c, NEW s, NEW s2, NEW q, NEW first,
         NEW k0, NEW r0, NEW k1, NEW r1,
         Carried(w, held, c, s, q, first, k0, r0, k1, r1),
         Len(s) \in Nat, Len(s2) \in Nat, Len(s) <= Len(s2),
         \A i \in 1 .. Len(s) : s2[i] = s[i]
  PROVE  Carried(w, held, c, s2, q, first, k0, r0, k1, r1)
<1>1. PICK ps, start, m, off, kind, rank :
        /\ ps \in Seq(Payload)
        /\ Laid(ps, start, m, off, w, held, c)
        /\ q = <<>> => off = 0
        /\ Told(ps, kind, rank, s)
        /\ first = First(ps)
        /\ kind[0] = k0 /\ rank[0] = r0
        /\ kind[Len(ps)] = k1 /\ rank[Len(ps)] = r1
  BY DEF Carried
<1> ps \in Seq(Payload)
  BY <1>1
<1>2. Len(ps) \in Nat
  OBVIOUS
<1>3. Told(ps, kind, rank, s2)
  BY <1>1, <1>2, ToldHistory
<1> QED
  BY <1>1, <1>3 DEF Carried

(* Nothing queued any more, if nothing was.                                *)
LEMMA CarriedQueue ==
  ASSUME NEW w, NEW held, NEW c, NEW s, NEW q, NEW q2, NEW first,
         NEW k0, NEW r0, NEW k1, NEW r1,
         Carried(w, held, c, s, q, first, k0, r0, k1, r1), q2 = <<>> => q = <<>>
  PROVE  Carried(w, held, c, s, q2, first, k0, r0, k1, r1)
BY DEF Carried

(* The sender has one more payload.                                        *)
LEMMA CarriedAppend ==
  ASSUME NEW w \in Seq(Unit), NEW held \in Seq(Payload), NEW c, NEW s, NEW q, NEW first,
         NEW k0, NEW r0, NEW k1, NEW r1,
         Carried(w, held, c, s, q, first, k0, r0, k1, r1),
         Len(s) \in Nat, NEW x \in Payload, x.b # <<>>, NEW k \in Kind, NEW r \in 0 .. Len(s),
         Follows(k, r, x, k1, r1, s)
  PROVE  \E first2 : /\ Carried(w, Append(held, x), c, s, q, first2, k0, r0, k, r)
                     /\ first # NoPayload => first2 = first
<1>1. PICK ps, start, m, off, kind, rank :
        /\ ps \in Seq(Payload)
        /\ Laid(ps, start, m, off, w, held, c)
        /\ q = <<>> => off = 0
        /\ Told(ps, kind, rank, s)
        /\ first = First(ps)
        /\ kind[0] = k0 /\ rank[0] = r0
        /\ kind[Len(ps)] = k1 /\ rank[Len(ps)] = r1
  BY DEF Carried
<1> ps \in Seq(Payload)
  BY <1>1
<1> DEFINE ps2 == Append(ps, x)
<1>2. PICK start2 : Laid(ps2, start2, m, off, w, Append(held, x), c)
  BY <1>1, LaidAppend
<1>3. PICK kind2, rank2 :
        /\ Told(ps2, kind2, rank2, s)
        /\ kind2[Len(ps) + 1] = k /\ rank2[Len(ps) + 1] = r
        /\ kind2[0] = kind[0] /\ rank2[0] = rank[0]
  BY <1>1, ToldAppend
<1>4. ps2 \in Seq(Payload) /\ Len(ps2) = Len(ps) + 1 /\ ps2 # <<>> /\ (ps # <<>> => ps2[1] = ps[1])
  OBVIOUS
<1>5. first # NoPayload => First(ps2) = first
  BY <1>1, <1>4 DEF First
<1> HIDE DEF ps2
<1>6. Carried(w, Append(held, x), c, s, q, First(ps2), k0, r0, k, r)
  BY <1>1, <1>2, <1>3, <1>4 DEF Carried
<1> QED
  BY <1>5, <1>6

(* n bytes of the first payload that is held are written.                  *)
LEMMA CarriedWrite ==
  ASSUME NEW w \in Seq(Unit), NEW held \in Seq(Payload), NEW c, NEW s, NEW q, NEW first,
         NEW k0, NEW r0, NEW k1, NEW r1,
         Carried(w, held, c, s, q, first, k0, r0, k1, r1),
         held # <<>>, NEW n \in 0 .. Len(held[1].b),
         NEW q2, n = Len(held[1].b) \/ q2 # <<>>
  PROVE  Carried(w \o UnitsOf(held[1], n), HeldAfter(held, n), c, s, q2, first, k0, r0, k1, r1)
<1>1. PICK ps, start, m, off, kind, rank :
        /\ ps \in Seq(Payload)
        /\ Laid(ps, start, m, off, w, held, c)
        /\ q = <<>> => off = 0
        /\ Told(ps, kind, rank, s)
        /\ first = First(ps)
        /\ kind[0] = k0 /\ rank[0] = r0
        /\ kind[Len(ps)] = k1 /\ rank[Len(ps)] = r1
  BY DEF Carried
<1> ps \in Seq(Payload)
  BY <1>1
<1>2. PICK m2, off2 :
        /\ Laid(ps, start, m2, off2, w \o UnitsOf(held[1], n), HeldAfter(held, n), c)
        /\ n = Len(held[1].b) => off2 = 0
  BY <1>1, LaidWrite
<1>3. q2 = <<>> => off2 = 0
  BY <1>2
<1> QED
  BY <1>1, <1>2, <1>3 DEF Carried

(* n bytes are read.                                                       *)
LEMMA CarriedRead ==
  ASSUME NEW w \in Seq(Unit), NEW held \in Seq(Payload), NEW c, NEW s, NEW q, NEW first,
         NEW k0, NEW r0, NEW k1, NEW r1,
         Carried(w, held, c, s, q, first, k0, r0, k1, r1), NEW n \in 0 .. Len(w)
  PROVE  Carried(SubSeq(w, n + 1, Len(w)), held, c + n, s, q, first, k0, r0, k1, r1)
<1>1. PICK ps, start, m, off, kind, rank :
        /\ ps \in Seq(Payload)
        /\ Laid(ps, start, m, off, w, held, c)
        /\ q = <<>> => off = 0
        /\ Told(ps, kind, rank, s)
        /\ first = First(ps)
        /\ kind[0] = k0 /\ rank[0] = r0
        /\ kind[Len(ps)] = k1 /\ rank[Len(ps)] = r1
  BY DEF Carried
<1> ps \in Seq(Payload)
  BY <1>1
<1>2. PICK start2 : Laid(ps, start2, m, off, SubSeq(w, n + 1, Len(w)), held, c + n)
  BY <1>1, LaidRead
<1> QED
  BY <1>1, <1>2 DEF Carried

(* The first payload was read whole.                                       *)
LEMMA CarriedPop ==
  ASSUME NEW w \in Seq(Unit), NEW held \in Seq(Payload), NEW c, NEW s, NEW q, NEW first,
         NEW k0, NEW r0, NEW k1, NEW r1,
         Carried(w, held, c, s, q, first, k0, r0, k1, r1), first # NoPayload, c = Len(first.b)
  PROVE  \E first2, k, r : /\ Carried(w, held, 0, s, q, first2, k, r, k1, r1)
                           /\ Follows(k, r, first, k0, r0, s)
<1>1. PICK ps, start, m, off, kind, rank :
        /\ ps \in Seq(Payload)
        /\ Laid(ps, start, m, off, w, held, c)
        /\ q = <<>> => off = 0
        /\ Told(ps, kind, rank, s)
        /\ first = First(ps)
        /\ kind[0] = k0 /\ rank[0] = r0
        /\ kind[Len(ps)] = k1 /\ rank[Len(ps)] = r1
  BY DEF Carried
<1> ps \in Seq(Payload)
  BY <1>1
<1>2. ps # <<>> /\ first = ps[1]
  BY <1>1 DEF First
<1>3. PICK start2 : Laid(Tail(ps), start2, m - 1, off, w, held, 0)
  BY <1>1, <1>2, LaidPop
<1>4. PICK kind2, rank2 :
        /\ Told(Tail(ps), kind2, rank2, s)
        /\ kind2[0] = kind[1] /\ rank2[0] = rank[1]
        /\ kind2[Len(ps) - 1] = kind[Len(ps)] /\ rank2[Len(ps) - 1] = rank[Len(ps)]
  BY <1>1, <1>2, ToldPop
<1>5. Tail(ps) \in Seq(Payload) /\ Len(Tail(ps)) = Len(ps) - 1 /\ 1 \in 1 .. Len(ps)
  BY <1>2
<1>6. Carried(w, held, 0, s, q, First(Tail(ps)), kind[1], rank[1], k1, r1)
  BY <1>1, <1>3, <1>4, <1>5 DEF Carried
<1>7. Follows(kind[1], rank[1], ps[1], kind[1 - 1], rank[1 - 1], s)
  BY <1>1, <1>5 DEF Told
<1>8. Follows(kind[1], rank[1], first, k0, r0, s)
  BY <1>1, <1>2, <1>7
<1> QED
  BY <1>6, <1>8

(* The last payload, not begun, is dropped.                                *)
LEMMA CarriedDrop ==
  ASSUME NEW w \in Seq(Unit), NEW held \in Seq(Payload), NEW x \in Payload, NEW c, NEW s,
         NEW q, NEW first, NEW k0, NEW r0, NEW k1, NEW r1,
         Carried(w, Append(held, x), c, s, q, first, k0, r0, k1, r1),
         held = <<>> => q = <<>>
  PROVE  \E first2, k, r, p : /\ Carried(w, held, c, s, q, first2, k0, r0, k, r)
                              /\ Follows(k1, r1, p, k, r, s)
                              /\ first2 = first \/ (first2 = NoPayload /\ c = 0 /\ k = k0 /\ r = r0)
<1>1. PICK ps, start, m, off, kind, rank :
        /\ ps \in Seq(Payload)
        /\ Laid(ps, start, m, off, w, Append(held, x), c)
        /\ q = <<>> => off = 0
        /\ Told(ps, kind, rank, s)
        /\ first = First(ps)
        /\ kind[0] = k0 /\ rank[0] = r0
        /\ kind[Len(ps)] = k1 /\ rank[Len(ps)] = r1
  BY DEF Carried
<1> ps \in Seq(Payload)
  BY <1>1
<1> DEFINE n == Len(ps)
           ps2 == SubSeq(ps, 1, n - 1)
<1>2. n \in Nat /\ n >= 1
  <2> DEFINE held2 == Append(held, x)
  <2>1. held2 \in Seq(Payload) /\ Len(held2) = Len(held) + 1 /\ Len(held) \in Nat
    OBVIOUS
  <2>2. Laid(ps, start, m, off, w, held2, c)
    BY <1>1
  <2> HIDE DEF held2
  <2>3. m \in Nat /\ n = m + Len(held2)
    BY <2>1, <2>2, LaidTypes
  <2> QED
    BY <2>1, <2>3
<1>3. ps # <<>>
  BY <1>2
<1>4. PICK start2 : Laid(ps2, start2, m, off, w, held, c)
  BY <1>1, LaidDrop
<1>5. /\ ps2 \in Seq(Payload) /\ Len(ps2) = n - 1
      /\ \A j \in 1 .. n - 1 : ps2[j] = ps[j]
      /\ \E kind2, rank2 :
           /\ Told(ps2, kind2, rank2, s)
           /\ \A j \in 0 .. n - 1 : kind2[j] = kind[j] /\ rank2[j] = rank[j]
  BY <1>1, <1>3, ToldDrop
<1>6. PICK kind2, rank2 :
        /\ Told(ps2, kind2, rank2, s)
        /\ \A j \in 0 .. n - 1 : kind2[j] = kind[j] /\ rank2[j] = rank[j]
  BY <1>5
<1>7. Follows(kind[n], rank[n], ps[n], kind[n - 1], rank[n - 1], s)
  BY <1>1, <1>2 DEF Told
<1> HIDE DEF n, ps2
<1>8. 0 \in 0 .. n - 1 /\ n - 1 \in 0 .. n - 1 /\ (n - 1 # 0 => 1 \in 1 .. n - 1)
  BY <1>2
<1>9. Carried(w, held, c, s, q, First(ps2), k0, r0, kind[n - 1], rank[n - 1])
  <2>1. /\ ps2 \in Seq(Payload) /\ (q = <<>> => off = 0)
        /\ kind2[0] = k0 /\ rank2[0] = r0
        /\ kind2[Len(ps2)] = kind[n - 1] /\ rank2[Len(ps2)] = rank[n - 1]
    BY <1>1, <1>5, <1>6, <1>8
  <2>2. Laid(ps2, start2, m, off, w, held, c) /\ Told(ps2, kind2, rank2, s)
    BY <1>4, <1>6
  <2> HIDE DEF Laid, Told
  <2> QED
    BY <2>1, <2>2 DEF Carried
<1>10. \/ First(ps2) = first
       \/ First(ps2) = NoPayload /\ c = 0 /\ kind[n - 1] = k0 /\ rank[n - 1] = r0
  <2>1. CASE n - 1 = 0
    <3>1. ps2 = <<>>
      BY <1>5, <2>1
    <3>2. ps2 \in Seq(Payload)
      BY <1>5
    <3>3. /\ ps2 = <<>> => w = <<>> /\ c = 0
          /\ ps2 # <<>> => \A i \in 1 .. Len(w) :
               c + i <= Len(ps2[1].b) => w[i] = UnitAt(ps2[1], c + i)
      BY <1>4, <3>2, LaidFirst
    <3> QED
      BY <1>1, <2>1, <3>1, <3>3 DEF First
  <2>2. CASE n - 1 # 0
    <3>1. ps2 # <<>> /\ ps2[1] = ps[1]
      BY <1>5, <1>8, <2>2
    <3> QED
      BY <1>1, <1>3, <3>1 DEF First
  <2> QED
    BY <2>1, <2>2
<1>11. Follows(k1, r1, ps[n], kind[n - 1], rank[n - 1], s)
  BY <1>1, <1>7 DEF n
<1> QED
  BY <1>9, <1>10, <1>11

(* A length is read as it was written.                                     *)
LEMMA LengthRead ==
  ASSUME NEW n \in Nat
  PROVE  /\ Len(MetaLengthBytes(n)) = SizeofMetaLength
         /\ MetaLength(MetaLengthBytes(n)) = n
<1>1. Base \in Nat /\ Base > 0
  BY BaseAssumption
<1>2. (n % Base) + Base * (n \div Base) = n
  BY <1>1
<1> QED
  BY <1>2 DEF MetaLengthBytes, MetaLength, SizeofMetaLength

-----------------------------------------------------------------------------
(* The invariant.                                                          *)

(* What the sender has yet to write: the queue, and what its call has not  *)
(* queued.                                                                 *)
InCall == IF sndPc = "write" THEN <<sndCur>> \o sndRest ELSE sndRest
Held == sndQ \o InCall

(* The receiver is in the middle of payload 1, or of payload 2.            *)
InHead == rcvPc = "head" \/ (AtRest /\ rcvMsgState = "HEAD_PAYLOAD")
InBlob == AtRest /\ rcvMsgState = "META_BLOB_PAYLOAD"
Consumed == IF InHead THEN Len(rcvMeta) ELSE IF InBlob THEN Len(rcvBlob) ELSE 0

(* Messages of which payload 1 was read.                                   *)
Taken == IF InBlob \/ rcvPc = "done" THEN Len(got) + 1 ELSE Len(got)
GivenHandle == IF rcvTakesHandle THEN rcvHandle ELSE NoHandle

(* The receiver may still be given something.                              *)
Reads == rcvOpen /\ rcvErr = RcvNoError

(* A ping is to be written now or never; part of a message is held.        *)
Pinging == sndPc = "write" /\ sndOp \in PingOps
Unsent == sndOp = "send" /\ (sndPc \in {"write", "wait"} \/ sndRest # <<>>)

(* All that was sent is under way or was read, the end of sending last.    *)
SenderEnd(k, r) ==
  /\ r = Len(sent) /\ ~BlobDue(k, r, sent)
  /\ k = "close" => sndFinished
  /\ k = "nothing" <=> ~sndStarted
  /\ Pinging => k = "ping"
  /\ Unsent => k \in {"head", "blob"}

(* The receiver knows which payload comes first, and what was before it.   *)
ReaderEnd(first, k, r) ==
  /\ k = "nothing" <=> Negotiating
  /\ InBlob <=> BlobDue(k, r, sent)
  /\ r = Taken
  /\ InHead =>
       /\ first # NoPayload /\ Len(rcvMeta) >= 1
       /\ \A i \in 1 .. Len(rcvMeta) : rcvMeta[i] = first.b[i]
       /\ ~Negotiating => GivenHandle = first.h

LineControl ==
  Reads =>
    \E first, k0, r0, k1, r1 :
      /\ Carried(wire, Held, Consumed, sent, sndQ, first, k0, r0, k1, r1)
      /\ SenderEnd(k1, r1) /\ ReaderEnd(first, k0, r0)

(* The message that is read is the next one.                               *)
MessageControl ==
  Reads =>
    LET next == sent[Len(got) + 1]
    IN  /\ InBlob =>
             /\ Len(rcvBlob) + rcvLeft = Len(next.b)
             /\ \A i \in 1 .. Len(rcvBlob) : rcvBlob[i] = next.b[i]
             /\ GivenHandle = next.h
        /\ rcvPc = "done" => [h |-> GivenHandle, b |-> rcvBlob] = next

(* Only a send call leaves payloads for later steps; a socket fails only   *)
(* after the other endpoint is closed.                                     *)
CallControl ==
  /\ sndOp # "send" => sndRest = <<>>
  /\ sndPc = "flush" => sndOp = "flush"
  /\ sndErr # SndNoError \/ ~sndSock => ~rcvOpen
  /\ ~rcvSock \/ rcvErr \in {"SYS_ERROR", "LOW_LVL_TRANSPORT_HOSED_CANNOT_RECEIVE"} => ~sndOpen
  /\ rcvPc = "idle" /\ ~rcvPending => rcvMsgState = "MSG_START"

(* A message is not received while its call may still withdraw it.         *)
OwnMessageAhead ==
  sndOp = "send" /\ (Unsent \/ sndErr # SndNoError) => Len(got) < Len(sent)

HistoryControl ==
  /\ got \in Seq(Message)
  /\ \A i \in 1 .. Len(sent) : Len(sent[i].b) <= S_MAX_META_BLOB_LENGTH
  /\ rcvErr \notin NegotiationErrors
  /\ Abstract!ReceivedIsPrefixOfSent

EndsInv == SndInv /\ RcvInv
TransferInv ==
  CallControl /\ LineControl /\ MessageControl /\ OwnMessageAhead /\ HistoryControl

-----------------------------------------------------------------------------
(* What the sender does to the line.                                       *)

(* What the sender holds is a sequence of payloads.                        *)
LEMMA HeldType == SndTypeOK => InCall \in Seq(Payload) /\ Held \in Seq(Payload)
<1> SUFFICES ASSUME SndTypeOK PROVE InCall \in Seq(Payload) /\ Held \in Seq(Payload)
  OBVIOUS
<1>1. sndQ \in Seq(Payload) /\ sndCur \in Payload /\ sndRest \in Seq(Payload)
  BY DEF SndTypeOK, SndCallTypeOK
<1>2. <<sndCur>> \in Seq(Payload)
  BY <1>1
<1>3. <<sndCur>> \o sndRest \in Seq(Payload)
  BY <1>1, <1>2, ConcatProperties
<1>4. InCall \in Seq(Payload)
  BY <1>1, <1>3 DEF InCall
<1> QED
  BY <1>1, <1>4, ConcatProperties DEF Held

(* The receiver notices nothing of it.                                     *)
LEMMA ReaderEndStays ==
  ASSUME NEW first, NEW first2, NEW k, NEW r, ReaderEnd(first, k, r), UNCHANGED rcvVars,
         k = "head" => r \in 1 .. Len(sent), \A i \in 1 .. Len(sent) : sent'[i] = sent[i],
         InHead => first2 = first
  PROVE  ReaderEnd(first2, k, r)' /\ Consumed' = Consumed
<1>1. UNCHANGED <<rcvPc, rcvMsgState, rcvMeta, rcvBlob, got, rcvTakesHandle, rcvHandle, rcvVer>>
  BY DEF rcvVars, rcvReqVars, rcvDataVars, rcvReadVars, rcvHistVars
<1>2. /\ InHead' = InHead /\ InBlob' = InBlob /\ Consumed' = Consumed /\ Taken' = Taken
      /\ GivenHandle' = GivenHandle /\ Negotiating' = Negotiating
  BY <1>1 DEF InHead, InBlob, Consumed, Taken, GivenHandle, Negotiating, AtRest
<1>3. BlobDue(k, r, sent') <=> BlobDue(k, r, sent)
  BY DEF BlobDue
<1>4. ReaderEnd(first2, k, r)'
  <2>1. /\ k = "nothing" <=> Negotiating'
        /\ InBlob' <=> BlobDue(k, r, sent')
        /\ r = Taken'
    BY <1>2, <1>3 DEF ReaderEnd
  <2>2. InHead' => /\ first2 # NoPayload /\ Len(rcvMeta') >= 1
                   /\ \A i \in 1 .. Len(rcvMeta') : rcvMeta'[i] = first2.b[i]
                   /\ ~Negotiating' => GivenHandle' = first2.h
    BY <1>1, <1>2 DEF ReaderEnd
  <2> QED
    BY <2>1, <2>2 DEF ReaderEnd
<1> QED
  BY <1>2, <1>4

(* A line that the sender changed.                                         *)
LEMMA SenderLine ==
  ASSUME SndTypeOK, UNCHANGED rcvVars, NEW first, NEW first2, NEW k0, NEW r0, NEW k1, NEW r1,
         ReaderEnd(first, k0, r0), k0 = "head" => r0 \in 1 .. Len(sent),
         \A i \in 1 .. Len(sent) : sent'[i] = sent[i],
         first # NoPayload => first2 = first,
         Carried(wire', Held', Consumed, sent', sndQ', first2, k0, r0, k1, r1),
         SenderEnd(k1, r1)'
  PROVE  LineControl'
<1>1. InHead => first2 = first
  BY DEF ReaderEnd
<1>2. ReaderEnd(first2, k0, r0)' /\ Consumed' = Consumed
  BY <1>1, ReaderEndStays
<1>3. Carried(wire', Held', Consumed', sent', sndQ', first2, k0, r0, k1, r1)
  BY <1>2
<1> QED
  BY <1>2, <1>3 DEF LineControl

(* What every sender step starts from.                                     *)
LEMMA SenderStarts ==
  ASSUME SndTypeOK, LineControl, UNCHANGED rcvVars, UNCHANGED rcvOpen, Reads'
  PROVE  /\ wire \in Seq(Unit) /\ Held \in Seq(Payload) /\ sent \in Seq(Message)
         /\ Len(sent) \in Nat /\ sndQ \in Seq(Payload)
         /\ \E first, k0, r0, k1, r1 :
              /\ Carried(wire, Held, Consumed, sent, sndQ, first, k0, r0, k1, r1)
              /\ SenderEnd(k1, r1) /\ ReaderEnd(first, k0, r0)
              /\ k0 = "head" => r0 \in 1 .. Len(sent)
<1>1. /\ wire \in Seq(Unit) /\ Held \in Seq(Payload) /\ sent \in Seq(Message)
      /\ Len(sent) \in Nat /\ sndQ \in Seq(Payload)
  BY HeldType DEF SndTypeOK, WireTypeOK
<1>2. Reads
  BY DEF Reads, rcvVars
<1>3. PICK first, k0, r0, k1, r1 :
        /\ Carried(wire, Held, Consumed, sent, sndQ, first, k0, r0, k1, r1)
        /\ SenderEnd(k1, r1) /\ ReaderEnd(first, k0, r0)
  BY <1>2 DEF LineControl
<1>4. r0 \in 0 .. Len(sent) /\ (k0 = "head" => r0 >= 1)
  BY <1>1, <1>3, CarriedEnds
<1>5. k0 = "head" => r0 \in 1 .. Len(sent)
  BY <1>1, <1>4
<1> QED
  BY <1>1, <1>3, <1>5

(* Nothing moves.                                                          *)
LEMMA LineStays ==
  ASSUME SndTypeOK, LineControl, UNCHANGED rcvVars, UNCHANGED <<wire, rcvOpen, sent, sndStarted>>,
         Held' = Held, sndQ' = <<>> => sndQ = <<>>, sndFinished => sndFinished',
         Pinging' => Pinging, Unsent' => Unsent
  PROVE  LineControl'
<1> SUFFICES ASSUME Reads' PROVE LineControl'
  BY DEF LineControl
<1>1. PICK first, k0, r0, k1, r1 :
        /\ Carried(wire, Held, Consumed, sent, sndQ, first, k0, r0, k1, r1)
        /\ SenderEnd(k1, r1) /\ ReaderEnd(first, k0, r0)
        /\ k0 = "head" => r0 \in 1 .. Len(sent)
  BY SenderStarts
<1>2. Carried(wire, Held, Consumed, sent, sndQ', first, k0, r0, k1, r1)
  BY <1>1, CarriedQueue
<1>3. Carried(wire', Held', Consumed, sent', sndQ', first, k0, r0, k1, r1)
  BY <1>2
<1>4. SenderEnd(k1, r1)'
  BY <1>1 DEF SenderEnd, BlobDue
<1> QED
  BY <1>1, <1>3, <1>4, SenderLine

(* A payload that is no part of a message is added.                        *)
LEMMA LineGetsControl ==
  ASSUME SndTypeOK, LineControl, UNCHANGED rcvVars, UNCHANGED <<wire, rcvOpen, sent, sndQ>>,
         NEW k \in {"version", "ping", "close"}, NEW x \in Payload, x.b # <<>>,
         x = PayloadOf(k, sent[Len(sent)]), Held' = Append(Held, x), ~sndFinished,
         k = "version" <=> ~sndStarted, sndStarted', k = "close" => sndFinished',
         Pinging' => k = "ping", ~Unsent'
  PROVE  LineControl'
<1> SUFFICES ASSUME Reads' PROVE LineControl'
  BY DEF LineControl
<1>1. PICK first, k0, r0, k1, r1 :
        /\ Carried(wire, Held, Consumed, sent, sndQ, first, k0, r0, k1, r1)
        /\ SenderEnd(k1, r1) /\ ReaderEnd(first, k0, r0)
        /\ k0 = "head" => r0 \in 1 .. Len(sent)
  BY SenderStarts
<1>2. wire \in Seq(Unit) /\ Held \in Seq(Payload) /\ Len(sent) \in Nat
  BY SenderStarts
<1>3. r1 = Len(sent) /\ r1 \in 0 .. Len(sent) /\ k \in Kind
  BY <1>1, <1>2 DEF SenderEnd, Kind
<1>4. Follows(k, r1, x, k1, r1, sent)
  BY <1>1, <1>3 DEF SenderEnd, Follows
<1>5. PICK first2 : /\ Carried(wire, Append(Held, x), Consumed, sent, sndQ, first2, k0, r0, k, r1)
                    /\ first # NoPayload => first2 = first
  BY <1>1, <1>2, <1>3, <1>4, CarriedAppend
<1>6. Carried(wire', Held', Consumed, sent', sndQ', first2, k0, r0, k, r1)
  BY <1>5
<1>7. SenderEnd(k, r1)'
  BY <1>3 DEF SenderEnd, BlobDue
<1> QED
  BY <1>1, <1>5, <1>6, <1>7, SenderLine

(* A message is added: one payload, or two.                                *)
LEMMA LineGetsMessage ==
  ASSUME SndTypeOK, LineControl, UNCHANGED rcvVars, UNCHANGED <<wire, rcvOpen, sndQ, sndStarted>>,
         NEW m \in Message, Len(m.b) <= S_MAX_META_BLOB_LENGTH,
         NEW s2 \in Seq(Message), s2 = sent', Len(s2) = Len(sent) + 1, s2[Len(sent) + 1] = m,
         \A i \in 1 .. Len(sent) : s2[i] = sent[i],
         Held' = IF m.b = <<>> THEN Append(Held, HeadPayload(m.h, Len(m.b)))
                 ELSE Append(Append(Held, HeadPayload(m.h, Len(m.b))), [h |-> NoHandle, b |-> m.b]),
         ~sndFinished, sndStarted, ~Pinging'
  PROVE  LineControl'
<1> SUFFICES ASSUME Reads' PROVE LineControl'
  BY DEF LineControl
<1>1. PICK first, k0, r0, k1, r1 :
        /\ Carried(wire, Held, Consumed, sent, sndQ, first, k0, r0, k1, r1)
        /\ SenderEnd(k1, r1) /\ ReaderEnd(first, k0, r0)
        /\ k0 = "head" => r0 \in 1 .. Len(sent)
  BY SenderStarts
<1>2. wire \in Seq(Unit) /\ Held \in Seq(Payload) /\ sent \in Seq(Message) /\ Len(sent) \in Nat
  BY SenderStarts
<1> DEFINE head == HeadPayload(m.h, Len(m.b))
           blob == [h |-> NoHandle, b |-> m.b]
           k == "head"
           k2 == "blob"
<1>0. PICK r : r = Len(sent) + 1
  OBVIOUS
<1>3. /\ Len(s2) = r /\ s2[r] = m
      /\ \A i \in 1 .. Len(sent) : s2[i] = sent[i]
  BY <1>0, <1>2
<1>4. head \in Payload /\ head.b # <<>> /\ blob \in Payload
  <2>1. m \in Payload /\ m.h \in HandleOrNull /\ m.b \in Blob
    BY MessageAssumption DEF Payload
  <2>2. Len(m.b) \in Nat
    BY <2>1 DEF Blob
  <2>3. Len(m.b) \in 0 .. S_MAX_META_BLOB_LENGTH
    BY <2>2, SpecialLengths DEF S_MAX_META_BLOB_LENGTH
  <2>4. head \in Payload
    BY <2>1, <2>3, HeadPayloadType, SpecialLengths
  <2>6. head.b # <<>>
    <3>1. head.b = <<Len(m.b) % Base, Len(m.b) \div Base>>
      BY DEF HeadPayload, MetaLengthBytes
    <3> QED
      BY <3>1
  <2>7. blob \in Payload
    BY <2>1 DEF Payload, HandleOrNull
  <2> QED
    BY <2>4, <2>6, <2>7
<1>5. /\ r1 = Len(sent) /\ ~BlobDue(k1, r1, sent) /\ k1 # "close" /\ k1 # "nothing"
  BY <1>1 DEF SenderEnd
<1>6. k1 \in Kind /\ (k1 = "head" => r1 >= 1)
  BY <1>1, <1>2, CarriedEnds
<1>7. Len(sent) <= Len(s2)
  BY <1>2, <1>3
<1>8. Carried(wire, Held, Consumed, s2, sndQ, first, k0, r0, k1, r1)
  BY <1>1, <1>2, <1>3, <1>7, CarriedHistory
<1>9. /\ r1 \in 0 .. Len(s2) /\ r \in 0 .. Len(s2) /\ r = r1 + 1 /\ Len(s2) \in Nat
      /\ k \in Kind /\ k2 \in Kind
  BY <1>0, <1>2, <1>3, <1>5 DEF Kind
<1>10. BlobDue(k1, r1, s2) <=> BlobDue(k1, r1, sent)
  <2>1. k1 = "head" => r1 \in 1 .. Len(sent)
    BY <1>2, <1>5, <1>6
  <2> QED
    BY <1>3, <2>1 DEF BlobDue
<1>11. Follows(k, r, head, k1, r1, s2)
  <2>1. head = PayloadOf(k, s2[r])
    BY <1>3 DEF PayloadOf
  <2> QED
    BY <1>5, <1>9, <1>10, <2>1 DEF Follows
<1> HIDE DEF head, blob, k, k2
<1>12. PICK first2 : /\ Carried(wire, Append(Held, head), Consumed, s2, sndQ, first2, k0, r0, k, r)
                     /\ first # NoPayload => first2 = first
  BY <1>2, <1>4, <1>8, <1>9, <1>11, CarriedAppend
<1>13. CASE m.b = <<>>
  <2>1. Held' = Append(Held, head)
    BY <1>13 DEF head
  <2>2. Carried(wire', Held', Consumed, sent', sndQ', first2, k0, r0, k, r)
    BY <1>12, <2>1
  <2>3. SenderEnd(k, r)'
    BY <1>3, <1>13 DEF SenderEnd, BlobDue, k
  <2> QED
    BY <1>1, <1>3, <1>12, <2>2, <2>3, SenderLine
<1>14. CASE m.b # <<>>
  <2> DEFINE held2 == Append(Held, head)
  <2>1. held2 \in Seq(Payload) /\ Held' = Append(held2, blob) /\ blob.b # <<>>
    <3>1. held2 \in Seq(Payload)
      BY <1>2, <1>4
    <3>2. Held' = Append(held2, blob)
      BY <1>14 DEF head, blob
    <3>3. blob.b # <<>>
      BY <1>14 DEF blob
    <3> QED
      BY <3>1, <3>2, <3>3
  <2>2. Follows(k2, r, blob, k, r, s2)
    <3>1. blob = PayloadOf(k2, s2[r])
      BY <1>3 DEF PayloadOf, blob, k2
    <3> QED
      BY <1>3, <1>14, <3>1 DEF Follows, BlobDue, k, k2
  <2>3. Carried(wire, held2, Consumed, s2, sndQ, first2, k0, r0, k, r)
    BY <1>12
  <2> HIDE DEF held2
  <2>4. PICK first3 : /\ Carried(wire, Append(held2, blob), Consumed, s2, sndQ, first3, k0, r0, k2, r)
                      /\ first2 # NoPayload => first3 = first2
    <3>1. /\ wire \in Seq(Unit) /\ held2 \in Seq(Payload) /\ Len(s2) \in Nat
          /\ Carried(wire, held2, Consumed, s2, sndQ, first2, k0, r0, k, r)
          /\ blob \in Payload /\ blob.b # <<>> /\ k2 \in Kind /\ r \in 0 .. Len(s2)
          /\ Follows(k2, r, blob, k, r, s2)
      BY <1>2, <1>4, <1>9, <2>1, <2>2, <2>3
    <3> QED
      BY <3>1, CarriedAppend
  <2>5. Carried(wire', Held', Consumed, sent', sndQ', first3, k0, r0, k2, r)
    BY <2>1, <2>4
  <2>6. SenderEnd(k2, r)'
    BY <1>3 DEF SenderEnd, BlobDue, k2
  <2>7. first # NoPayload => first3 = first
    BY <1>12, <2>4
  <2> QED
    BY <1>1, <1>3, <2>5, <2>6, <2>7, SenderLine
<1> QED
  BY <1>13, <1>14

(* Bytes of the first payload that is held are written.                    *)
LEMMA LineMoves ==
  ASSUME SndTypeOK, LineControl, UNCHANGED rcvVars,
         UNCHANGED <<rcvOpen, sent, sndStarted, sndFinished>>,
         Held # <<>>, NEW n \in 0 .. Len(Held[1].b), wire' = wire \o UnitsOf(Held[1], n),
         Held' = HeldAfter(Held, n), n = Len(Held[1].b) \/ sndQ' # <<>>,
         ~Pinging', Unsent' => Unsent
  PROVE  LineControl'
<1> SUFFICES ASSUME Reads' PROVE LineControl'
  BY DEF LineControl
<1>1. PICK first, k0, r0, k1, r1 :
        /\ Carried(wire, Held, Consumed, sent, sndQ, first, k0, r0, k1, r1)
        /\ SenderEnd(k1, r1) /\ ReaderEnd(first, k0, r0)
        /\ k0 = "head" => r0 \in 1 .. Len(sent)
  BY SenderStarts
<1>2. wire \in Seq(Unit) /\ Held \in Seq(Payload)
  BY SenderStarts
<1>3. Carried(wire \o UnitsOf(Held[1], n), HeldAfter(Held, n), Consumed, sent, sndQ', first, k0, r0, k1, r1)
  BY <1>1, <1>2, CarriedWrite
<1>4. Carried(wire', Held', Consumed, sent', sndQ', first, k0, r0, k1, r1)
  BY <1>3
<1>5. SenderEnd(k1, r1)'
  BY <1>1 DEF SenderEnd, BlobDue
<1> QED
  BY <1>1, <1>4, <1>5, SenderLine

(* A ping that would have to wait is dropped.                              *)
LEMMA LineLosesPing ==
  ASSUME SndTypeOK, LineControl, UNCHANGED rcvVars,
         UNCHANGED <<wire, rcvOpen, sent, sndStarted, sndFinished, sndQ>>,
         sndStarted, Pinging, NEW x \in Payload, Held = Append(Held', x), Held' = sndQ,
         ~Pinging', ~Unsent'
  PROVE  LineControl'
<1> SUFFICES ASSUME Reads' PROVE LineControl'
  BY DEF LineControl
<1>1. PICK first, k0, r0, k1, r1 :
        /\ Carried(wire, Held, Consumed, sent, sndQ, first, k0, r0, k1, r1)
        /\ SenderEnd(k1, r1) /\ ReaderEnd(first, k0, r0)
        /\ k0 = "head" => r0 \in 1 .. Len(sent)
  BY SenderStarts
<1>2. wire \in Seq(Unit) /\ Held' \in Seq(Payload) /\ Len(sent) \in Nat
  BY SenderStarts
<1>3. k1 = "ping" /\ r1 = Len(sent)
  BY <1>1 DEF SenderEnd
<1>4. Carried(wire, Append(Held', x), Consumed, sent, sndQ, first, k0, r0, k1, r1)
  BY <1>1
<1>5. Held' = <<>> => sndQ = <<>>
  OBVIOUS
<1> DEFINE held == Held'
<1>6. held \in Seq(Payload) /\ Carried(wire, Append(held, x), Consumed, sent, sndQ, first, k0, r0, k1, r1)
      /\ (held = <<>> => sndQ = <<>>)
  BY <1>2, <1>4, <1>5
<1> HIDE DEF held
<1>7. PICK first2, k, r, p :
        /\ Carried(wire, held, Consumed, sent, sndQ, first2, k0, r0, k, r)
        /\ Follows(k1, r1, p, k, r, sent)
        /\ first2 = first \/ (first2 = NoPayload /\ Consumed = 0 /\ k = k0 /\ r = r0)
  BY <1>2, <1>6, CarriedDrop
<1>8. r = Len(sent) /\ ~BlobDue(k, r, sent) /\ k # "close" /\ k # "nothing"
  BY <1>3, <1>7 DEF Follows
<1>9. Carried(wire', Held', Consumed, sent', sndQ', first2, k0, r0, k, r)
  BY <1>7 DEF held
<1>10. SenderEnd(k, r)'
  BY <1>8 DEF SenderEnd, BlobDue
<1>11. InHead => first2 = first
  <2>1. InHead => Consumed >= 1
    BY <1>1 DEF ReaderEnd, Consumed
  <2> QED
    BY <1>7, <2>1
<1>12. ReaderEnd(first2, k0, r0)' /\ Consumed' = Consumed
  BY <1>1, <1>11, ReaderEndStays
<1>13. Carried(wire', Held', Consumed', sent', sndQ', first2, k0, r0, k, r)
  BY <1>9, <1>12
<1> QED
  BY <1>10, <1>12, <1>13 DEF LineControl

(* Sequences the sender's steps put together.                              *)
LEMMA QueueAndCall ==
  ASSUME NEW S, NEW q \in Seq(S), NEW x \in S, NEW rest \in Seq(S)
  PROVE  /\ q \o <<x>> = Append(q, x)
         /\ Append(q, x) \o rest = q \o (<<x>> \o rest)
         /\ q \o <<>> = q /\ <<>> \o q = q /\ <<x>> \o <<>> = <<x>>
         /\ (<<x>> \o rest) # <<>> /\ (<<x>> \o rest)[1] = x /\ Tail(<<x>> \o rest) = rest
         /\ rest # <<>> => <<Head(rest)>> \o Tail(rest) = rest
<1>1. <<x>> \in Seq(S) /\ Len(<<x>>) = 1 /\ <<x>>[1] = x
  OBVIOUS
<1>2. q \o <<x>> = Append(q, x)
  OBVIOUS
<1>3. Append(q, x) \o rest = q \o (<<x>> \o rest)
  <2>1. (q \o <<x>>) \o rest = q \o (<<x>> \o rest)
    BY <1>1, ConcatAssociative
  <2> QED
    BY <1>2, <2>1
<1>4. q \o <<>> = q /\ <<>> \o q = q /\ <<x>> \o <<>> = <<x>>
  BY <1>1, ConcatEmptySeq
<1>5. (<<x>> \o rest) # <<>> /\ (<<x>> \o rest)[1] = x /\ Tail(<<x>> \o rest) = rest
  <2> DEFINE t == <<x>> \o rest
  <2>1. /\ t \in Seq(S) /\ Len(t) = 1 + Len(rest)
        /\ \A i \in 1 .. Len(t) : t[i] = IF i <= 1 THEN x ELSE rest[i - 1]
    BY <1>1, ConcatProperties
  <2>2. Len(rest) \in Nat
    OBVIOUS
  <2>3. Len(t) >= 1 /\ 1 \in 1 .. Len(t)
    BY <2>1, <2>2
  <2> HIDE DEF t
  <2>4. t # <<>> /\ t[1] = x
    BY <2>1, <2>3
  <2>5. Tail(t) = rest
    <3>1. Tail(t) \in Seq(S) /\ Len(Tail(t)) = Len(t) - 1
          /\ \A i \in 1 .. Len(Tail(t)) : Tail(t)[i] = t[i + 1]
      BY <2>1, <2>4, HeadTailProperties
    <3>2. Len(Tail(t)) = Len(rest)
      BY <2>1, <2>2, <3>1
    <3>3. \A i \in 1 .. Len(rest) : i + 1 \in 1 .. Len(t) /\ ~(i + 1 <= 1) /\ i + 1 - 1 = i
      BY <2>1, <2>2
    <3>4. \A i \in 1 .. Len(rest) : Tail(t)[i] = rest[i]
      BY <2>1, <3>1, <3>2, <3>3
    <3> QED
      BY <3>1, <3>2, <3>4, SeqEqual
  <2> QED
    BY <2>4, <2>5 DEF t
<1>6. rest # <<>> => <<Head(rest)>> \o Tail(rest) = rest
  OBVIOUS
<1> QED
  BY <1>2, <1>3, <1>4, <1>5, <1>6

(* The payloads that are no part of a message.                             *)
LEMMA ControlPayloads ==
  ASSUME NEW k \in {"version", "ping", "close"}, NEW m
  PROVE  PayloadOf(k, m) \in Payload /\ PayloadOf(k, m).b # <<>>
<1>1. PICK n \in {0, 1, S_META_BLOB_LENGTH_PING_SENTINEL} : PayloadOf(k, m) = HeadPayload(NoHandle, n)
  BY DEF PayloadOf, VersionPayload, PingPayload
<1>2. HeadPayload(NoHandle, n) \in Payload
  BY HeadPayloadType, SpecialLengths DEF HandleOrNull
<1>3. HeadPayload(NoHandle, n).b = <<n % Base, n \div Base>>
  BY DEF HeadPayload, MetaLengthBytes
<1>4. HeadPayload(NoHandle, n).b # <<>>
  BY <1>3
<1> QED
  BY <1>1, <1>2, <1>4

(* Between calls only the queue is held.                                   *)
LEMMA IdleHolds ==
  ASSUME SndInv, CallControl, sndPc = "idle"
  PROVE  Held = sndQ /\ sndRest = <<>> /\ sndQ \in Seq(Payload) /\ ~Pinging /\ ~Unsent
<1>1. sndOp = "none" /\ sndRest = <<>> /\ sndQ \in Seq(Payload) /\ sndCur \in Payload
  BY DEF SndInv, SndControl, QueueControl, CallControl, SndTypeOK, SndCallTypeOK
<1>2. InCall = <<>>
  BY <1>1 DEF InCall
<1>3. <<>> \in Seq(Payload)
  OBVIOUS
<1>4. sndQ \o <<>> = sndQ
  BY <1>1, <1>3, QueueAndCall
<1> QED
  BY <1>1, <1>2, <1>4 DEF Held, Pinging, Unsent

(* A call that sends a control message puts one payload on the line.       *)
LEMMA ControlCallLine ==
  ASSUME SndInv, CallControl, LineControl, UNCHANGED rcvVars, sndPc = "idle",
         NEW k \in {"version", "ping", "close"}, NEW op \in SndOps \ {"send"},
         op \in PingOps => k = "ping", Write(op, PayloadOf(k, sent[Len(sent)]), <<>>),
         UNCHANGED <<wire, rcvOpen, sent, sndQ>>, ~sndFinished,
         k = "version" <=> ~sndStarted, sndStarted', k = "close" => sndFinished'
  PROVE  LineControl'
<1> DEFINE x == PayloadOf(k, sent[Len(sent)])
<1>1. x \in Payload /\ x.b # <<>>
  BY ControlPayloads
<1>2. sndPc' = "write" /\ sndOp' = op /\ sndCur' = x /\ sndRest' = <<>> /\ sndQ' = sndQ
  BY DEF Write
<1>3. Held = sndQ /\ sndQ \in Seq(Payload)
  BY IdleHolds
<1>4. x = PayloadOf(k, sent[Len(sent)])
  OBVIOUS
<1> HIDE DEF x
<1>5. <<>> \in Seq(Payload)
  OBVIOUS
<1>6. Held' = Append(Held, x)
  <2>1. Held' = sndQ \o (<<x>> \o <<>>)
    BY <1>2 DEF Held, InCall
  <2>2. <<x>> \o <<>> = <<x>> /\ sndQ \o <<x>> = Append(sndQ, x)
    BY <1>1, <1>3, <1>5, QueueAndCall
  <2> QED
    BY <1>3, <2>1, <2>2
<1>7. (Pinging' => k = "ping") /\ ~Unsent'
  BY <1>2 DEF Pinging, Unsent
<1>8. SndTypeOK
  BY DEF SndInv
<1> QED
  BY <1>1, <1>4, <1>6, <1>7, <1>8, LineGetsControl

(* The line after a call of the sender's user.                             *)
LEMMA UserLine ==
  ASSUME SndInv, CallControl, LineControl, UNCHANGED rcvVars, SndUser
  PROVE  LineControl'
<1> USE DEF wireVars, sndCoreVars, sndCallVars, SndIdle
<1>1. CASE StartSendOps
  <2>1. PayloadOf("version", sent[Len(sent)]) = VersionPayload
    BY DEF PayloadOf
  <2>2. ~sndFinished
    BY <1>1 DEF SndInv, SndControl, EndControl, StartSendOps
  <2>3. "start" \in SndOps \ {"send"} /\ "start" \notin PingOps
    BY DEF SndOps, PingOps
  <2>4. /\ sndPc = "idle" /\ Write("start", PayloadOf("version", sent[Len(sent)]), <<>>)
        /\ ~sndStarted /\ sndStarted' /\ UNCHANGED <<wire, rcvOpen, sent, sndQ>>
    BY <1>1, <2>1 DEF StartSendOps
  <2> QED
    BY <2>2, <2>3, <2>4, ControlCallLine
<1>2. ASSUME NEW m \in Message, SendNativeHandle(m) PROVE LineControl'
  <2> DEFINE head == HeadPayload(m.h, Len(m.b))
             blob == [h |-> NoHandle, b |-> m.b]
             s2 == Append(sent, m)
  <2>1. /\ sndPc = "idle" /\ sndStarted /\ ~sndFinished /\ Len(m.b) <= S_MAX_META_BLOB_LENGTH
        /\ UNCHANGED <<wire, rcvOpen, sndQ, sndStarted>>
        /\ sndPc' = "write" /\ sndOp' = "send" /\ sndCur' = head
        /\ sndRest' = (IF m.b = <<>> THEN <<>> ELSE <<blob>>)
        /\ sent' = s2
    BY <1>2 DEF SendNativeHandle, MaySend, Write
  <2>2. sent \in Seq(Message)
    BY DEF SndInv, SndTypeOK
  <2>3. /\ s2 \in Seq(Message) /\ Len(s2) = Len(sent) + 1 /\ s2[Len(sent) + 1] = m
        /\ \A i \in 1 .. Len(sent) : s2[i] = sent[i]
    BY <2>2
  <2>4. Held = sndQ /\ sndQ \in Seq(Payload)
    BY <2>1, IdleHolds
  <2>5. head \in Payload /\ blob \in Payload
    <3>1. m \in Payload /\ m.h \in HandleOrNull /\ m.b \in Blob
      BY MessageAssumption DEF Payload
    <3>2. Len(m.b) \in Nat
      BY <3>1 DEF Blob
    <3>3. Len(m.b) \in 0 .. S_MAX_META_BLOB_LENGTH
      BY <2>1, <3>2, SpecialLengths DEF S_MAX_META_BLOB_LENGTH
    <3>4. head \in Payload
      BY <3>1, <3>3, HeadPayloadType, SpecialLengths
    <3> QED
      BY <3>1, <3>4 DEF Payload, HandleOrNull
  <2> HIDE DEF head, blob, s2
  <2>6. <<>> \in Seq(Payload)
    OBVIOUS
  <2>7. Held' = IF m.b = <<>> THEN Append(Held, head) ELSE Append(Append(Held, head), blob)
    <3>1. Held' = sndQ \o (<<head>> \o sndRest')
      BY <2>1 DEF Held, InCall
    <3>2. CASE m.b = <<>>
      <4>1. <<head>> \o <<>> = <<head>> /\ sndQ \o <<head>> = Append(sndQ, head)
        BY <2>4, <2>5, <2>6, QueueAndCall
      <4> QED
        BY <2>1, <2>4, <3>1, <3>2, <4>1
    <3>3. CASE m.b # <<>>
      <4>1. <<blob>> \in Seq(Payload) /\ Append(sndQ, head) \in Seq(Payload)
        BY <2>4, <2>5
      <4>2. Append(sndQ, head) \o <<blob>> = sndQ \o (<<head>> \o <<blob>>)
        <5> DEFINE rest == <<blob>>
        <5>1. sndQ \in Seq(Payload) /\ head \in Payload /\ rest \in Seq(Payload)
          BY <2>4, <2>5, <4>1
        <5> HIDE DEF rest
        <5>2. Append(sndQ, head) \o rest = sndQ \o (<<head>> \o rest)
          BY <5>1, QueueAndCall
        <5> QED
          BY <5>2 DEF rest
      <4>3. Append(sndQ, head) \o <<blob>> = Append(Append(sndQ, head), blob)
        BY <2>5, <4>1, <2>6, QueueAndCall
      <4> QED
        <5>1. sndRest' = <<blob>>
          BY <2>1, <3>3
        <5>2. Held' = Append(sndQ, head) \o <<blob>>
          BY <3>1, <4>2, <5>1, Zenon
        <5> QED
          BY <2>4, <3>3, <4>3, <5>2, Zenon
    <3> QED
      BY <3>2, <3>3
  <2>8. ~Pinging'
    BY <2>1 DEF Pinging, PingOps
  <2>9. SndTypeOK
    BY DEF SndInv
  <2> QED
    BY <2>1, <2>3, <2>7, <2>8, <2>9, LineGetsMessage DEF head, blob
<1>3. ASSUME NEW op \in {"end", "asyncEnd"}, EndSending(op) PROVE LineControl'
  <2>1. CASE sndErr # SndNoError
    <3>1. ~rcvOpen'
      BY <1>3, <2>1 DEF EndSending, CallControl
    <3> QED
      BY <3>1 DEF LineControl, Reads
  <2>2. CASE sndErr = SndNoError
    <3>1. PayloadOf("close", sent[Len(sent)]) = HeadPayload(NoHandle, 0)
      BY DEF PayloadOf
    <3>2. op \in SndOps \ {"send"} /\ op \notin PingOps
      BY DEF SndOps, PingOps
    <3>3. /\ sndPc = "idle" /\ Write(op, PayloadOf("close", sent[Len(sent)]), <<>>)
          /\ sndStarted /\ sndStarted' /\ ~sndFinished /\ sndFinished'
          /\ UNCHANGED <<wire, rcvOpen, sent, sndQ>>
      BY <1>3, <2>2, <3>1 DEF EndSending, FinishSends
    <3> QED
      BY <3>2, <3>3, ControlCallLine
  <2> QED
    BY <2>1, <2>2
<1>4. CASE AutoPing
  <2>1. CASE sndErr # SndNoError
    <3>1. ~rcvOpen'
      BY <1>4, <2>1 DEF AutoPing, CallControl
    <3> QED
      BY <3>1 DEF LineControl, Reads
  <2>2. CASE sndErr = SndNoError
    <3>1. PayloadOf("ping", sent[Len(sent)]) = PingPayload
      BY DEF PayloadOf
    <3>2. "ping" \in SndOps \ {"send"}
      BY DEF SndOps
    <3>3. /\ sndPc = "idle" /\ Write("ping", PayloadOf("ping", sent[Len(sent)]), <<>>)
          /\ sndStarted /\ sndStarted' /\ ~sndFinished
          /\ UNCHANGED <<wire, rcvOpen, sent, sndQ>>
      BY <1>4, <2>2, <3>1 DEF AutoPing
    <3> QED
      BY <3>2, <3>3, ControlCallLine
  <2> QED
    BY <2>1, <2>2
<1> QED
  BY <1>1, <1>2, <1>3, <1>4 DEF SndUser

(* A write that fails finds the receiver gone.                             *)
LEMMA FailedWriteLine ==
  ASSUME CallControl, NbWriteFails PROVE LineControl'
<1>1. ~rcvOpen'
  BY DEF NbWriteFails, CallControl, wireVars
<1> QED
  BY <1>1 DEF LineControl, Reads

(* The line after a payload is written within the call.                    *)
LEMMA SyncWriteLine ==
  ASSUME SndInv, CallControl, LineControl, UNCHANGED rcvVars, SyncWrite
  PROVE  LineControl'
<1>1. /\ sndPc = "write" /\ sndQ = <<>> /\ sndStarted /\ sndCur \in Payload /\ sndRest \in Seq(Payload)
      /\ UNCHANGED <<sent, sndStarted, sndFinished, sndOp, sndCur, sndRest>>
      /\ SndTypeOK
  BY DEF SyncWrite, BehindOthers, sndWriteFrame, SndInv, SndControl, QueueControl, SndTypeOK,
         SndCallTypeOK
<1> DEFINE call == <<sndCur>> \o sndRest
<1>2. Held = call
  <2>1. <<sndCur>> \in Seq(Payload)
    BY <1>1
  <2>2. call \in Seq(Payload)
    BY <1>1, <2>1, ConcatProperties
  <2>3. Held = <<>> \o call
    BY <1>1 DEF Held, InCall
  <2> HIDE DEF call
  <2> QED
    BY <2>2, <2>3, ConcatEmptySeq
<1>3. <<>> \in Seq(Payload)
  OBVIOUS
<1>4. call # <<>> /\ call[1] = sndCur /\ Tail(call) = sndRest
  BY <1>1, <1>3, QueueAndCall
<1> HIDE DEF call
<1>5. CASE NbWriteFails
  BY <1>5, FailedWriteLine
<1>6. ASSUME NEW n \in 0 .. Len(sndCur.b), NbWrites(sndCur, n),
             IF n = Len(sndCur.b) \/ (AvoidQing /\ n = 0)
               THEN sndPc' = "ret" /\ UNCHANGED sndQ
               ELSE sndPc' = "wait" /\ sndQ' = <<Remainder(sndCur, n)>>
      PROVE  LineControl'
  <2>1. rcvOpen' = rcvOpen /\ wire' = wire \o UnitsOf(sndCur, n)
    BY <1>6 DEF NbWrites
  <2>2. InCall' = sndRest /\ Held' = sndQ' \o sndRest /\ ~Pinging' /\ (Unsent' => Unsent)
    BY <1>1, <1>6 DEF Held, InCall, Pinging, Unsent
  <2>3. CASE n = Len(sndCur.b)
    <3>1. sndQ' = <<>>
      BY <1>1, <1>6, <2>3
    <3>2. Held' = sndRest
      BY <1>1, <2>2, <3>1, ConcatEmptySeq
    <3>3. Held' = HeldAfter(Held, n) /\ Held # <<>> /\ Held[1] = sndCur
      BY <1>2, <1>4, <2>3, <3>2 DEF HeldAfter
    <3> QED
      BY <1>1, <1>6, <2>1, <2>2, <2>3, <3>3, LineMoves
  <2>4. CASE n # Len(sndCur.b) /\ ~(AvoidQing /\ n = 0)
    <3>1. sndQ' = <<Remainder(sndCur, n)>>
      BY <1>6, <2>4
    <3>2. sndQ' # <<>>
      BY <3>1
    <3>3. Held' = HeldAfter(Held, n) /\ Held # <<>> /\ Held[1] = sndCur
      BY <1>2, <1>4, <2>2, <2>4, <3>1 DEF HeldAfter
    <3> QED
      BY <1>1, <1>6, <2>1, <2>2, <3>2, <3>3, LineMoves
  <2>5. CASE n # Len(sndCur.b) /\ AvoidQing /\ n = 0
    <3>1. sndOp \in PingOps /\ sndRest = <<>> /\ sndPc' = "ret" /\ sndQ' = <<>>
      BY <1>1, <1>6, <2>5 DEF AvoidQing, CallControl, PingOps
    <3>2. Held' = <<>>
      BY <2>2, <3>1
    <3>3. Held = Append(<<>>, sndCur)
      <4>1. <<sndCur>> \o <<>> = <<sndCur>> /\ <<>> \o <<sndCur>> = Append(<<>>, sndCur)
        BY <1>1, <1>3, QueueAndCall
      <4>2. <<>> \o <<sndCur>> = <<sndCur>>
        BY <1>1, <1>3, QueueAndCall
      <4> QED
        BY <1>2, <3>1, <4>1, <4>2 DEF call
    <3>4. wire' = wire
      <4>1. UnitsOf(sndCur, 0) \in Seq(Unit) /\ Len(UnitsOf(sndCur, 0)) = 0
        BY <1>1, <2>5, UnitsOfType
      <4>2. UnitsOf(sndCur, 0) = <<>>
        BY <4>1, EmptySeq
      <4>3. wire \in Seq(Unit)
        BY <1>1 DEF SndTypeOK, WireTypeOK
      <4> QED
        BY <2>1, <2>5, <4>2, <4>3, ConcatEmptySeq
    <3>5. Pinging /\ ~Unsent' /\ ~Pinging'
      BY <1>1, <3>1 DEF Pinging, Unsent, PingOps
    <3>6. Held = Append(Held', sndCur) /\ Held' = sndQ /\ sndQ' = sndQ
      BY <1>1, <3>1, <3>2, <3>3
    <3> QED
      BY <1>1, <2>1, <3>4, <3>5, <3>6, LineLosesPing
  <2> QED
    BY <2>3, <2>4, <2>5
<1> QED
  BY <1>5, <1>6 DEF SyncWrite

(* The line after a payload is queued behind others.                       *)
LEMMA QueueLine ==
  ASSUME SndInv, CallControl, LineControl, UNCHANGED rcvVars, QueuePayload
  PROVE  LineControl'
<1>1. /\ sndPc = "write" /\ sndQ # <<>> /\ sndStarted /\ sndCur \in Payload /\ sndRest \in Seq(Payload)
      /\ UNCHANGED <<wire, rcvOpen, sent, sndStarted, sndFinished, sndOp, sndCur, sndRest>>
      /\ sndPc' = "ret" /\ SndTypeOK /\ sndQ \in Seq(Payload)
  BY DEF QueuePayload, BehindOthers, sndWriteFrame, SndInv, SndControl, QueueControl, SndTypeOK,
         SndCallTypeOK, wireVars
<1>2. /\ Held = sndQ \o (<<sndCur>> \o sndRest) /\ Held' = sndQ' \o sndRest
      /\ ~Pinging' /\ (Unsent' => Unsent)
  BY <1>1 DEF Held, InCall, Pinging, Unsent
<1>3. /\ Append(sndQ, sndCur) \o sndRest = sndQ \o (<<sndCur>> \o sndRest)
      /\ sndQ \o <<sndCur>> = Append(sndQ, sndCur) /\ sndQ \o <<>> = sndQ
      /\ <<sndCur>> \o <<>> = <<sndCur>>
  BY <1>1, QueueAndCall
<1>4. CASE AvoidQing
  <2>1. sndOp \in PingOps /\ sndRest = <<>> /\ sndQ' = sndQ
    BY <1>4 DEF AvoidQing, CallControl, PingOps, QueuePayload
  <2>2. Pinging /\ ~Unsent'
    BY <1>1, <2>1 DEF Pinging, Unsent, PingOps
  <2>3. Held' = sndQ /\ Held = Append(Held', sndCur)
    BY <1>2, <1>3, <2>1, Zenon
  <2> QED
    BY <1>1, <1>2, <2>1, <2>2, <2>3, LineLosesPing
<1>5. CASE ~AvoidQing
  <2>1. sndQ' = Append(sndQ, sndCur)
    BY <1>5 DEF QueuePayload
  <2>2. Held' = Held
    BY <1>2, <1>3, <2>1, Zenon
  <2>3. sndQ' # <<>>
    BY <1>1, <2>1
  <2> QED
    BY <1>1, <1>2, <2>2, <2>3, LineStays
<1> QED
  BY <1>4, <1>5

(* The line after the head of the queue is written.                        *)
LEMMA FlushLine ==
  ASSUME SndInv, CallControl, LineControl, UNCHANGED rcvVars, FlushHead
  PROVE  LineControl'
<1>1. /\ sndPc = "flush" /\ sndOp = "flush" /\ sndQ # <<>> /\ sndRest = <<>>
      /\ UNCHANGED <<sent, sndStarted, sndFinished, sndOp, sndCur, sndRest>>
      /\ SndTypeOK /\ sndQ \in Seq(Payload) /\ sndPc' \in {"ret", "flush", "wait"}
  BY DEF FlushHead, sndWriteFrame, SndInv, SndControl, QueueControl, SndTypeOK, CallControl
<1>2. Held = sndQ /\ (sndQ' \in Seq(Payload) => Held' = sndQ') /\ ~Pinging' /\ ~Unsent'
  <2>1. /\ Held = sndQ \o <<>> /\ Held' = sndQ' \o <<>> /\ ~Pinging' /\ ~Unsent'
    BY <1>1 DEF Held, InCall, Pinging, Unsent, PingOps
  <2> QED
    BY <1>1, <2>1, ConcatEmptySeq
<1>3. Head(sndQ) = sndQ[1]
  OBVIOUS
<1>4. CASE NbWriteFails
  BY <1>4, FailedWriteLine
<1>5. ASSUME NEW n \in 0 .. Len(Head(sndQ).b), NbWrites(Head(sndQ), n),
             sndQ' = HeldAfter(sndQ, n),
             n = Len(Head(sndQ).b) \/ sndQ' # <<>>
      PROVE  LineControl'
  <2>1. rcvOpen' = rcvOpen /\ wire' = wire \o UnitsOf(sndQ[1], n)
    BY <1>3, <1>5 DEF NbWrites
  <2>2. sndQ' \in Seq(Payload)
    BY TypeSteps DEF SndSteps, SndTypeOK
  <2>3. /\ Held # <<>> /\ n \in 0 .. Len(Held[1].b) /\ wire' = wire \o UnitsOf(Held[1], n)
        /\ Held' = HeldAfter(Held, n) /\ (n = Len(Held[1].b) \/ sndQ' # <<>>)
    BY <1>1, <1>2, <1>3, <1>5, <2>1, <2>2
  <2> QED
    BY <1>1, <1>2, <2>1, <2>3, LineMoves
<1>6. \/ NbWriteFails
      \/ \E n \in 0 .. Len(Head(sndQ).b) :
           /\ NbWrites(Head(sndQ), n)
           /\ sndQ' = HeldAfter(sndQ, n)
           /\ n = Len(Head(sndQ).b) \/ sndQ' # <<>>
  <2>1. ASSUME NEW n \in 0 .. Len(Head(sndQ).b), NbWrites(Head(sndQ), n),
               IF n = Len(Head(sndQ).b) THEN sndQ' = Tail(sndQ)
               ELSE sndQ' = <<Remainder(Head(sndQ), n)>> \o Tail(sndQ)
        PROVE  sndQ' = HeldAfter(sndQ, n) /\ (n = Len(Head(sndQ).b) \/ sndQ' # <<>>)
    <3>1. sndQ' = HeldAfter(sndQ, n)
      BY <1>3, <2>1 DEF HeldAfter
    <3>2. ASSUME n # Len(Head(sndQ).b) PROVE sndQ' # <<>>
      <4>1. Remainder(Head(sndQ), n) \in Payload /\ Tail(sndQ) \in Seq(Payload)
        BY <1>1, RemainderType
      <4>2. (<<Remainder(Head(sndQ), n)>> \o Tail(sndQ)) # <<>>
        BY <1>1, <4>1, QueueAndCall
      <4> QED
        BY <2>1, <3>2, <4>2
    <3> QED
      BY <3>1, <3>2
  <2> QED
    BY <2>1 DEF FlushHead
<1> QED
  BY <1>4, <1>5, <1>6

(* The steps and handlers that leave the payloads where they are.          *)
LEMMA QuietLine ==
  ASSUME SndInv, CallControl, LineControl, UNCHANGED rcvVars,
         \/ AsyncWriteQHead \/ ReturnStart \/ ReturnSend \/ ReturnEnd
         \/ ReturnAsyncEndWouldBlock \/ ReturnPing \/ ReturnFlush \/ OnEvPeerSocketWritable
  PROVE  LineControl'
<1> USE DEF wireVars, sndCoreVars, sndCallVars
<1>1. /\ SndTypeOK /\ sndQ \in Seq(Payload) /\ sndRest \in Seq(Payload)
      /\ (sndPc = "idle" => sndOp = "none") /\ (sndOp # "send" => sndRest = <<>>)
  BY DEF SndInv, SndControl, QueueControl, SndTypeOK, SndCallTypeOK, CallControl
<1>2. sndErr # SndNoError => ~rcvOpen
  BY DEF CallControl
<1>3. UNCHANGED <<wire, rcvOpen, sndQ, sndStarted, sndFinished>>
  BY DEF AsyncWriteQHead, ReturnStart, ReturnSend, ReturnEnd, ReturnAsyncEndWouldBlock, ReturnPing,
         ReturnFlush, OnEvPeerSocketWritable
<1> SUFFICES ASSUME rcvOpen' PROVE LineControl'
  BY DEF LineControl, Reads
<1>4. sndErr = SndNoError
  BY <1>2, <1>3
<1>5. sndPc # "write"
  BY DEF AsyncWriteQHead, SndReturns, ReturnStart, ReturnSend, ReturnEnd, ReturnAsyncEndWouldBlock,
         ReturnPing, ReturnFlush, OnEvPeerSocketWritable, SndIdle
<1>6. Held = sndQ \o sndRest
  BY <1>5 DEF Held, InCall
<1>7. sent' = sent
  BY <1>4 DEF AsyncWriteQHead, ReturnStart, ReturnSend, ReturnEnd, ReturnAsyncEndWouldBlock,
         ReturnPing, ReturnFlush, OnEvPeerSocketWritable
<1>8. \/ sndPc' # "write" /\ sndRest' = sndRest /\ sndOp' = sndOp /\ sndPc' # "wait"
      \/ sndPc' # "write" /\ sndRest' = sndRest /\ sndPc' = "flush" /\ sndOp' = "flush"
      \/ sndPc' # "write" /\ sndRest = <<>> /\ sndRest' = <<>> /\ sndOp' = "none"
      \/ /\ sndPc' = "write" /\ sndOp' = "send" /\ sndOp = "send" /\ sndRest # <<>>
         /\ sndCur' = Head(sndRest) /\ sndRest' = Tail(sndRest)
  BY <1>1, <1>4 DEF AsyncWriteQHead, SndReturns, CallEnds, Write, ReturnStart, ReturnSend, ReturnEnd,
         ReturnAsyncEndWouldBlock, ReturnPing, ReturnFlush, OnEvPeerSocketWritable, PingOps
<1>9. CASE sndPc' # "write" /\ sndRest' = sndRest
  <2>1. Held' = Held
    BY <1>3, <1>6, <1>9 DEF Held, InCall
  <2>2. ~Pinging' /\ (Unsent' => Unsent)
    BY <1>8, <1>9 DEF Pinging, Unsent
  <2> QED
    BY <1>1, <1>3, <1>7, <2>1, <2>2, LineStays
<1>10. CASE /\ sndPc' = "write" /\ sndOp' = "send" /\ sndOp = "send" /\ sndRest # <<>>
            /\ sndCur' = Head(sndRest) /\ sndRest' = Tail(sndRest)
  <2>1. Held' = sndQ \o (<<Head(sndRest)>> \o Tail(sndRest))
    BY <1>3, <1>10 DEF Held, InCall
  <2>2. <<Head(sndRest)>> \o Tail(sndRest) = sndRest
    BY <1>1, <1>10
  <2>3. Held' = Held
    BY <1>6, <2>1, <2>2
  <2>4. ~Pinging' /\ (Unsent' => Unsent)
    BY <1>10 DEF Pinging, Unsent, PingOps
  <2> QED
    BY <1>1, <1>3, <1>7, <2>3, <2>4, LineStays
<1> QED
  BY <1>8, <1>9, <1>10

(* What the timer's thread and the receive direction of the same object do.*)
LEMMA AsideLine ==
  ASSUME SndTypeOK, LineControl, UNCHANGED rcvVars,
         UNCHANGED <<wire, rcvOpen, sent, sndQ, sndStarted, sndFinished>>,
         UNCHANGED <<sndPc, sndOp, sndCur, sndRest>>
  PROVE  LineControl'
<1>1. Held' = Held /\ (Pinging' => Pinging) /\ (Unsent' => Unsent)
  BY DEF Held, InCall, Pinging, Unsent
<1> QED
  BY <1>1, LineStays

(* A signal of the auto-ping timer.                                        *)
LEMMA TickLine ==
  ASSUME SndInv, CallControl, LineControl, UNCHANGED rcvVars, OnEvAutoPingTimerFired
  PROVE  LineControl'
<1> USE DEF wireVars, sndCoreVars, sndCallVars, SndIdle
<1>1. /\ sndPc = "idle" /\ pingEvWait /\ UNCHANGED <<wire, rcvOpen, sent, sndQ, sndStarted, sndFinished>>
      /\ SndTypeOK
  BY DEF OnEvAutoPingTimerFired, SndInv
<1>2. CASE SendsOver
  <2>1. UNCHANGED <<sndPc, sndOp, sndCur, sndRest>>
    BY <1>2 DEF OnEvAutoPingTimerFired
  <2>2. Held' = Held /\ (Pinging' => Pinging) /\ (Unsent' => Unsent)
    BY <1>1, <2>1 DEF Held, InCall, Pinging, Unsent
  <2> QED
    BY <1>1, <2>2, LineStays
<1>3. CASE ~SendsOver
  <2>1. PayloadOf("ping", sent[Len(sent)]) = PingPayload
    BY DEF PayloadOf
  <2>2. "tick" \in SndOps \ {"send"}
    BY DEF SndOps
  <2>3. sndStarted /\ sndStarted' /\ ~sndFinished
    BY <1>1, <1>3 DEF SendsOver, SndInv, SndControl, PingControl
  <2>4. Write("tick", PayloadOf("ping", sent[Len(sent)]), <<>>)
    BY <1>3, <2>1 DEF OnEvAutoPingTimerFired
  <2> QED
    BY <1>1, <2>2, <2>3, <2>4, ControlCallLine
<1> QED
  BY <1>2, <1>3

(* The line, whatever the sender does.                                     *)
LEMMA SenderKeepsLine ==
  ASSUME SndInv, CallControl, LineControl, UNCHANGED rcvVars,
         \/ SndUser \/ SndSteps \/ SndEvents \/ SndTimerThread
         \/ SndSockHosedByReceiveOps \/ (SndEndpointCloses /\ UNCHANGED sndVars)
  PROVE  LineControl'
<1>1. SndTypeOK
  BY DEF SndInv
<1>2. CASE SndUser
  BY <1>2, UserLine
<1>3. CASE SndSteps
  BY <1>3, SyncWriteLine, QueueLine, FlushLine, QuietLine DEF SndSteps
<1>4. CASE SndEvents
  BY <1>4, TickLine, QuietLine DEF SndEvents
<1>5. CASE SndTimerThread \/ SndSockHosedByReceiveOps \/ (SndEndpointCloses /\ UNCHANGED sndVars)
  <2>1. /\ UNCHANGED <<wire, rcvOpen, sent, sndQ, sndStarted, sndFinished>>
        /\ UNCHANGED <<sndPc, sndOp, sndCur, sndRest>>
    BY <1>5 DEF SndTimerThread, PingTimerExpires, PingTimerSignals, sndNoTimerVars,
       SndSockHosedByReceiveOps, SndEndpointCloses, wireVars, sndCoreVars, sndCallVars, sndVars
  <2> QED
    BY <1>1, <2>1, AsideLine
<1>6. \/ SndUser \/ SndSteps \/ SndEvents
      \/ SndTimerThread \/ SndSockHosedByReceiveOps \/ (SndEndpointCloses /\ UNCHANGED sndVars)
  OBVIOUS
<1> QED
  BY <1>2, <1>3, <1>4, <1>5, <1>6

(* What every receiver step starts from.                                   *)
LEMMA ReaderStarts ==
  ASSUME SndTypeOK, StorageInv, LineControl, Reads
  PROVE  /\ wire \in Seq(Unit) /\ Held \in Seq(Payload) /\ sent \in Seq(Message)
         /\ Len(sent) \in Nat /\ sndQ \in Seq(Payload)
         /\ \E first, k0, r0, k1, r1 :
              /\ Carried(wire, Held, Consumed, sent, sndQ, first, k0, r0, k1, r1)
              /\ SenderEnd(k1, r1) /\ ReaderEnd(first, k0, r0)
<1>1. /\ wire \in Seq(Unit) /\ Held \in Seq(Payload) /\ sent \in Seq(Message)
      /\ Len(sent) \in Nat /\ sndQ \in Seq(Payload)
  BY HeldType DEF SndTypeOK, WireTypeOK
<1> QED
  BY <1>1 DEF LineControl

(* A line that the receiver changed.                                       *)
LEMMA ReaderLine ==
  ASSUME UNCHANGED sndVars, NEW first, NEW k0, NEW r0, NEW k1, NEW r1,
         Carried(wire', Held, Consumed', sent, sndQ, first, k0, r0, k1, r1),
         SenderEnd(k1, r1), ReaderEnd(first, k0, r0)'
  PROVE  LineControl'
<1>1. UNCHANGED <<sent, sndQ, sndPc, sndOp, sndCur, sndRest, sndStarted, sndFinished>>
  BY DEF sndVars, sndCoreVars, sndCallVars
<1>2. Held' = Held /\ Pinging' = Pinging /\ Unsent' = Unsent
  BY <1>1 DEF Held, InCall, Pinging, Unsent
<1>3. SenderEnd(k1, r1)'
  <2>1. Pinging' => Pinging
    BY <1>2
  <2>2. Unsent' => Unsent
    BY <1>2
  <2> QED
    BY <1>1, <2>1, <2>2 DEF SenderEnd, BlobDue
<1>4. Carried(wire', Held', Consumed', sent', sndQ', first, k0, r0, k1, r1)
  BY <1>1, <1>2
<1> QED
  BY <1>3, <1>4 DEF LineControl

(* The receiver reads nothing, and stays where it was in the message.      *)
LEMMA ReaderStays ==
  ASSUME SndTypeOK, StorageInv, LineControl, Reads, UNCHANGED <<wire, rcvVer, sndVars>>,
         InHead' => InHead /\ rcvMeta' = rcvMeta /\ GivenHandle' = GivenHandle,
         InHead => InHead', InBlob' => InBlob /\ rcvBlob' = rcvBlob, InBlob => InBlob', Taken' = Taken
  PROVE  LineControl'
<1>1. PICK first, k0, r0, k1, r1 :
        /\ Carried(wire, Held, Consumed, sent, sndQ, first, k0, r0, k1, r1)
        /\ SenderEnd(k1, r1) /\ ReaderEnd(first, k0, r0)
  BY ReaderStarts
<1>2. Consumed' = Consumed
  BY DEF Consumed
<1>3. ReaderEnd(first, k0, r0)'
  <2>1. sent' = sent /\ (Negotiating' <=> Negotiating)
    BY DEF sndVars, Negotiating
  <2>2. /\ k0 = "nothing" <=> Negotiating'
        /\ InBlob' <=> BlobDue(k0, r0, sent')
        /\ r0 = Taken'
    BY <1>1, <2>1 DEF ReaderEnd
  <2>3. InHead' => /\ first # NoPayload /\ Len(rcvMeta') >= 1
                   /\ \A i \in 1 .. Len(rcvMeta') : rcvMeta'[i] = first.b[i]
                   /\ ~Negotiating' => GivenHandle' = first.h
    BY <1>1, <2>1 DEF ReaderEnd
  <2> QED
    BY <2>2, <2>3 DEF ReaderEnd
<1>4. Carried(wire', Held, Consumed', sent, sndQ, first, k0, r0, k1, r1)
  BY <1>1, <1>2
<1> QED
  BY <1>1, <1>3, <1>4, ReaderLine

-----------------------------------------------------------------------------
(* The payload that comes next, if it is no meta-blob.                     *)
LEMMA NextHead ==
  ASSUME NEW k \in Kind, NEW r, NEW p, NEW k0, NEW r0, Follows(k, r, p, k0, r0, sent),
         ~BlobDue(k0, r0, sent)
  PROVE  /\ k \in {"version", "ping", "close", "head"} /\ Len(p.b) = SizeofMetaLength
         /\ k # "head" => p.h = NoHandle /\ r = r0
         /\ k = "head" => p.h = sent[r].h /\ r = r0 + 1
         /\ k = "version" <=> k0 = "nothing"
         /\ p.b = MetaLengthBytes(CASE k = "version" -> 1
                                    [] k = "ping" -> S_META_BLOB_LENGTH_PING_SENTINEL
                                    [] k = "close" -> 0
                                    [] k = "head" -> Len(sent[r].b))
<1>1. k \in {"version", "ping", "close", "head"}
  BY DEF Follows, Kind
<1> DEFINE len == CASE k = "version" -> 1
                    [] k = "ping" -> S_META_BLOB_LENGTH_PING_SENTINEL
                    [] k = "close" -> 0
                    [] k = "head" -> Len(sent[r].b)
<1>2. p.b = MetaLengthBytes(len)
  BY <1>1 DEF Follows, PayloadOf, VersionPayload, PingPayload, HeadPayload
<1>3. /\ k # "head" => p.h = NoHandle /\ r = r0
      /\ k = "head" => p.h = sent[r].h /\ r = r0 + 1
      /\ k = "version" <=> k0 = "nothing"
  BY <1>1 DEF Follows, PayloadOf, VersionPayload, PingPayload, HeadPayload
<1> HIDE DEF len
<1>4. Len(MetaLengthBytes(len)) = 2
  BY DEF MetaLengthBytes
<1> QED
  BY <1>1, <1>2, <1>3, <1>4 DEF SizeofMetaLength, len

(* The handle of a payload is read with its first byte.                    *)
LEMMA HandleRead ==
  ASSUME NEW p, NEW n \in Nat, n >= 1, \A i \in 1 .. n : wire[i] = UnitAt(p, i)
  PROVE  HandleAmong(n) = p.h
<1>1. ASSUME NEW i \in 1 .. n PROVE wire[i].h = IF i = 1 THEN p.h ELSE NoHandle
  <2>1. UnitAt(p, i).h = IF i = 1 THEN p.h ELSE NoHandle
    BY DEF UnitAt
  <2> QED
    BY <2>1
<1>2. 1 \in 1 .. n /\ \A j \in 1 .. 1 - 1 : wire[j].h = NoHandle
  OBVIOUS
<1>3. CASE p.h = NoHandle
  <2>1. ~ \E i \in 1 .. n : wire[i].h # NoHandle
    BY <1>1, <1>3
  <2> QED
    BY <1>3, <2>1 DEF HandleAmong
<1>4. CASE p.h # NoHandle
  <2> DEFINE i == CHOOSE i \in 1 .. n :
                    wire[i].h # NoHandle /\ \A j \in 1 .. i - 1 : wire[j].h = NoHandle
  <2>1. wire[1].h # NoHandle /\ wire[1].h = p.h
    BY <1>1, <1>2, <1>4
  <2>2. i \in 1 .. n /\ wire[i].h # NoHandle
    BY <1>2, <2>1
  <2>3. wire[i].h = p.h
    BY <1>1, <2>2
  <2>4. \E l \in 1 .. n : wire[l].h # NoHandle
    BY <1>2, <2>1
  <2> QED
    BY <2>3, <2>4 DEF HandleAmong
<1> QED
  BY <1>3, <1>4

(* The bytes that are read are those of the payload.                       *)
LEMMA BytesRead ==
  ASSUME wire \in Seq(Unit), NEW n \in 0 .. Len(wire)
  PROVE  \A i \in 1 .. n : WireBytes(n)[i] = wire[i].v
<1> DEFINE t == SubSeq(wire, 1, n)
<1>1. n \in Int /\ 1 \in Int /\ \A i \in 1 .. n : wire[i] \in Unit
  BY ElementOfSeq
<1>2. /\ t \in Seq(Unit) /\ Len(t) = IF 1 <= n THEN n - 1 + 1 ELSE 0
      /\ \A i \in 1 .. n - 1 + 1 : t[i] = wire[1 + i - 1]
  BY <1>1, SubSeqProperties
<1> HIDE DEF t
<1>3. n - 1 + 1 = n /\ \A i \in 1 .. n : 1 + i - 1 = i /\ 1 <= n
  BY <1>1
<1>4. \A i \in 1 .. n : i \in 1 .. Len(t) /\ t[i] = wire[i]
  BY <1>2, <1>3
<1> QED
  BY <1>4 DEF WireBytes, BytesOf, t

(* Reading the first bytes of a payload.                                   *)
LEMMA HeadBegins ==
  ASSUME SndTypeOK, StorageInv, LineControl, Reads, rcvPc = "readMsg",
         NEW n \in ReadSizes(SizeofMetaLength)
  PROVE  /\ n \in 0 .. Len(wire) /\ n >= 1 /\ n <= SizeofMetaLength /\ Consumed = 0
         /\ \E first, k0, r0, k1, r1 :
              /\ Carried(wire, Held, Consumed, sent, sndQ, first, k0, r0, k1, r1)
              /\ SenderEnd(k1, r1) /\ ReaderEnd(first, k0, r0) /\ first # NoPayload
              /\ HandleAmong(n) = first.h /\ \A i \in 1 .. n : WireBytes(n)[i] = first.b[i]
              /\ Negotiating => first.h = NoHandle
              /\ first.h # NoHandle => Len(got) < Len(sent) /\ sent[Len(got) + 1].h = first.h
<1>1. PICK first, k0, r0, k1, r1 :
        /\ Carried(wire, Held, Consumed, sent, sndQ, first, k0, r0, k1, r1)
        /\ SenderEnd(k1, r1) /\ ReaderEnd(first, k0, r0)
  BY ReaderStarts
<1>2. wire \in Seq(Unit) /\ Held \in Seq(Payload) /\ Len(sent) \in Nat /\ Len(wire) \in Nat
  BY ReaderStarts
<1>3. n \in Nat /\ 1 <= n /\ n <= SizeofMetaLength /\ n <= Len(wire)
  BY <1>2, ReadTypes DEF SizeofMetaLength
<1>4. ~InHead /\ ~InBlob /\ Consumed = 0 /\ Taken = Len(got)
  BY DEF InHead, InBlob, AtRest, Consumed, Taken
<1>5. wire # <<>>
  BY <1>3
<1>6. /\ first # NoPayload /\ first \in Payload /\ r0 \in 0 .. Len(sent) /\ r1 \in 0 .. Len(sent)
      /\ \E k \in Kind, r \in 0 .. r1 : Follows(k, r, first, k0, r0, sent)
      /\ \A i \in 1 .. Len(wire) : Consumed + i <= Len(first.b) => wire[i] = UnitAt(first, Consumed + i)
  BY <1>1, <1>2, <1>5, CarriedEnds
<1>7. PICK k \in Kind, r \in 0 .. r1 : Follows(k, r, first, k0, r0, sent)
  BY <1>6
<1>8. ~BlobDue(k0, r0, sent) /\ r0 = Len(got) /\ (k0 = "nothing" <=> Negotiating)
  BY <1>1, <1>4 DEF ReaderEnd
<1>9. /\ Len(first.b) = SizeofMetaLength
      /\ k # "head" => first.h = NoHandle
      /\ k = "head" => first.h = sent[r].h /\ r = r0 + 1
      /\ k = "version" <=> k0 = "nothing"
  BY <1>7, <1>8, NextHead
<1>10. \A i \in 1 .. n : wire[i] = UnitAt(first, i)
  <2>1. \A i \in 1 .. n : i \in 1 .. Len(wire) /\ 0 + i <= SizeofMetaLength /\ 0 + i = i
    BY <1>2, <1>3 DEF SizeofMetaLength
  <2> QED
    BY <1>4, <1>6, <1>9, <2>1
<1>11. HandleAmong(n) = first.h
  BY <1>3, <1>10, HandleRead
<1>12. \A i \in 1 .. n : WireBytes(n)[i] = first.b[i]
  <2>1. n \in 0 .. Len(wire)
    BY <1>2, <1>3
  <2>2. \A i \in 1 .. n : WireBytes(n)[i] = wire[i].v
    BY <1>2, <2>1, BytesRead
  <2>3. \A i \in 1 .. n : wire[i].v = first.b[i]
    <3>1. \A i : UnitAt(first, i).v = first.b[i]
      BY DEF UnitAt
    <3> QED
      BY <1>10, <3>1
  <2> QED
    BY <2>2, <2>3
<1>13. Negotiating => first.h = NoHandle
  BY <1>8, <1>9
<1>14. first.h # NoHandle => Len(got) < Len(sent) /\ sent[Len(got) + 1].h = first.h
  <2>1. ASSUME first.h # NoHandle PROVE Len(got) < Len(sent) /\ sent[Len(got) + 1].h = first.h
    <3>1. k = "head" /\ first.h = sent[r].h /\ r = Len(got) + 1
      BY <1>8, <1>9, <2>1
    <3>2. r <= Len(sent) /\ Len(got) \in Nat
      BY <1>2, <1>6, <1>7, <1>8
    <3> QED
      BY <1>2, <3>1, <3>2
  <2> QED
    BY <2>1
<1> QED
  BY <1>1, <1>2, <1>3, <1>4, <1>6, <1>11, <1>12, <1>13, <1>14

(* Nothing is promised after an error; the errors differ.                  *)
LEMMA ErrorEnds ==
  /\ rcvErr' # RcvNoError => LineControl' /\ MessageControl'
  /\ \A e \in {"SYS_ERROR", "LOW_LVL_TRANSPORT_HOSED_CANNOT_RECEIVE"} :
       e # RcvNoError /\ e \notin NegotiationErrors
       /\ e \notin {"RECEIVES_FINISHED_CANNOT_RECEIVE", "MESSAGE_SIZE_EXCEEDS_USER_STORAGE",
                    "BLOB_RECEIVER_GOT_NON_BLOB"}
<1>1. rcvErr' # RcvNoError => ~Reads'
  BY DEF Reads
<1>2. ~Reads' => LineControl' /\ MessageControl'
  BY DEF LineControl, MessageControl
<1>3. \A e \in {"SYS_ERROR", "LOW_LVL_TRANSPORT_HOSED_CANNOT_RECEIVE"} :
       e # RcvNoError /\ e \notin NegotiationErrors
       /\ e \notin {"RECEIVES_FINISHED_CANNOT_RECEIVE", "MESSAGE_SIZE_EXCEEDS_USER_STORAGE",
                    "BLOB_RECEIVER_GOT_NON_BLOB"}
  BY DEF RcvNoError, NegotiationErrors, OpposingVerInvalid, OpposingVerTooOld
<1> QED
  BY <1>1, <1>2, <1>3

(* rcv_read_msg().                                                         *)
LEMMA ReadMsgLine ==
  ASSUME SndTypeOK, StorageInv, LineControl, Reads, UNCHANGED sndVars, ReadMsg
  PROVE  /\ LineControl' /\ MessageControl'
         /\ rcvErr' \notin NegotiationErrors
         /\ rcvErr' \notin {"RECEIVES_FINISHED_CANNOT_RECEIVE", "MESSAGE_SIZE_EXCEEDS_USER_STORAGE"}
         /\ rcvErr' = "BLOB_RECEIVER_GOT_NON_BLOB" =>
              Len(got) < Len(sent) /\ sent[Len(got) + 1].h # NoHandle /\ ~rcvTakesHandle
<1> USE DEF rcvReqVars, rcvHistVars, rcvDataVars, rcvReadVars, wireVars
<1>1. rcvPc = "readMsg" /\ rcvErr = "ok" /\ rcvBlob = <<>> /\ UNCHANGED <<rcvTakesHandle, got>>
  BY DEF ReadMsg, StorageInv, StorageControl, Reads, RcvNoError
<1>2. ~InHead /\ ~InBlob /\ Consumed = 0 /\ Taken = Len(got)
  BY <1>1 DEF InHead, InBlob, AtRest, Consumed, Taken
<1>3. CASE NbReadFails
  <2>1. rcvErr' \in {"SYS_ERROR", "LOW_LVL_TRANSPORT_HOSED_CANNOT_RECEIVE"}
    BY <1>3 DEF NbReadFails
  <2> QED
    BY <2>1, ErrorEnds
<1>4. ASSUME NEW n \in ReadSizes(SizeofMetaLength), ConsumeWire(n), rcvMeta' = WireBytes(n),
             OnHandleFinalized(HandleAmong(n), n), UNCHANGED rcvBlob
      PROVE  /\ LineControl' /\ MessageControl'
             /\ rcvErr' \in {"ok", "BLOB_RECEIVER_GOT_NON_BLOB"}
             /\ rcvErr' = "BLOB_RECEIVER_GOT_NON_BLOB" =>
                  Len(got) < Len(sent) /\ sent[Len(got) + 1].h # NoHandle /\ ~rcvTakesHandle
  <2>1. n \in 0 .. Len(wire) /\ n >= 1 /\ n <= SizeofMetaLength
    BY <1>1, HeadBegins
  <2>2. PICK first, k0, r0, k1, r1 :
          /\ Carried(wire, Held, Consumed, sent, sndQ, first, k0, r0, k1, r1)
          /\ SenderEnd(k1, r1) /\ ReaderEnd(first, k0, r0) /\ first # NoPayload
          /\ HandleAmong(n) = first.h /\ \A i \in 1 .. n : WireBytes(n)[i] = first.b[i]
          /\ Negotiating => first.h = NoHandle
          /\ first.h # NoHandle => Len(got) < Len(sent) /\ sent[Len(got) + 1].h = first.h
    BY <1>1, HeadBegins
  <2>3. CASE ~Negotiating /\ first.h # NoHandle /\ ~rcvTakesHandle
    <3>1. rcvErr' = "BLOB_RECEIVER_GOT_NON_BLOB"
      BY <1>4, <2>2, <2>3 DEF OnHandleFinalized, RcvFails
    <3> QED
      BY <2>2, <2>3, <3>1 DEF LineControl, MessageControl, Reads, RcvNoError
  <2>4. CASE ~(~Negotiating /\ first.h # NoHandle /\ ~rcvTakesHandle)
    <3>1. /\ rcvHandle' = IF rcvTakesHandle /\ ~Negotiating THEN first.h ELSE rcvHandle
          /\ rcvPc' = "head" \/ (rcvPc' = "wait" /\ rcvMsgState' = "HEAD_PAYLOAD")
          /\ UNCHANGED <<rcvErr, rcvVer>>
      BY <1>4, <2>2, <2>4 DEF OnHandleFinalized
    <3>2. Len(rcvMeta') = n
      BY <1>4, ReadTypes DEF StorageInv, StorageTypes, SizeofMetaLength
    <3>3. InHead' /\ ~InBlob' /\ Consumed' = n /\ Taken' = Len(got) /\ rcvPc' # "done"
      BY <1>1, <3>1, <3>2 DEF InHead, InBlob, AtRest, Consumed, Taken
    <3>4. ~Negotiating' => GivenHandle' = first.h
      BY <1>1, <2>4, <3>1 DEF GivenHandle, Negotiating
    <3>5. ReaderEnd(first, k0, r0)'
      <4>1. Negotiating' <=> Negotiating
        BY <3>1 DEF Negotiating
      <4>2. sent' = sent
        BY DEF sndVars
      <4>3. (k0 = "nothing" <=> Negotiating) /\ ~BlobDue(k0, r0, sent) /\ r0 = Len(got)
        BY <1>2, <2>2 DEF ReaderEnd
      <4>4. Len(rcvMeta') >= 1 /\ \A i \in 1 .. Len(rcvMeta') : rcvMeta'[i] = first.b[i]
        BY <1>4, <2>1, <2>2, <3>2
      <4> QED
        BY <2>2, <3>3, <3>4, <4>1, <4>2, <4>3, <4>4 DEF ReaderEnd
    <3>6. Carried(wire', Held, Consumed', sent, sndQ, first, k0, r0, k1, r1)
      <4>1. wire \in Seq(Unit) /\ Held \in Seq(Payload)
        BY ReaderStarts
      <4>2. Carried(SubSeq(wire, n + 1, Len(wire)), Held, Consumed + n, sent, sndQ, first, k0, r0, k1, r1)
        BY <2>1, <2>2, <4>1, CarriedRead
      <4>3. Consumed' = Consumed + n
        BY <1>2, <2>1, <3>3
      <4>4. wire' = SubSeq(wire, n + 1, Len(wire))
        BY <1>4 DEF ConsumeWire
      <4> QED
        BY <4>2, <4>3, <4>4
    <3>7. LineControl'
      BY <2>2, <3>5, <3>6, ReaderLine
    <3>8. MessageControl'
      BY <3>3 DEF MessageControl
    <3> QED
      BY <1>1, <3>1, <3>7, <3>8
  <2> QED
    BY <2>3, <2>4
<1>5. CASE /\ rcvSock /\ wire = <<>> /\ sndOpen
           /\ rcvMsgState' = "MSG_START" /\ rcvLeft' = 0
           /\ rcvPc' = "wait"
           /\ UNCHANGED <<wire, rcvSock, rcvDataVars, rcvErr, rcvVer, idleTimerVars>>
  <2>1. ~InHead' /\ ~InBlob' /\ Taken' = Taken /\ rcvPc' # "done"
    BY <1>1, <1>2, <1>5 DEF InHead, InBlob, AtRest, Taken
  <2>2. UNCHANGED <<wire, rcvVer, sndVars>>
    BY <1>5
  <2>3. LineControl'
    BY <1>2, <2>1, <2>2, ReaderStays
  <2> QED
    BY <1>1, <1>5, <2>1, <2>3 DEF MessageControl, NegotiationErrors, OpposingVerInvalid, OpposingVerTooOld
<1>6. \A e \in {"ok", "BLOB_RECEIVER_GOT_NON_BLOB"} :
        /\ e \notin NegotiationErrors
        /\ e \notin {"RECEIVES_FINISHED_CANNOT_RECEIVE", "MESSAGE_SIZE_EXCEEDS_USER_STORAGE"}
  BY DEF NegotiationErrors, OpposingVerInvalid, OpposingVerTooOld
<1> QED
  BY <1>3, <1>4, <1>5, <1>6 DEF ReadMsg

(* The length read is the one written.                                     *)
LEMMA MetaLengthRead ==
  ASSUME NEW bytes, NEW n \in Nat, NEW b, b = MetaLengthBytes(n), Len(bytes) = SizeofMetaLength,
         \A i \in 1 .. Len(bytes) : bytes[i] = b[i]
  PROVE  MetaLength(bytes) = n
<1>1. MetaLength(b) = n
  BY LengthRead
<1>2. bytes[1] = b[1] /\ bytes[2] = b[2]
  BY DEF SizeofMetaLength
<1> QED
  BY <1>1, <1>2 DEF MetaLength

(* A payload 1 that was read: what it is, and the line behind it.          *)
LEMMA HeadEnds ==
  ASSUME SndTypeOK, StorageInv, LineControl, HistoryControl, Reads, rcvPc = "head"
  PROVE  \E first, k0, k, r, k1, r1 :
           /\ Carried(wire, Held, 0, sent, sndQ, first, k, r, k1, r1)
           /\ SenderEnd(k1, r1) /\ r \in 0 .. Len(sent)
           /\ k \in {"version", "ping", "close", "head"}
           /\ k = "version" <=> Negotiating
           /\ k # "head" => r = Len(got)
           /\ k = "head" => r = Len(got) + 1
           /\ ~Negotiating => GivenHandle = IF k = "head" THEN sent[r].h ELSE NoHandle
           /\ MetaLength(rcvMeta) = CASE k = "version" -> 1
                                      [] k = "ping" -> S_META_BLOB_LENGTH_PING_SENTINEL
                                      [] k = "close" -> 0
                                      [] k = "head" -> Len(sent[r].b)
           /\ k = "close" => sndFinished /\ Len(got) = Len(sent)
<1>1. PICK first, k0, r0, k1, r1 :
        /\ Carried(wire, Held, Consumed, sent, sndQ, first, k0, r0, k1, r1)
        /\ SenderEnd(k1, r1) /\ ReaderEnd(first, k0, r0)
  BY ReaderStarts
<1>2. wire \in Seq(Unit) /\ Held \in Seq(Payload) /\ sent \in Seq(Message) /\ Len(sent) \in Nat
  BY ReaderStarts
<1>3. InHead /\ ~InBlob /\ Consumed = SizeofMetaLength /\ Len(rcvMeta) = SizeofMetaLength /\ Taken = Len(got)
  BY DEF InHead, InBlob, AtRest, Consumed, Taken, StorageInv, StorageControl
<1>4. /\ ~BlobDue(k0, r0, sent) /\ r0 = Len(got) /\ (k0 = "nothing" <=> Negotiating)
      /\ first # NoPayload /\ \A i \in 1 .. Len(rcvMeta) : rcvMeta[i] = first.b[i]
      /\ ~Negotiating => GivenHandle = first.h
  BY <1>1, <1>3 DEF ReaderEnd
<1>5. \E k \in Kind, r \in 0 .. r1 : Follows(k, r, first, k0, r0, sent)
  BY <1>1, <1>2, <1>4, CarriedEnds
<1>6. Len(first.b) = SizeofMetaLength
  BY <1>4, <1>5, NextHead
<1>7. PICK first2, k, r :
        /\ Carried(wire, Held, 0, sent, sndQ, first2, k, r, k1, r1)
        /\ Follows(k, r, first, k0, r0, sent)
  BY <1>1, <1>2, <1>3, <1>4, <1>6, CarriedPop
<1>8. /\ k \in Kind /\ r \in 0 .. Len(sent)
      /\ first2 = NoPayload => k = k1 /\ r = r1
      /\ first2 # NoPayload => \E kk \in Kind, rr \in 0 .. r1 : Follows(kk, rr, first2, k, r, sent)
  BY <1>2, <1>7, CarriedEnds
<1> DEFINE len == CASE k = "version" -> 1
                    [] k = "ping" -> S_META_BLOB_LENGTH_PING_SENTINEL
                    [] k = "close" -> 0
                    [] k = "head" -> Len(sent[r].b)
<1>9. /\ k \in {"version", "ping", "close", "head"}
      /\ k # "head" => first.h = NoHandle /\ r = r0
      /\ k = "head" => first.h = sent[r].h /\ r = r0 + 1
      /\ k = "version" <=> k0 = "nothing"
      /\ first.b = MetaLengthBytes(len)
  BY <1>4, <1>7, <1>8, NextHead
<1>10. len \in Nat
  <2>1. S_META_BLOB_LENGTH_PING_SENTINEL \in Nat
    BY SpecialLengths
  <2>2. k = "head" => r \in 1 .. Len(sent)
    BY <1>2, <1>4, <1>8, <1>9 DEF HistoryControl
  <2>3. k = "head" => Len(sent[r].b) \in Nat
    <3>1. k = "head" => sent[r] \in Payload
      BY <1>2, <2>2, MessageAssumption
    <3> QED
      BY <3>1 DEF Payload, Blob
  <2> QED
    BY <1>9, <2>1, <2>3
<1> HIDE DEF len
<1>11. MetaLength(rcvMeta) = len
  BY <1>3, <1>4, <1>9, <1>10, MetaLengthRead
<1>12. k = "close" => sndFinished /\ Len(got) = Len(sent)
  <2>1. ASSUME k = "close" PROVE sndFinished /\ Len(got) = Len(sent)
    <3>1. first2 = NoPayload
      BY <1>8, <2>1 DEF Follows
    <3>2. k1 = "close" /\ r1 = r /\ r = Len(got)
      BY <1>4, <1>8, <1>9, <2>1, <3>1
    <3> QED
      BY <1>1, <3>2 DEF SenderEnd
  <2> QED
    BY <2>1
<1>13. ~Negotiating => GivenHandle = IF k = "head" THEN sent[r].h ELSE NoHandle
  BY <1>4, <1>9
<1> QED
  BY <1>1, <1>4, <1>7, <1>8, <1>9, <1>11, <1>12, <1>13 DEF len

(* rcv_on_head_payload().                                                  *)
LEMMA HeadPayloadLine ==
  ASSUME SndTypeOK, StorageInv, LineControl, HistoryControl, Reads, UNCHANGED sndVars, OnHeadPayload
  PROVE  /\ LineControl' /\ MessageControl'
         /\ rcvErr' \in {"ok", "RECEIVES_FINISHED_CANNOT_RECEIVE", "MESSAGE_SIZE_EXCEEDS_USER_STORAGE"}
         /\ rcvErr' = "MESSAGE_SIZE_EXCEEDS_USER_STORAGE" =>
              Len(got) < Len(sent) /\ Len(sent[Len(got) + 1].b) > rcvSize
         /\ rcvErr' = "RECEIVES_FINISHED_CANNOT_RECEIVE" => sndFinished /\ Len(got) = Len(sent)
<1> USE DEF rcvReqVars, rcvHistVars, rcvDataVars, rcvReadVars, wireVars
<1>1. /\ rcvPc = "head" /\ rcvErr = "ok" /\ rcvBlob = <<>>
      /\ UNCHANGED <<wire, rcvTakesHandle, rcvHandle, rcvBlob, rcvMeta, got>>
  BY DEF OnHeadPayload, StorageInv, StorageControl, Reads, RcvNoError
<1>2. PICK first, k0, k, r, k1, r1 :
        /\ Carried(wire, Held, 0, sent, sndQ, first, k, r, k1, r1)
        /\ SenderEnd(k1, r1) /\ r \in 0 .. Len(sent)
        /\ k \in {"version", "ping", "close", "head"}
        /\ k = "version" <=> Negotiating
        /\ k # "head" => r = Len(got)
        /\ k = "head" => r = Len(got) + 1
        /\ ~Negotiating => GivenHandle = IF k = "head" THEN sent[r].h ELSE NoHandle
        /\ MetaLength(rcvMeta) = CASE k = "version" -> 1
                                   [] k = "ping" -> S_META_BLOB_LENGTH_PING_SENTINEL
                                   [] k = "close" -> 0
                                   [] k = "head" -> Len(sent[r].b)
        /\ k = "close" => sndFinished /\ Len(got) = Len(sent)
  BY <1>1, HeadEnds
<1> DEFINE len == MetaLength(rcvMeta)
<1>3. /\ GivenHandle' = GivenHandle /\ sent' = sent
      /\ sent \in Seq(Message) /\ Len(sent) \in Nat /\ Len(got) \in Nat
  BY <1>1, ReaderStarts DEF GivenHandle, sndVars, HistoryControl
(* Where the receiver is then decides what it expects.                     *)
<1>4. ASSUME rcvPc' = "readMsg", rcvVer' # S_VER_UNKNOWN, k # "head" PROVE LineControl' /\ MessageControl'
  <2>1. ~InHead' /\ ~InBlob' /\ Consumed' = 0 /\ Taken' = Len(got)
    BY <1>1, <1>4 DEF InHead, InBlob, AtRest, Consumed, Taken
  <2>2. ReaderEnd(first, k, r)'
    BY <1>2, <1>4, <2>1 DEF ReaderEnd, BlobDue, Negotiating
  <2>3. Carried(wire', Held, Consumed', sent, sndQ, first, k, r, k1, r1)
    BY <1>1, <1>2, <2>1
  <2> QED
    BY <1>2, <1>4, <2>1, <2>2, <2>3, ReaderLine DEF MessageControl
<1>5. CASE k = "version"
  <2>1. Negotiating /\ len = 1
    BY <1>2, <1>5
  <2>2. /\ NegotiatedVer(LocalMinVer, LocalMaxVer, 1) = 1
        /\ NegotiationErr(LocalMinVer, LocalMaxVer, 1) = NoError
        /\ 1 # S_VER_UNKNOWN
    BY DEF NegotiatedVer, NegotiationErr, LocalMinVer, LocalMaxVer, S_VER_UNKNOWN
  <2> HIDE DEF len
  <2>3. rcvVer' = NegotiatedVer(LocalMinVer, LocalMaxVer, len)
        /\ (NegotiationErr(LocalMinVer, LocalMaxVer, len) = NoError =>
              rcvPc' = "readMsg" /\ rcvErr' = rcvErr)
    BY <2>1 DEF OnHeadPayload, len
  <2>4. rcvVer' # S_VER_UNKNOWN /\ rcvPc' = "readMsg" /\ rcvErr' = "ok"
    BY <1>1, <2>1, <2>2, <2>3
  <2> QED
    BY <1>4, <1>5, <2>4
<1>6. CASE k # "version"
  <2>1. OnMetaLength(len) /\ ~Negotiating /\ rcvVer' = rcvVer /\ rcvVer # S_VER_UNKNOWN
    BY <1>2, <1>6 DEF OnHeadPayload, Negotiating
  <2>2. S_META_BLOB_LENGTH_PING_SENTINEL \in Nat /\ S_META_BLOB_LENGTH_PING_SENTINEL >= 3
    <3>1. Base * Base >= 4 /\ Base * Base \in Nat
      BY BaseAssumption
    <3> QED
      BY <3>1 DEF S_META_BLOB_LENGTH_PING_SENTINEL
  <2>3. rcvTakesHandle /\ rcvHandle # NoHandle <=> GivenHandle # NoHandle
    BY DEF GivenHandle
  <2>4. CASE k = "ping"
    <3>1. len = S_META_BLOB_LENGTH_PING_SENTINEL
      BY <1>2, <2>4
    <3>2. rcvPc' = "readMsg" /\ rcvErr' = rcvErr
      BY <2>1, <2>2, <3>1 DEF OnMetaLength
    <3> QED
      BY <1>1, <1>4, <2>1, <2>4, <3>2
  <2>5. CASE k = "close"
    <3>1. len = 0 /\ GivenHandle = NoHandle /\ sndFinished /\ Len(got) = Len(sent)
      BY <1>2, <2>1, <2>5
    <3>2. rcvErr' = "RECEIVES_FINISHED_CANNOT_RECEIVE"
      BY <2>1, <2>2, <2>3, <3>1 DEF OnMetaLength, RcvFails
    <3> QED
      BY <3>1, <3>2, ErrorEnds DEF RcvNoError
  <2>6. CASE k = "head"
    <3>1. /\ r \in 1 .. Len(sent) /\ r = Len(got) + 1 /\ len = Len(sent[r].b) /\ GivenHandle = sent[r].h
          /\ Len(got) < Len(sent)
      BY <1>2, <1>3, <2>1, <2>6
    <3>2. /\ sent[r] = [h |-> sent[r].h, b |-> sent[r].b] /\ sent[r].b \in Seq(Byte)
          /\ sent[r].h # NoHandle \/ sent[r].b # <<>>
      <4>1. sent[r] \in Message
        BY <1>3, <3>1
      <4> QED
        BY <4>1, MessageAssumption DEF Payload, Blob
    <3>3. /\ len \in Nat /\ len < S_META_BLOB_LENGTH_PING_SENTINEL /\ (len = 0 <=> sent[r].b = <<>>)
      BY <2>2, <3>1, <3>2 DEF HistoryControl, S_MAX_META_BLOB_LENGTH
    <3> HIDE DEF len
    <3>4. CASE len # 0 /\ Fits(len)
      <4>1. /\ rcvMsgState' = "META_BLOB_PAYLOAD" /\ rcvLeft' = len /\ rcvPc' = "readBlob" /\ rcvErr' = rcvErr
        BY <2>1, <2>2, <3>3, <3>4 DEF OnMetaLength
      <4>2. ~InHead' /\ InBlob' /\ Consumed' = 0 /\ Taken' = Len(got) + 1
        BY <1>1, <4>1 DEF InHead, InBlob, AtRest, Consumed, Taken
      <4>3. ReaderEnd(first, k, r)'
        BY <1>3, <2>1, <2>6, <3>1, <3>3, <3>4, <4>2 DEF ReaderEnd, BlobDue, Negotiating
      <4>4. Carried(wire', Held, Consumed', sent, sndQ, first, k, r, k1, r1)
        BY <1>1, <1>2, <4>2
      <4>5. LineControl'
        BY <1>2, <4>3, <4>4, ReaderLine
      <4>6. MessageControl'
        <5>1. Len(rcvBlob') = 0 /\ rcvPc' # "done"
          BY <1>1, <4>1
        <5>2. sent'[Len(got') + 1] = sent[r]
          BY <1>1, <1>3, <3>1
        <5> QED
          BY <1>3, <3>1, <3>3, <4>1, <5>1, <5>2 DEF MessageControl
      <4> QED
        BY <1>1, <4>1, <4>5, <4>6
    <3>5. CASE len # 0 /\ ~Fits(len)
      <4>1. rcvErr' = "MESSAGE_SIZE_EXCEEDS_USER_STORAGE"
        BY <2>1, <2>2, <3>3, <3>5 DEF OnMetaLength, RcvFails
      <4>2. Len(sent[Len(got) + 1].b) > rcvSize
        BY <3>1, <3>3, <3>5 DEF Fits, StorageInv, StorageTypes
      <4> QED
        BY <3>1, <4>1, <4>2, ErrorEnds DEF RcvNoError
    <3>6. CASE len = 0
      <4>1. GivenHandle # NoHandle
        BY <3>1, <3>2, <3>3, <3>6
      <4>2. rcvPc' = "done" /\ rcvErr' = rcvErr
        BY <2>1, <2>2, <2>3, <3>6, <4>1 DEF OnMetaLength
      <4>3. ~InHead' /\ ~InBlob' /\ Consumed' = 0 /\ Taken' = Len(got) + 1
        BY <1>1, <4>2 DEF InHead, InBlob, AtRest, Consumed, Taken
      <4>4. ReaderEnd(first, k, r)'
        BY <1>3, <2>1, <2>6, <3>1, <3>3, <3>6, <4>3 DEF ReaderEnd, BlobDue, Negotiating
      <4>5. Carried(wire', Held, Consumed', sent, sndQ, first, k, r, k1, r1)
        BY <1>1, <1>2, <4>3
      <4>6. LineControl'
        BY <1>2, <4>4, <4>5, ReaderLine
      <4>7. MessageControl'
        <5>1. sent'[Len(got') + 1] = sent[r] /\ rcvBlob' = sent[r].b /\ GivenHandle' = sent[r].h
          BY <1>1, <1>3, <3>1, <3>3, <3>6
        <5>2. [h |-> GivenHandle', b |-> rcvBlob'] = sent[r]
          BY <3>2, <5>1
        <5> QED
          BY <4>3, <5>1, <5>2 DEF MessageControl
      <4> QED
        BY <1>1, <4>2, <4>6, <4>7
    <3> QED
      BY <3>4, <3>5, <3>6
  <2> QED
    BY <1>2, <1>6, <2>4, <2>5, <2>6
<1> QED
  BY <1>5, <1>6

(* Bytes of a payload that are read go behind those that were.             *)
LEMMA BytesGoOn ==
  ASSUME wire \in Seq(Unit), NEW p, NEW old \in Blob, NEW n \in 0 .. Len(wire), WireBytes(n) \in Blob,
         Len(WireBytes(n)) = n, \A i \in 1 .. Len(old) : old[i] = p.b[i],
         \A i \in 1 .. n : wire[i] = UnitAt(p, Len(old) + i)
  PROVE  \A i \in 1 .. Len(old \o WireBytes(n)) : (old \o WireBytes(n))[i] = p.b[i]
<1> DEFINE more == WireBytes(n)
<1>1. \A i \in 1 .. n : more[i] = p.b[Len(old) + i]
  <2>1. \A i \in 1 .. n : more[i] = wire[i].v
    BY BytesRead
  <2>2. \A i : UnitAt(p, Len(old) + i).v = p.b[Len(old) + i]
    BY DEF UnitAt
  <2> QED
    BY <2>1, <2>2
<1>2. old \in Seq(Byte) /\ more \in Seq(Byte) /\ Len(more) = n /\ Len(old) \in Nat /\ n \in Nat
  BY DEF Blob
<1> HIDE DEF more
<1>3. /\ Len(old \o more) = Len(old) + n
      /\ \A i \in 1 .. Len(old) + n :
           (old \o more)[i] = IF i <= Len(old) THEN old[i] ELSE more[i - Len(old)]
  BY <1>2, ConcatProperties
<1>4. ASSUME NEW i \in 1 .. Len(old) + n PROVE (old \o more)[i] = p.b[i]
  <2>1. CASE i <= Len(old)
    BY <1>2, <1>3, <2>1
  <2>2. CASE ~(i <= Len(old))
    <3>1. i - Len(old) \in 1 .. n /\ Len(old) + (i - Len(old)) = i
      BY <1>2, <2>2
    <3>2. (old \o more)[i] = more[i - Len(old)]
      BY <1>3, <2>2
    <3> QED
      BY <1>1, <3>1, <3>2
  <2> QED
    BY <2>1, <2>2
<1> QED
  BY <1>3, <1>4 DEF more

(* More of payload 1.                                                      *)
LEMMA MoreHeadLine ==
  ASSUME SndTypeOK, StorageInv, LineControl, Reads, UNCHANGED sndVars, rcvPc = "readBlob",
         rcvMsgState = "HEAD_PAYLOAD", NEW n \in ReadSizes(rcvLeft), ConsumeWire(n),
         rcvMeta' = rcvMeta \o WireBytes(n), rcvPc' = IF n < rcvLeft THEN "wait" ELSE "head",
         UNCHANGED <<rcvMsgState, rcvTakesHandle, rcvHandle, rcvVer, got>>
  PROVE  LineControl' /\ MessageControl'
<1>1. PICK first, k0, r0, k1, r1 :
        /\ Carried(wire, Held, Consumed, sent, sndQ, first, k0, r0, k1, r1)
        /\ SenderEnd(k1, r1) /\ ReaderEnd(first, k0, r0)
  BY ReaderStarts
<1>2. wire \in Seq(Unit) /\ Held \in Seq(Payload) /\ Len(sent) \in Nat /\ Len(wire) \in Nat
  BY ReaderStarts
<1>3. /\ InHead /\ ~InBlob /\ Consumed = Len(rcvMeta) /\ Taken = Len(got)
      /\ Len(rcvMeta) + rcvLeft = SizeofMetaLength /\ Len(rcvMeta) \in Nat /\ rcvLeft \in Nat
      /\ rcvMeta \in Blob
  BY DEF InHead, InBlob, AtRest, Consumed, Taken, StorageInv, StorageControl, StorageTypes, Blob
<1>4. /\ n \in 0 .. Len(wire) /\ n \in Nat /\ n <= rcvLeft /\ WireBytes(n) \in Blob /\ Len(WireBytes(n)) = n
  BY <1>2, <1>3, ReadTypes
<1>5. Len(rcvMeta') = Len(rcvMeta) + n
  BY <1>3, <1>4, MoreBytes
<1>6. /\ ~BlobDue(k0, r0, sent) /\ r0 = Len(got) /\ (k0 = "nothing" <=> Negotiating)
      /\ first # NoPayload /\ Len(rcvMeta) >= 1 /\ \A i \in 1 .. Len(rcvMeta) : rcvMeta[i] = first.b[i]
      /\ ~Negotiating => GivenHandle = first.h
  BY <1>1, <1>3 DEF ReaderEnd
<1>7. /\ \E k \in Kind, r \in 0 .. r1 : Follows(k, r, first, k0, r0, sent)
      /\ \A i \in 1 .. Len(wire) : Consumed + i <= Len(first.b) => wire[i] = UnitAt(first, Consumed + i)
  BY <1>1, <1>2, <1>6, CarriedEnds
<1>8. Len(first.b) = SizeofMetaLength
  BY <1>6, <1>7, NextHead
<1>9. \A i \in 1 .. n : wire[i] = UnitAt(first, Len(rcvMeta) + i)
  <2>1. \A i \in 1 .. n : i \in 1 .. Len(wire) /\ Consumed + i <= Len(first.b)
    BY <1>2, <1>3, <1>4, <1>8 DEF SizeofMetaLength
  <2> QED
    BY <1>3, <1>7, <2>1
<1>10. \A i \in 1 .. Len(rcvMeta') : rcvMeta'[i] = first.b[i]
  <2>1. \A i \in 1 .. Len(rcvMeta \o WireBytes(n)) : (rcvMeta \o WireBytes(n))[i] = first.b[i]
    BY <1>2, <1>3, <1>4, <1>6, <1>9, BytesGoOn
  <2> QED
    BY <2>1
<1>11. /\ InHead' /\ ~InBlob' /\ Consumed' = Consumed + n /\ Taken' = Len(got) /\ rcvPc' # "done"
       /\ GivenHandle' = GivenHandle /\ (Negotiating' <=> Negotiating) /\ sent' = sent
  BY <1>3, <1>5 DEF InHead, InBlob, AtRest, Consumed, Taken, GivenHandle, Negotiating, sndVars
<1>12. ReaderEnd(first, k0, r0)'
  <2>1. Len(rcvMeta') >= 1
    BY <1>3, <1>4, <1>5, <1>6
  <2> QED
    BY <1>6, <1>10, <1>11, <2>1 DEF ReaderEnd
<1>13. Carried(wire', Held, Consumed', sent, sndQ, first, k0, r0, k1, r1)
  <2>1. Carried(SubSeq(wire, n + 1, Len(wire)), Held, Consumed + n, sent, sndQ, first, k0, r0, k1, r1)
    BY <1>1, <1>2, <1>4, CarriedRead
  <2>2. wire' = SubSeq(wire, n + 1, Len(wire))
    BY DEF ConsumeWire
  <2> QED
    BY <1>11, <2>1, <2>2
<1>14. LineControl'
  BY <1>1, <1>12, <1>13, ReaderLine
<1> QED
  BY <1>11, <1>14 DEF MessageControl

(* More of the meta-blob.                                                  *)
LEMMA MoreBlobLine ==
  ASSUME SndTypeOK, StorageInv, LineControl, MessageControl, Reads, UNCHANGED sndVars,
         rcvPc = "readBlob", rcvMsgState = "META_BLOB_PAYLOAD", NEW n \in ReadSizes(rcvLeft),
         ConsumeWire(n), rcvBlob' = rcvBlob \o WireBytes(n), rcvLeft' = rcvLeft - n,
         rcvPc' = IF n < rcvLeft THEN "wait" ELSE "done",
         UNCHANGED <<rcvMsgState, rcvTakesHandle, rcvHandle, rcvVer, got>>
  PROVE  LineControl' /\ MessageControl'
<1>1. PICK first, k0, r0, k1, r1 :
        /\ Carried(wire, Held, Consumed, sent, sndQ, first, k0, r0, k1, r1)
        /\ SenderEnd(k1, r1) /\ ReaderEnd(first, k0, r0)
  BY ReaderStarts
<1>2. /\ wire \in Seq(Unit) /\ Held \in Seq(Payload) /\ Len(sent) \in Nat /\ Len(wire) \in Nat
      /\ sent \in Seq(Message)
  BY ReaderStarts
<1>3. /\ ~InHead /\ InBlob /\ Consumed = Len(rcvBlob) /\ Taken = Len(got) + 1
      /\ Len(rcvBlob) \in Nat /\ rcvLeft \in Nat /\ rcvBlob \in Blob
  BY DEF InHead, InBlob, AtRest, Consumed, Taken, StorageInv, StorageTypes, Blob
<1>4. /\ n \in 0 .. Len(wire) /\ n \in Nat /\ n >= 1 /\ n <= rcvLeft
      /\ WireBytes(n) \in Blob /\ Len(WireBytes(n)) = n
  BY <1>2, <1>3, ReadTypes
<1>5. rcvBlob' \in Blob /\ Len(rcvBlob') = Len(rcvBlob) + n
  BY <1>3, <1>4, MoreBytes
<1>6. BlobDue(k0, r0, sent) /\ r0 = Len(got) + 1 /\ (k0 = "nothing" <=> Negotiating) /\ k0 = "head"
  BY <1>1, <1>3 DEF ReaderEnd, BlobDue
<1>7. wire # <<>>
  BY <1>2, <1>4
<1>8. /\ first # NoPayload /\ r0 \in 0 .. Len(sent) /\ (k0 = "head" => r0 >= 1)
      /\ \E k \in Kind, r \in 0 .. r1 : Follows(k, r, first, k0, r0, sent)
      /\ \A i \in 1 .. Len(wire) : Consumed + i <= Len(first.b) => wire[i] = UnitAt(first, Consumed + i)
  BY <1>1, <1>2, <1>7, CarriedEnds
<1> PICK next : next = sent[r0]
  OBVIOUS
<1>9. next \in Message /\ next \in Payload /\ next = [h |-> next.h, b |-> next.b] /\ next.b \in Seq(Byte)
  <2>1. r0 \in 1 .. Len(sent)
    BY <1>2, <1>6, <1>8
  <2>2. next \in Message
    BY <1>2, <2>1
  <2> QED
    BY <2>2, MessageAssumption DEF Payload, Blob
<1>10. ASSUME NEW k, NEW r, Follows(k, r, first, k0, r0, sent)
       PROVE  k = "blob" /\ r = r0 /\ first.b = next.b
  <2>1. k = "blob" /\ r = r0 /\ first = PayloadOf(k, sent[r])
    BY <1>6, <1>10 DEF Follows
  <2> QED
    BY <2>1 DEF PayloadOf
<1>11. first.b = next.b
  BY <1>8, <1>10
<1>12. /\ Len(rcvBlob) + rcvLeft = Len(next.b)
       /\ \A i \in 1 .. Len(rcvBlob) : rcvBlob[i] = next.b[i]
       /\ GivenHandle = next.h
  BY <1>3, <1>6 DEF MessageControl
<1>13. \A i \in 1 .. Len(rcvBlob') : rcvBlob'[i] = next.b[i]
  <2>0. /\ n \in Nat /\ n <= Len(wire) /\ Len(wire) \in Nat /\ n <= rcvLeft /\ rcvLeft \in Nat
        /\ Consumed \in Nat /\ Consumed + rcvLeft = Len(next.b)
    BY <1>2, <1>3, <1>4, <1>12
  <2>1. \A i \in 1 .. n : i \in 1 .. Len(wire) /\ Consumed + i <= Len(next.b)
    BY <2>0
  <2>2. \A i \in 1 .. n : wire[i] = UnitAt(first, Len(rcvBlob) + i)
    BY <1>3, <1>8, <1>11, <2>1
  <2>3. \A i \in 1 .. Len(rcvBlob) : rcvBlob[i] = first.b[i]
    BY <1>11, <1>12
  <2>4. \A i \in 1 .. Len(rcvBlob \o WireBytes(n)) : (rcvBlob \o WireBytes(n))[i] = first.b[i]
    BY <1>2, <1>3, <1>4, <2>2, <2>3, BytesGoOn
  <2> QED
    BY <1>11, <2>4
<1>14. GivenHandle' = GivenHandle /\ (Negotiating' <=> Negotiating) /\ sent' = sent /\ got' = got
  BY DEF GivenHandle, Negotiating, sndVars
<1>15. Carried(wire', Held, Consumed + n, sent, sndQ, first, k0, r0, k1, r1)
  <2>1. Carried(SubSeq(wire, n + 1, Len(wire)), Held, Consumed + n, sent, sndQ, first, k0, r0, k1, r1)
    BY <1>1, <1>2, <1>4, CarriedRead
  <2>2. wire' = SubSeq(wire, n + 1, Len(wire))
    BY DEF ConsumeWire
  <2> QED
    BY <2>1, <2>2
<1>16. CASE n < rcvLeft
  <2>1. rcvPc' = "wait"
    BY <1>16
  <2>2. ~InHead' /\ InBlob' /\ Consumed' = Consumed + n /\ Taken' = Len(got) + 1
    BY <1>3, <1>5, <2>1 DEF InHead, InBlob, AtRest, Consumed, Taken
  <2>3. ReaderEnd(first, k0, r0)'
    BY <1>6, <1>14, <2>2 DEF ReaderEnd
  <2>4. Carried(wire', Held, Consumed', sent, sndQ, first, k0, r0, k1, r1)
    BY <1>15, <2>2
  <2>5. LineControl'
    BY <1>1, <2>3, <2>4, ReaderLine
  <2>6. Len(rcvBlob') + rcvLeft' = Len(next.b)
    BY <1>3, <1>4, <1>5, <1>12
  <2>7. sent'[Len(got') + 1] = next
    BY <1>6, <1>14
  <2>8. MessageControl'
    BY <1>12, <1>13, <1>14, <2>1, <2>6, <2>7 DEF MessageControl
  <2> QED
    BY <2>5, <2>8
<1>17. CASE ~(n < rcvLeft)
  <2>1. rcvPc' = "done" /\ n = rcvLeft
    BY <1>3, <1>4, <1>17
  <2>2. ~InHead' /\ ~InBlob' /\ Consumed' = 0 /\ Taken' = Len(got) + 1
    BY <2>1, <1>14 DEF InHead, InBlob, AtRest, Consumed, Taken
  <2>3. Consumed + n = Len(first.b)
    BY <1>3, <1>11, <1>12, <2>1
  <2>4. wire' \in Seq(Unit)
    BY <1>2, <1>3, ReadTypes DEF ConsumeWire
  <2>5. PICK first2, k, r : /\ Carried(wire', Held, 0, sent, sndQ, first2, k, r, k1, r1)
                            /\ Follows(k, r, first, k0, r0, sent)
    BY <1>2, <1>8, <1>15, <2>3, <2>4, CarriedPop
  <2>6. k = "blob" /\ r = r0
    BY <1>10, <2>5
  <2>7. ReaderEnd(first2, k, r)'
    BY <1>6, <1>14, <2>2, <2>6 DEF ReaderEnd, BlobDue
  <2>8. Carried(wire', Held, Consumed', sent, sndQ, first2, k, r, k1, r1)
    BY <2>2, <2>5
  <2>9. LineControl'
    BY <1>1, <2>7, <2>8, ReaderLine
  <2>10. rcvBlob' = next.b
    <3>1. Len(rcvBlob') = Len(next.b)
      BY <1>5, <1>12, <2>1
    <3>2. rcvBlob' \in Seq(Byte) /\ next.b \in Seq(Byte)
      BY <1>5, <1>9 DEF Blob
    <3> QED
      BY <1>13, <3>1, <3>2, SeqEqual
  <2>11. sent'[Len(got') + 1] = next
    BY <1>6, <1>14
  <2>12. MessageControl'
    <3>1. [h |-> GivenHandle', b |-> rcvBlob'] = next
      BY <1>9, <1>12, <1>14, <2>10
    <3> QED
      BY <2>2, <2>11, <3>1 DEF MessageControl
  <2> QED
    BY <2>9, <2>12
<1> QED
  BY <1>16, <1>17

(* rcv_read_blob().                                                        *)
LEMMA ReadBlobLine ==
  ASSUME SndTypeOK, StorageInv, LineControl, MessageControl, Reads, UNCHANGED sndVars,
         rcvMsgState \in MsgState, ReadBlob
  PROVE  /\ LineControl' /\ MessageControl'
         /\ rcvErr' \in {"ok", "SYS_ERROR", "LOW_LVL_TRANSPORT_HOSED_CANNOT_RECEIVE"}
<1> USE DEF rcvReqVars, rcvHistVars, rcvDataVars, rcvReadVars, wireVars
<1>1. rcvPc = "readBlob" /\ rcvErr = "ok" /\ UNCHANGED <<rcvTakesHandle, got>> /\ rcvMsgState # "MSG_START"
  BY DEF ReadBlob, StorageInv, StorageControl, Reads, RcvNoError
<1>2. CASE NbReadFails
  <2>1. rcvErr' \in {"SYS_ERROR", "LOW_LVL_TRANSPORT_HOSED_CANNOT_RECEIVE"}
    BY <1>2 DEF NbReadFails
  <2> QED
    BY <2>1, ErrorEnds
<1>3. CASE rcvPc' = "wait" /\ UNCHANGED <<wire, rcvDataVars, rcvErr, rcvVer, rcvReadVars>>
  <2>1. /\ InHead' = InHead /\ InBlob' = InBlob /\ Taken' = Taken
        /\ GivenHandle' = GivenHandle /\ rcvPc' # "done"
    BY <1>1, <1>3 DEF InHead, InBlob, AtRest, Taken, GivenHandle
  <2>2. LineControl'
    <3>1. UNCHANGED <<wire, rcvVer, sndVars>> /\ rcvMeta' = rcvMeta /\ rcvBlob' = rcvBlob
      BY <1>3
    <3> QED
      BY <2>1, <3>1, ReaderStays
  <2>3. MessageControl'
    <3>1. sent' = sent
      BY DEF sndVars
    <3> QED
      BY <1>1, <1>3, <2>1, <3>1 DEF MessageControl
  <2> QED
    BY <1>1, <1>3, <2>2, <2>3
<1>4. ASSUME NEW n \in ReadSizes(rcvLeft), ConsumeWire(n),
             IF rcvMsgState = "HEAD_PAYLOAD"
               THEN rcvMeta' = rcvMeta \o WireBytes(n) /\ UNCHANGED rcvBlob
               ELSE rcvBlob' = rcvBlob \o WireBytes(n) /\ UNCHANGED rcvMeta,
             rcvLeft' = rcvLeft - n,
             rcvPc' = IF n < rcvLeft THEN "wait"
                      ELSE IF rcvMsgState = "HEAD_PAYLOAD" THEN "head" ELSE "done",
             UNCHANGED <<rcvHandle, rcvErr, rcvVer, rcvMsgState>>
      PROVE  LineControl' /\ MessageControl' /\ rcvErr' = "ok"
  <2>1. UNCHANGED <<rcvMsgState, rcvTakesHandle, rcvHandle, rcvVer, got>> /\ rcvErr' = "ok"
    BY <1>1, <1>4
  <2>2. CASE rcvMsgState = "HEAD_PAYLOAD"
    <3>1. rcvMeta' = rcvMeta \o WireBytes(n) /\ rcvPc' = IF n < rcvLeft THEN "wait" ELSE "head"
      BY <1>4, <2>2
    <3> QED
      BY <1>1, <1>4, <2>1, <2>2, <3>1, MoreHeadLine
  <2>3. CASE rcvMsgState = "META_BLOB_PAYLOAD"
    <3>1. rcvBlob' = rcvBlob \o WireBytes(n) /\ rcvPc' = IF n < rcvLeft THEN "wait" ELSE "done"
      BY <1>4, <2>3
    <3> QED
      BY <1>1, <1>4, <2>1, <2>3, <3>1, MoreBlobLine
  <2> QED
    BY <1>1, <2>2, <2>3 DEF MsgState
<1>5. \/ NbReadFails
      \/ rcvPc' = "wait" /\ UNCHANGED <<wire, rcvDataVars, rcvErr, rcvVer, rcvReadVars>>
      \/ \E n \in ReadSizes(rcvLeft) :
           /\ ConsumeWire(n)
           /\ IF rcvMsgState = "HEAD_PAYLOAD"
                THEN rcvMeta' = rcvMeta \o WireBytes(n) /\ UNCHANGED rcvBlob
                ELSE rcvBlob' = rcvBlob \o WireBytes(n) /\ UNCHANGED rcvMeta
           /\ rcvLeft' = rcvLeft - n
           /\ rcvPc' = IF n < rcvLeft THEN "wait"
                       ELSE IF rcvMsgState = "HEAD_PAYLOAD" THEN "head" ELSE "done"
           /\ UNCHANGED <<rcvHandle, rcvErr, rcvVer, rcvMsgState>>
  BY DEF ReadBlob
<1> QED
  BY <1>2, <1>3, <1>4, <1>5

(* The receiver's steps that read nothing and report nothing.              *)
LEMMA ReaderQuiet ==
  ASSUME SndTypeOK, StorageInv, LineControl, MessageControl, Reads, UNCHANGED sndVars,
         UNCHANGED <<wire, rcvVer, rcvMeta, rcvBlob, got, rcvHandle, rcvLeft>>,
         InHead' <=> InHead, InBlob' <=> InBlob, rcvPc # "done", rcvPc' # "done",
         InHead \/ InBlob => rcvTakesHandle' = rcvTakesHandle
  PROVE  LineControl' /\ MessageControl'
<1>1. InHead \/ InBlob => GivenHandle' = GivenHandle
  BY DEF GivenHandle
<1>2. Taken' = Taken /\ sent' = sent
  BY DEF Taken, sndVars
<1>3. UNCHANGED <<wire, rcvVer, sndVars>>
  OBVIOUS
<1>4. LineControl'
  BY <1>1, <1>2, <1>3, ReaderStays
<1>5. MessageControl'
  BY <1>1, <1>2 DEF MessageControl
<1> QED
  BY <1>4, <1>5

(* Neither starting nor a timer of the receiver touches what is read.      *)
LEMMA ReaderIdles ==
  ASSUME RequestInv, CallControl, StorageInv, Reads, StartReceiveOps \/ IdleTimerRun \/ RcvTimerThread
           \/ RcvSockHosedBySendOps
  PROVE  /\ UNCHANGED <<wire, rcvVer, rcvMeta, rcvBlob, got, rcvHandle, rcvLeft, rcvMsgState>>
         /\ UNCHANGED <<rcvPc, rcvErr, rcvTakesHandle, rcvPending, rcvSize, rcvOpen, sndOpen>>
BY DEF StartReceiveOps, IdleTimerRun, RcvTimerThread, IdleTimerExpires, IdleTimerSignals,
       RcvSockHosedBySendOps, rcvNoTimerVars, wireVars, rcvReqVars, rcvDataVars, rcvReadVars, rcvHistVars

(* The steps that only move the receiver.                                  *)
LEMMA ReaderMoves ==
  ASSUME SndTypeOK, RequestInv, StorageInv, CallControl, LineControl, MessageControl, Reads,
         UNCHANGED sndVars,
         \/ StartReceiveOps \/ IdleTimerRun \/ RcvTimerThread \/ RcvSockHosedBySendOps
         \/ \E takesHandle \in BOOLEAN, size \in StorageSize : AsyncReceive(takesHandle, size)
         \/ OnEvIdleTimerFired \/ OnEvPeerSocketReadable \/ AwaitReadable
  PROVE  LineControl' /\ MessageControl'
<1> USE DEF rcvReqVars, rcvDataVars, rcvReadVars, rcvHistVars, wireVars
<1>1. rcvErr = "ok" /\ rcvOpen /\ ~RcvOver
  BY DEF Reads, RcvOver, RcvNoError
<1>2. CASE StartReceiveOps \/ IdleTimerRun \/ RcvTimerThread \/ RcvSockHosedBySendOps
  <2>1. UNCHANGED <<wire, rcvVer, rcvMeta, rcvBlob, got, rcvHandle, rcvLeft, rcvMsgState>>
        /\ UNCHANGED <<rcvPc, rcvErr, rcvTakesHandle>>
    BY <1>2, ReaderIdles
  <2>2. InHead' = InHead /\ InBlob' = InBlob /\ Taken' = Taken /\ GivenHandle' = GivenHandle /\ sent' = sent
    BY <2>1 DEF InHead, InBlob, AtRest, Taken, GivenHandle, sndVars
  <2>3. UNCHANGED <<wire, rcvVer, sndVars>> /\ rcvMeta' = rcvMeta /\ rcvBlob' = rcvBlob
    BY <2>1
  <2>4. LineControl'
    BY <2>2, <2>3, ReaderStays
  <2>5. MessageControl'
    BY <2>1, <2>2 DEF MessageControl, Reads
  <2> QED
    BY <2>4, <2>5
<1>3. ASSUME NEW takesHandle \in BOOLEAN, NEW size \in StorageSize, AsyncReceive(takesHandle, size)
      PROVE  LineControl' /\ MessageControl'
  <2>1. /\ rcvPc = "idle" /\ ~rcvPending /\ rcvPc' = "readMsg"
        /\ UNCHANGED <<wire, rcvVer, rcvMeta, rcvBlob, got, rcvHandle, rcvLeft>>
    BY <1>1, <1>3 DEF AsyncReceive, RcvIdle
  <2>2. rcvMsgState = "MSG_START"
    BY <2>1 DEF CallControl
  <2>3. ~InHead /\ ~InBlob /\ ~InHead' /\ ~InBlob'
    BY <2>1, <2>2 DEF InHead, InBlob, AtRest
  <2> QED
    BY <2>1, <2>3, ReaderQuiet
<1>4. CASE OnEvIdleTimerFired
  <2>1. rcvErr' = "RECEIVER_IDLE_TIMEOUT"
    BY <1>1, <1>4 DEF OnEvIdleTimerFired
  <2> QED
    BY <2>1, ErrorEnds DEF RcvNoError
<1>5. CASE OnEvPeerSocketReadable
  <2>1. /\ rcvPc = "idle" /\ rcvEvWait # NotWaiting
        /\ rcvPc' = IF rcvEvWait = "MSG_START" THEN "readMsg" ELSE "readBlob"
        /\ UNCHANGED <<wire, rcvVer, rcvMeta, rcvBlob, got, rcvHandle, rcvLeft, rcvMsgState>>
        /\ rcvTakesHandle' = rcvTakesHandle
    BY <1>1, <1>5 DEF OnEvPeerSocketReadable, RcvIdle
  <2>2. rcvEvWait = rcvMsgState
    BY <1>1, <2>1 DEF StorageInv, StorageControl
  <2>3. (InHead' <=> InHead) /\ (InBlob' <=> InBlob) /\ rcvPc # "done" /\ rcvPc' # "done"
    BY <2>1, <2>2 DEF InHead, InBlob, AtRest
  <2> QED
    BY <2>1, <2>3, ReaderQuiet
<1>6. CASE AwaitReadable
  <2>1. CASE rcvSock
    <3>1. /\ rcvPc = "wait" /\ rcvPc' = "idle" /\ rcvTakesHandle' = rcvTakesHandle
          /\ UNCHANGED <<wire, rcvVer, rcvMeta, rcvBlob, got, rcvHandle, rcvLeft, rcvMsgState>>
      BY <1>6, <2>1 DEF AwaitReadable
    <3>2. (InHead' <=> InHead) /\ (InBlob' <=> InBlob) /\ rcvPc # "done" /\ rcvPc' # "done"
      BY <3>1 DEF InHead, InBlob, AtRest
    <3> QED
      BY <3>1, <3>2, ReaderQuiet
  <2>2. CASE ~rcvSock
    <3>1. rcvErr' = "LOW_LVL_TRANSPORT_HOSED_CANNOT_RECEIVE"
      BY <1>6, <2>2 DEF AwaitReadable, RcvFails
    <3> QED
      BY <3>1, ErrorEnds
  <2> QED
    BY <2>1, <2>2
<1> QED
  BY <1>2, <1>3, <1>4, <1>5, <1>6

(* What a successful result reports.                                       *)
LEMMA NextReported ==
  ASSUME SndTypeOK, StorageInv, LineControl, MessageControl, HistoryControl, Reads, ReportResult
  PROVE  /\ got' = Append(got, sent[Len(got) + 1]) /\ Len(got) < Len(sent)
         /\ sent[Len(got) + 1] \in Message
<1>1. rcvPc = "done" /\ rcvErr = RcvNoError
  BY DEF ReportResult, Reads
<1>2. PICK first, k0, r0, k1, r1 :
        /\ Carried(wire, Held, Consumed, sent, sndQ, first, k0, r0, k1, r1)
        /\ SenderEnd(k1, r1) /\ ReaderEnd(first, k0, r0)
  BY ReaderStarts
<1>3. /\ wire \in Seq(Unit) /\ Held \in Seq(Payload) /\ Len(sent) \in Nat /\ sent \in Seq(Message)
      /\ Len(got) \in Nat
  BY ReaderStarts DEF HistoryControl
<1>4. r0 \in 0 .. Len(sent)
  BY <1>2, <1>3, CarriedEnds
<1>5. r0 = Len(got) + 1
  BY <1>1, <1>2 DEF ReaderEnd, Taken
<1>6. Len(got) < Len(sent) /\ sent[Len(got) + 1] \in Message
  BY <1>3, <1>4, <1>5
<1>7. [h |-> GivenHandle, b |-> rcvBlob] = sent[Len(got) + 1]
  BY <1>1 DEF MessageControl
<1>8. got' = Append(got, [h |-> GivenHandle, b |-> rcvBlob])
  BY <1>1 DEF ReportResult, GivenHandle
<1> QED
  BY <1>6, <1>7, <1>8

(* The line after a message is given to the user.                          *)
LEMMA ResultLine ==
  ASSUME SndTypeOK, StorageInv, LineControl, MessageControl, HistoryControl, Reads, ReportResult,
         UNCHANGED sndVars
  PROVE  LineControl' /\ MessageControl'
<1>1. rcvPc = "done" /\ rcvPc' = "idle" /\ rcvMsgState' = "MSG_START" /\ UNCHANGED <<wire, rcvVer>>
  BY DEF ReportResult, ResetRequest, wireVars
<1>2. ~InHead /\ ~InBlob /\ ~InHead' /\ ~InBlob' /\ Taken = Len(got) + 1 /\ Taken' = Len(got')
  BY <1>1 DEF InHead, InBlob, AtRest, Taken
<1>3. Len(got') = Len(got) + 1
  BY NextReported DEF HistoryControl
<1>4. UNCHANGED <<wire, rcvVer, sndVars>>
  BY <1>1
<1>5. LineControl'
  BY <1>2, <1>3, <1>4, ReaderStays
<1> QED
  BY <1>1, <1>2, <1>5 DEF MessageControl

(* The line, whatever the receiver does.                                   *)
LEMMA ReceiverKeepsLine ==
  ASSUME SndTypeOK, RequestInv, StorageInv, CallControl, LineControl, MessageControl, HistoryControl,
         Reads, UNCHANGED sndVars,
         RcvUser \/ RcvSteps \/ RcvEvents \/ RcvTimerThread \/ RcvSockHosedBySendOps
  PROVE  LineControl' /\ MessageControl'
<1>1. CASE ReadMsg
  BY <1>1, ReadMsgLine
<1>2. CASE OnHeadPayload
  BY <1>2, HeadPayloadLine
<1>3. CASE ReadBlob
  <2>1. rcvMsgState \in MsgState
    BY DEF RequestInv, RequestTypes
  <2> QED
    BY <1>3, <2>1, ReadBlobLine
<1>4. CASE ReportResult
  BY <1>4, ResultLine
<1>5. CASE RcvUser \/ RcvEvents \/ RcvTimerThread \/ RcvSockHosedBySendOps \/ AwaitReadable
  <2>1. \/ StartReceiveOps \/ IdleTimerRun \/ RcvTimerThread \/ RcvSockHosedBySendOps
        \/ \E takesHandle \in BOOLEAN, size \in StorageSize : AsyncReceive(takesHandle, size)
        \/ OnEvIdleTimerFired \/ OnEvPeerSocketReadable \/ AwaitReadable
    BY <1>5 DEF RcvUser, RcvEvents
  <2> QED
    BY <2>1, ReaderMoves
<1> QED
  BY <1>1, <1>2, <1>3, <1>4, <1>5 DEF RcvSteps

-----------------------------------------------------------------------------
(* The errors of the receiver.                                             *)

(* What a step that changes the error tells of the other side.             *)
ErrorExplained ==
  /\ rcvErr' \notin NegotiationErrors
  /\ rcvErr' \in {"SYS_ERROR", "LOW_LVL_TRANSPORT_HOSED_CANNOT_RECEIVE"} => ~sndOpen
  /\ rcvErr' = "BLOB_RECEIVER_GOT_NON_BLOB" =>
       Len(got) < Len(sent) /\ sent[Len(got) + 1].h # NoHandle /\ ~rcvTakesHandle
  /\ rcvErr' = "MESSAGE_SIZE_EXCEEDS_USER_STORAGE" =>
       Len(got) < Len(sent) /\ Len(sent[Len(got) + 1].b) > rcvSize
  /\ rcvErr' = "RECEIVES_FINISHED_CANNOT_RECEIVE" => sndFinished /\ Len(got) = Len(sent)

(* A direction that is in good health is told only what is so.             *)
LEMMA ErrorsExplained ==
  ASSUME SndTypeOK, RequestInv, StorageInv, CallControl, LineControl, MessageControl, HistoryControl,
         Reads, UNCHANGED sndVars,
         RcvUser \/ RcvSteps \/ RcvEvents \/ RcvTimerThread \/ RcvSockHosedBySendOps
  PROVE  ErrorExplained /\ (rcvErr' # rcvErr => UNCHANGED got)
<1>1. rcvErr = "ok" /\ rcvOpen /\ ~RcvOver
  BY DEF Reads, RcvOver, RcvNoError
<1>2. ASSUME rcvErr' \in {"ok", "RECEIVER_IDLE_TIMEOUT"} PROVE ErrorExplained
  BY <1>2 DEF ErrorExplained, NegotiationErrors, OpposingVerInvalid, OpposingVerTooOld
<1>3. ASSUME rcvErr' \in {"SYS_ERROR", "LOW_LVL_TRANSPORT_HOSED_CANNOT_RECEIVE"}, ~sndOpen
      PROVE  ErrorExplained
  BY <1>3 DEF ErrorExplained, NegotiationErrors, OpposingVerInvalid, OpposingVerTooOld
<1>4. CASE ReadMsg \/ ReadBlob
  <2>1. UNCHANGED got
    BY <1>4 DEF ReadMsg, ReadBlob, rcvHistVars
  <2>2. CASE NbReadFails
    <3>1. rcvErr' \in {"SYS_ERROR", "LOW_LVL_TRANSPORT_HOSED_CANNOT_RECEIVE"} /\ ~sndOpen
      BY <2>2 DEF NbReadFails, CallControl
    <3> QED
      BY <1>3, <2>1, <3>1
  <2>3. CASE ReadMsg /\ ~NbReadFails
    <3>1. ASSUME NEW n, OnHandleFinalized(HandleAmong(n), n)
          PROVE  rcvErr' \notin {"SYS_ERROR", "LOW_LVL_TRANSPORT_HOSED_CANNOT_RECEIVE"}
      BY <1>1, <3>1 DEF OnHandleFinalized, RcvFails, NegotiationErr, OpposingVerInvalid, OpposingVerTooOld,
                        NoError
    <3>2. rcvErr' \notin {"SYS_ERROR", "LOW_LVL_TRANSPORT_HOSED_CANNOT_RECEIVE"}
      BY <1>1, <2>3, <3>1 DEF ReadMsg
    <3>3. /\ rcvErr' \notin NegotiationErrors
          /\ rcvErr' \notin {"RECEIVES_FINISHED_CANNOT_RECEIVE", "MESSAGE_SIZE_EXCEEDS_USER_STORAGE"}
          /\ rcvErr' = "BLOB_RECEIVER_GOT_NON_BLOB" =>
               Len(got) < Len(sent) /\ sent[Len(got) + 1].h # NoHandle /\ ~rcvTakesHandle
      BY <2>3, ReadMsgLine
    <3> QED
      BY <2>1, <3>2, <3>3 DEF ErrorExplained
  <2>4. CASE ReadBlob /\ ~NbReadFails
    <3>1. rcvErr' = "ok"
      BY <1>1, <2>4 DEF ReadBlob
    <3> QED
      BY <1>2, <2>1, <3>1
  <2> QED
    BY <1>4, <2>2, <2>3, <2>4
<1>5. CASE OnHeadPayload
  <2>1. UNCHANGED got
    BY <1>5 DEF OnHeadPayload, rcvHistVars
  <2>2. /\ rcvErr' \in {"ok", "RECEIVES_FINISHED_CANNOT_RECEIVE", "MESSAGE_SIZE_EXCEEDS_USER_STORAGE"}
        /\ rcvErr' = "MESSAGE_SIZE_EXCEEDS_USER_STORAGE" =>
             Len(got) < Len(sent) /\ Len(sent[Len(got) + 1].b) > rcvSize
        /\ rcvErr' = "RECEIVES_FINISHED_CANNOT_RECEIVE" => sndFinished /\ Len(got) = Len(sent)
    BY <1>5, HeadPayloadLine
  <2> QED
    BY <2>1, <2>2 DEF ErrorExplained, NegotiationErrors, OpposingVerInvalid, OpposingVerTooOld
<1>6. CASE AwaitReadable
  <2>1. UNCHANGED got /\ (rcvErr' = "ok" \/ (rcvErr' = "LOW_LVL_TRANSPORT_HOSED_CANNOT_RECEIVE" /\ ~rcvSock))
    BY <1>1, <1>6 DEF AwaitReadable, RcvFails, rcvHistVars
  <2> QED
    BY <1>2, <1>3, <2>1 DEF CallControl
<1>7. CASE OnEvIdleTimerFired
  <2>1. UNCHANGED got /\ rcvErr' = "RECEIVER_IDLE_TIMEOUT"
    BY <1>1, <1>7 DEF OnEvIdleTimerFired
  <2> QED
    BY <1>2, <2>1
<1>8. CASE ReportResult
  <2>1. UNCHANGED rcvErr
    BY <1>8 DEF ReportResult
  <2> QED
    BY <1>1, <1>2, <2>1
<1>9. CASE RcvUser \/ OnEvPeerSocketReadable \/ RcvTimerThread \/ RcvSockHosedBySendOps
  <2>1. UNCHANGED <<got, rcvErr>>
    BY <1>9 DEF RcvUser, StartReceiveOps, AsyncReceive, IdleTimerRun, OnEvPeerSocketReadable, RcvTimerThread,
       IdleTimerExpires, IdleTimerSignals, RcvSockHosedBySendOps, rcvNoTimerVars, rcvHistVars
  <2> QED
    BY <1>1, <1>2, <2>1
<1> QED
  BY <1>4, <1>5, <1>6, <1>7, <1>8, <1>9 DEF RcvSteps, RcvEvents

(* The first error is the only one; nothing is received after it.          *)
LEMMA ReceiverStops ==
  ASSUME RequestInv, rcvErr # RcvNoError,
         RcvUser \/ RcvSteps \/ RcvEvents \/ RcvTimerThread \/ RcvSockHosedBySendOps
  PROVE  UNCHANGED <<got, rcvErr>>
<1>1. rcvPc \notin {"readMsg", "head", "readBlob", "wait"}
  BY DEF RequestInv, PendingIffWaiting
<1>2. CASE RcvUser \/ OnEvPeerSocketReadable \/ RcvTimerThread \/ RcvSockHosedBySendOps
  BY <1>2 DEF RcvUser, StartReceiveOps, AsyncReceive, IdleTimerRun, OnEvPeerSocketReadable, RcvTimerThread,
       IdleTimerExpires, IdleTimerSignals, RcvSockHosedBySendOps, rcvNoTimerVars, rcvHistVars
<1>3. CASE OnEvIdleTimerFired
  BY <1>3 DEF OnEvIdleTimerFired, RcvOver
<1>4. CASE RcvSteps
  BY <1>1, <1>4 DEF RcvSteps, ReadMsg, OnHeadPayload, ReadBlob, AwaitReadable, ReportResult
<1> QED
  BY <1>2, <1>3, <1>4 DEF RcvEvents

(* What one direction's invariant sees of the other's steps.               *)
LEMMA RcvInvStays ==
  ASSUME RcvInv, UNCHANGED rcvVars, wire' \in Seq(Unit) PROVE RcvInv'
<1>1. /\ UNCHANGED <<rcvReqVars, rcvDataVars, rcvReadVars, rcvEvWait, rcvPc, rcvErr>>
      /\ UNCHANGED <<rcvPending, rcvMsgState, rcvCalls, rcvResults>>
      /\ UNCHANGED <<idleWaits, idleFired, idleBytes, idleEvWait, idleOn>>
  BY DEF rcvVars, rcvReqVars, rcvDataVars, rcvReadVars, rcvHistVars, idleVars, idleTimerVars
<1>2. RequestInv'
  BY <1>1 DEF RcvInv, RequestInv, RequestTypes, PendingIffWaiting, OneResultPerReceive
<1>3. IdleInv'
  BY <1>1 DEF RcvInv, IdleInv, IdleTimerArmed, IdleTimer!TypeOK, IdleTimer!Outstanding
<1>4. StorageInv'
  BY <1>1, StorageStays DEF RcvInv
<1> QED
  BY <1>2, <1>3, <1>4 DEF RcvInv

(* Another's step leaves the sender's invariant.                           *)
LEMMA SndInvStays ==
  ASSUME SndInv, UNCHANGED sndVars, WireTypeOK' PROVE SndInv'
<1>1. /\ UNCHANGED <<sndSock, sndStarted, sndQ, sndErr, sndFinished, sndOnDone, sndEvWait>>
      /\ UNCHANGED <<sndPc, sndOp, sndCur, sndRest, sent, endCall, pings>>
      /\ UNCHANGED <<pingWaits, pingFired, pingBytes, pingEvWait, pingOn>>
  BY DEF sndVars, sndCoreVars, sndCallVars, pingTimerVars
<1>2. SndTypeOK'
  BY <1>1 DEF SndInv, SndTypeOK, SndCallTypeOK, PingTimer!TypeOK
<1>3. SndControl'
  BY <1>1 DEF SndInv, SndControl, QueueControl, PingControl, EndControl, PingTimer!Outstanding
<1> QED
  BY <1>2, <1>3 DEF SndInv

(* To the sender the receiver is the kernel's buffer being emptied.        *)
LEMMA ReceiverDrains ==
  ASSUME wire \in Seq(Unit), rcvLeft \in Nat, rcvOpen, UNCHANGED sndVars,
         RcvUser \/ RcvSteps \/ RcvEvents \/ RcvTimerThread
  PROVE  [SndNext]_sndAllVars
<1>1. CASE UNCHANGED wireVars
  BY <1>1 DEF sndAllVars
<1>2. ASSUME NEW want \in Nat, NEW n \in ReadSizes(want), ConsumeWire(n), UNCHANGED <<sndOpen, rcvOpen>>
      PROVE  SndNext
  <2>1. n \in 1 .. Len(wire)
    <3>1. n \in Nat /\ 1 <= n /\ n <= Len(wire)
      BY <1>2, ReadTypes
    <3>2. Len(wire) \in Nat
      OBVIOUS
    <3> QED
      BY <3>1, <3>2
  <2>2. KernelDrains
    BY <1>2, <2>1 DEF KernelDrains, ConsumeWire
  <2> QED
    BY <2>2 DEF SndNext, SndEnvironment
<1>3. CASE ReadMsg
  <2>1. UNCHANGED wireVars \/ \E n \in ReadSizes(SizeofMetaLength) : ConsumeWire(n)
    BY <1>3 DEF ReadMsg, NbReadFails, wireVars
  <2>2. SizeofMetaLength \in Nat /\ UNCHANGED <<sndOpen, rcvOpen>>
    BY <1>3 DEF ReadMsg, SizeofMetaLength
  <2> QED
    BY <1>1, <1>2, <2>1, <2>2
<1>4. CASE ReadBlob
  <2>1. UNCHANGED wireVars \/ \E n \in ReadSizes(rcvLeft) : ConsumeWire(n)
    BY <1>4 DEF ReadBlob, NbReadFails, wireVars
  <2>2. UNCHANGED <<sndOpen, rcvOpen>>
    BY <1>4 DEF ReadBlob
  <2> QED
    BY <1>1, <1>2, <2>1, <2>2
<1>5. CASE RcvUser \/ RcvEvents \/ RcvTimerThread \/ OnHeadPayload \/ AwaitReadable \/ ReportResult
  BY <1>1, <1>5 DEF RcvUser, StartReceiveOps, AsyncReceive, IdleTimerRun, RcvEvents, OnEvIdleTimerFired,
     OnEvPeerSocketReadable, RcvTimerThread, IdleTimerExpires, IdleTimerSignals, OnHeadPayload,
     AwaitReadable, ReportResult
<1> QED
  BY <1>3, <1>4, <1>5 DEF RcvSteps

(* Every step of the connection keeps the invariants of both ends.         *)
LEMMA NextEnds == EndsInv /\ PipeNext => EndsInv'
<1> SUFFICES ASSUME SndInv, RcvInv, PipeNext PROVE SndInv' /\ RcvInv'
  BY DEF EndsInv
<1>1. WireTypeOK /\ wire \in Seq(Unit) /\ rcvLeft \in Nat
  BY DEF SndInv, SndTypeOK, WireTypeOK, RcvInv, StorageInv, StorageTypes
<1>2. ASSUME [SndNext]_sndAllVars PROVE SndInv' /\ wire' \in Seq(Unit)
  <2>1. SndInv'
    BY <1>2, TypeNext, ControlNext DEF SndInv
  <2> QED
    BY <2>1 DEF SndInv, SndTypeOK, WireTypeOK
<1>3. ASSUME [RcvNext]_rcvAllVars PROVE RcvInv'
  BY <1>3, NextRequest, NextIdle, NextStorage DEF RcvInv
<1>4. CASE SenderSteps
  <2>1. SndInv' /\ wire' \in Seq(Unit)
    BY <1>2, <1>4 DEF SenderSteps, SndNext
  <2> QED
    BY <1>4, <2>1, RcvInvStays DEF SenderSteps
<1>5. CASE rcvOpen /\ ReceiverSteps
  <2>1. SndInv'
    BY <1>1, <1>2, <1>5, ReceiverDrains DEF ReceiverSteps
  <2> QED
    BY <1>3, <1>5, <2>1 DEF ReceiverSteps, RcvNext
<1>6. CASE EndpointCloses
  <2>1. UNCHANGED <<sndVars, rcvVars>>
    BY <1>6 DEF EndpointCloses
  <2>2. WireTypeOK'
    <3>1. <<>> \in Seq(Unit) /\ Len(<<>>) = 0 /\ 0 <= KernelCap
      BY KernelCapAssumption
    <3>2. \/ UNCHANGED <<wire, rcvOpen>> /\ sndOpen' = FALSE
          \/ UNCHANGED sndOpen /\ wire' = <<>> /\ rcvOpen' = FALSE
      BY <1>6 DEF EndpointCloses, SndEndpointCloses, RcvEndpointCloses
    <3>3. wire' \in Seq(Unit) /\ Len(wire') <= KernelCap
      BY <1>1, <3>1, <3>2 DEF WireTypeOK
    <3>4. sndOpen' \in BOOLEAN /\ rcvOpen' \in BOOLEAN
      <4>1. sndOpen \in BOOLEAN /\ rcvOpen \in BOOLEAN
        BY <1>1, Zenon DEF WireTypeOK
      <4> QED
        BY <3>2, <4>1, Zenon
    <3> QED
      BY <3>3, <3>4 DEF WireTypeOK
  <2> QED
    BY <2>1, <2>2, SndInvStays, RcvInvStays DEF WireTypeOK
<1>7. CASE SndSockHosedByReceiveOps /\ UNCHANGED rcvVars
  <2>1. SndInv' /\ wire' \in Seq(Unit)
    BY <1>2, <1>7 DEF SndNext, SndEnvironment
  <2> QED
    BY <1>7, <2>1, RcvInvStays
<1>8. CASE RcvSockHosedBySendOps /\ UNCHANGED sndVars
  <2>1. WireTypeOK'
    BY <1>1, <1>8 DEF RcvSockHosedBySendOps, WireTypeOK, wireVars
  <2>2. RcvInv'
    BY <1>3, <1>8 DEF RcvNext, RcvEnvironment
  <2> QED
    BY <1>8, <2>1, <2>2, SndInvStays
<1> QED
  BY <1>4, <1>5, <1>6, <1>7, <1>8 DEF PipeNext, OppositeDirectionHoses

-----------------------------------------------------------------------------
(* Calls and sockets.                                                      *)

(* A step of the sender that is not a call's own leaves the call alone.    *)
LEMMA SenderKeepsCalls ==
  ASSUME SndInv, CallControl, UNCHANGED rcvVars,
         \/ SndUser \/ SndSteps \/ SndEvents \/ SndTimerThread
         \/ SndSockHosedByReceiveOps /\ ~rcvOpen
  PROVE  CallControl'
<1>1. /\ UNCHANGED <<rcvSock, rcvErr, rcvPc, rcvPending, rcvMsgState>>
      /\ sndOp # "send" => sndRest = <<>>
      /\ sndPc = "flush" => sndOp = "flush"
      /\ sndErr # SndNoError \/ ~sndSock => ~rcvOpen
      /\ ~rcvSock \/ rcvErr \in {"SYS_ERROR", "LOW_LVL_TRANSPORT_HOSED_CANNOT_RECEIVE"} => ~sndOpen
      /\ rcvPc = "idle" /\ ~rcvPending => rcvMsgState = "MSG_START"
  BY DEF CallControl, rcvVars, rcvReqVars, rcvReadVars
<1>2. ASSUME sndOpen' => sndOpen, rcvOpen' = rcvOpen,
             sndOp' # "send" => sndRest' = <<>>, sndPc' = "flush" => sndOp' = "flush",
             sndErr' # SndNoError \/ ~sndSock' => ~rcvOpen
      PROVE  CallControl'
  BY <1>1, <1>2 DEF CallControl
<1>3. CASE SndUser
  <2>1. /\ UNCHANGED <<sndOpen, rcvOpen, sndErr, sndSock>>
        /\ sndOp' # "send" => sndRest' = <<>>
        /\ sndPc' = "flush" => sndOp' = "flush"
    BY <1>1, <1>3 DEF SndUser, StartSendOps, SendNativeHandle, EndSending, AutoPing, Write, wireVars,
       sndCoreVars, sndCallVars
  <2> QED
    BY <1>1, <1>2, <2>1
<1>4. CASE SndEvents
  <2>1. /\ UNCHANGED <<sndOpen, rcvOpen, sndErr, sndSock>>
        /\ sndOp' # "send" => sndRest' = <<>>
        /\ sndPc' = "flush" => sndOp' = "flush"
    <3>1. CASE OnEvAutoPingTimerFired
      BY <1>1, <3>1 DEF OnEvAutoPingTimerFired, Write, wireVars, sndCoreVars, sndCallVars
    <3>2. CASE OnEvPeerSocketWritable
      <4>1. sndPc = "idle" /\ sndOp = "none"
        BY <3>2 DEF OnEvPeerSocketWritable, SndIdle, SndInv, SndControl, QueueControl
      <4> QED
        BY <1>1, <3>2, <4>1 DEF OnEvPeerSocketWritable, wireVars
    <3> QED
      BY <1>4, <3>1, <3>2 DEF SndEvents
  <2> QED
    BY <1>1, <1>2, <2>1
<1>5. CASE SndTimerThread \/ (SndSockHosedByReceiveOps /\ ~rcvOpen)
  <2>1. /\ UNCHANGED <<sndOpen, rcvOpen, sndErr, sndPc, sndOp, sndRest>>
        /\ UNCHANGED sndSock \/ ~rcvOpen
    BY <1>5 DEF SndTimerThread, PingTimerExpires, PingTimerSignals, sndNoTimerVars, SndSockHosedByReceiveOps,
       sndCoreVars, sndCallVars, wireVars
  <2> QED
    BY <1>1, <1>2, <2>1
<1>6. CASE SyncWrite \/ FlushHead
  <2>1. /\ UNCHANGED <<sndOpen, rcvOpen, sndOp, sndRest>>
        /\ UNCHANGED <<sndErr, sndSock>> \/ ~rcvOpen
        /\ sndPc' = "flush" => sndPc = "flush"
    BY <1>1, <1>6 DEF SyncWrite, FlushHead, NbWriteFails, NbWrites, sndWriteFrame, wireVars
  <2> QED
    BY <1>1, <1>2, <2>1
<1>7. CASE QueuePayload \/ AsyncWriteQHead
  <2>1. /\ UNCHANGED <<sndOpen, rcvOpen, sndOp, sndRest, sndSock>>
        /\ UNCHANGED sndErr \/ ~rcvOpen
        /\ sndPc' # "flush"
    BY <1>1, <1>7 DEF QueuePayload, AsyncWriteQHead, sndWriteFrame, wireVars
  <2> QED
    BY <1>1, <1>2, <2>1
<1>8. CASE ReturnStart \/ ReturnSend \/ ReturnEnd \/ ReturnPing \/ ReturnFlush
  <2>1. /\ UNCHANGED <<sndOpen, rcvOpen, sndErr, sndSock>> /\ sndPc' # "flush"
        /\ sndOp' # "send" => sndRest' = <<>>
    BY <1>8 DEF ReturnStart, ReturnSend, ReturnEnd, ReturnPing, ReturnFlush, CallEnds, Write, sndCoreVars,
       wireVars
  <2> QED
    BY <1>1, <1>2, <2>1
<1>9. CASE ReturnAsyncEndWouldBlock
  <2>1. /\ sndOpen' => sndOpen
        /\ UNCHANGED <<rcvOpen, sndErr, sndSock>> /\ sndPc' # "flush"
        /\ sndOp' # "send" => sndRest' = <<>>
    BY <1>1, <1>9 DEF ReturnAsyncEndWouldBlock, CallEnds, SndReturns
  <2> QED
    BY <1>1, <1>2, <2>1
<1> QED
  BY <1>3, <1>4, <1>5, <1>6, <1>7, <1>8, <1>9 DEF SndSteps

(* A call of the receiver ends where a message begins.                     *)
LEMMA ReceiverKeepsCalls ==
  ASSUME RcvInv, CallControl, UNCHANGED sndVars,
         \/ RcvUser \/ RcvSteps \/ RcvEvents \/ RcvTimerThread
         \/ RcvSockHosedBySendOps /\ ~sndOpen
  PROVE  CallControl'
<1>1. /\ UNCHANGED <<sndOp, sndRest, sndPc, sndErr, sndSock>>
      /\ sndOp # "send" => sndRest = <<>>
      /\ sndPc = "flush" => sndOp = "flush"
      /\ sndErr # SndNoError \/ ~sndSock => ~rcvOpen
      /\ ~rcvSock \/ rcvErr \in {"SYS_ERROR", "LOW_LVL_TRANSPORT_HOSED_CANNOT_RECEIVE"} => ~sndOpen
      /\ rcvPc = "idle" /\ ~rcvPending => rcvMsgState = "MSG_START"
  BY DEF CallControl, sndVars, sndCoreVars, sndCallVars
<1>2. UNCHANGED <<sndOpen, rcvOpen>>
  BY DEF RcvUser, StartReceiveOps, AsyncReceive, IdleTimerRun, RcvSteps, ReadMsg, OnHeadPayload, ReadBlob,
     AwaitReadable, ReportResult, RcvEvents, OnEvIdleTimerFired, OnEvPeerSocketReadable, RcvTimerThread,
     IdleTimerExpires, IdleTimerSignals, RcvSockHosedBySendOps, wireVars
<1> DEFINE SocketErr(e) == e \in {"SYS_ERROR", "LOW_LVL_TRANSPORT_HOSED_CANNOT_RECEIVE"}
<1>3. ASSUME ~rcvSock' \/ SocketErr(rcvErr') => ~sndOpen,
             rcvPc' = "idle" /\ ~rcvPending' => rcvMsgState' = "MSG_START"
      PROVE  CallControl'
  BY <1>1, <1>2, <1>3 DEF CallControl
<1>4. CASE StartReceiveOps \/ IdleTimerRun \/ OnEvPeerSocketReadable \/ RcvTimerThread
             \/ (RcvSockHosedBySendOps /\ ~sndOpen)
  <2>1. /\ UNCHANGED <<rcvErr, rcvPending, rcvMsgState>>
        /\ UNCHANGED rcvSock \/ ~sndOpen
        /\ rcvPc' = "idle" => rcvPc = "idle"
    BY <1>4 DEF StartReceiveOps, IdleTimerRun, OnEvPeerSocketReadable, RcvIdle, RcvTimerThread,
       IdleTimerExpires, IdleTimerSignals, RcvSockHosedBySendOps, rcvNoTimerVars, rcvReqVars, rcvReadVars
  <2> QED
    BY <1>1, <1>3, <2>1
<1>5. ASSUME NEW takesHandle \in BOOLEAN, NEW size \in StorageSize, AsyncReceive(takesHandle, size)
      PROVE  CallControl'
  <2>1. /\ UNCHANGED <<rcvErr, rcvSock, rcvMsgState>>
        /\ rcvPc' = "idle" => rcvPc = "idle" /\ ~rcvPending
    BY <1>5 DEF AsyncReceive, RcvIdle, rcvReqVars, rcvReadVars
  <2> QED
    BY <1>1, <1>3, <2>1
<1>6. CASE OnEvIdleTimerFired
  <2>1. UNCHANGED rcvSock
    BY <1>6 DEF OnEvIdleTimerFired
  <2>2. CASE RcvOver
    <3>1. UNCHANGED <<rcvErr, rcvPending, rcvMsgState, rcvPc>>
      BY <1>6, <2>2 DEF OnEvIdleTimerFired, rcvReqVars, rcvReadVars
    <3> QED
      BY <1>1, <1>3, <2>1, <3>1
  <2>3. CASE ~RcvOver
    <3>1. rcvErr' = "RECEIVER_IDLE_TIMEOUT" /\ rcvMsgState' = "MSG_START"
      BY <1>6, <2>3 DEF OnEvIdleTimerFired, CompletePending, ResetRequest
    <3> QED
      BY <1>1, <1>3, <2>1, <3>1
  <2> QED
    BY <2>2, <2>3
<1>7. CASE ReportResult
  <2>1. UNCHANGED <<rcvErr, rcvSock>> /\ rcvMsgState' = "MSG_START"
    BY <1>7 DEF ReportResult, ResetRequest
  <2> QED
    BY <1>1, <1>3, <2>1
<1>8. CASE AwaitReadable
  <2>1. rcvPending' /\ UNCHANGED rcvSock /\ (SocketErr(rcvErr') => SocketErr(rcvErr) \/ ~rcvSock)
    BY <1>8 DEF AwaitReadable, RcvFails, rcvReqVars, RcvInv, RequestInv, PendingIffWaiting
  <2> QED
    BY <1>1, <1>3, <2>1
<1>9. CASE OnHeadPayload
  <2>1. rcvPc' # "idle" /\ UNCHANGED rcvSock
    BY <1>9, HeadGoesOn DEF OnHeadPayload, RcvInv, RequestInv, RequestTypes
  <2>2. SocketErr(rcvErr') => SocketErr(rcvErr)
    <3>1. CASE Negotiating
      BY <1>9, <3>1 DEF OnHeadPayload, RcvFails, NegotiationErr, OpposingVerInvalid, OpposingVerTooOld, NoError
    <3>2. CASE ~Negotiating
      <4>1. OnMetaLength(MetaLength(rcvMeta))
        BY <1>9, <3>2 DEF OnHeadPayload
      <4> QED
        BY <4>1 DEF OnMetaLength, RcvFails
    <3> QED
      BY <3>1, <3>2
  <2> QED
    BY <1>1, <1>3, <2>1, <2>2
<1>10. CASE ReadMsg \/ ReadBlob
  <2>1. rcvPc' # "idle"
    BY <1>10, ReadMsgGoesOn, ReadBlobGoesOn DEF RcvInv, RequestInv, RequestTypes
  <2>2. CASE NbReadFails
    BY <1>1, <1>3, <2>1, <2>2 DEF NbReadFails
  <2>3. CASE ReadMsg /\ ~NbReadFails
    <3>1. ASSUME NEW n, OnHandleFinalized(HandleAmong(n), n)
          PROVE  SocketErr(rcvErr') => SocketErr(rcvErr)
      BY <3>1 DEF OnHandleFinalized, RcvFails, NegotiationErr, OpposingVerInvalid, OpposingVerTooOld, NoError
    <3>2. (SocketErr(rcvErr') => SocketErr(rcvErr)) /\ UNCHANGED rcvSock
      BY <2>3, <3>1 DEF ReadMsg
    <3> QED
      BY <1>1, <1>3, <2>1, <3>2
  <2>4. CASE ReadBlob /\ ~NbReadFails
    <3>1. UNCHANGED <<rcvErr, rcvSock>>
      BY <2>4 DEF ReadBlob
    <3> QED
      BY <1>1, <1>3, <2>1, <3>1
  <2> QED
    BY <1>10, <2>2, <2>3, <2>4
<1> QED
  BY <1>4, <1>5, <1>6, <1>7, <1>8, <1>9, <1>10 DEF RcvUser, RcvSteps, RcvEvents

(* Every step keeps the control of the sender's calls.                     *)
LEMMA NextCalls == EndsInv /\ CallControl /\ PipeNext => CallControl'
<1> SUFFICES ASSUME SndInv, RcvInv, CallControl, PipeNext PROVE CallControl'
  BY DEF EndsInv
<1>1. CASE SenderSteps
  BY <1>1, SenderKeepsCalls DEF SenderSteps
<1>2. CASE ReceiverSteps
  BY <1>2, ReceiverKeepsCalls DEF ReceiverSteps
<1>3. CASE EndpointCloses
  <2>1. /\ UNCHANGED <<rcvSock, rcvErr, rcvPc, rcvPending, rcvMsgState>>
        /\ UNCHANGED <<sndOp, sndRest, sndPc, sndErr, sndSock>>
    BY <1>3 DEF EndpointCloses, sndVars, rcvVars, sndCoreVars, sndCallVars, rcvReqVars, rcvReadVars
  <2>2. (sndOpen' => sndOpen) /\ (rcvOpen' => rcvOpen)
    BY <1>3 DEF EndpointCloses, SndEndpointCloses, RcvEndpointCloses
  <2> QED
    BY <2>1, <2>2 DEF CallControl
<1>4. CASE OppositeDirectionHoses
  BY <1>4, SenderKeepsCalls, ReceiverKeepsCalls DEF OppositeDirectionHoses
<1> QED
  BY <1>1, <1>2, <1>3, <1>4 DEF PipeNext

(* What is left of a history whose last message is withdrawn.             *)
LEMMA LastCut ==
  ASSUME NEW S, NEW s \in Seq(S), Len(s) >= 1
  PROVE  /\ SubSeq(s, 1, Len(s) - 1) \in Seq(S)
         /\ Len(SubSeq(s, 1, Len(s) - 1)) = Len(s) - 1
         /\ \A i \in 1 .. Len(s) - 1 : SubSeq(s, 1, Len(s) - 1)[i] = s[i]
<1> DEFINE n == Len(s) - 1
<1>1. n \in Nat /\ 1 \in Int /\ \A i \in 1 .. n : s[i] \in S
  OBVIOUS
<1> HIDE DEF n
<1>2. /\ SubSeq(s, 1, n) \in Seq(S)
      /\ Len(SubSeq(s, 1, n)) = IF 1 <= n THEN n - 1 + 1 ELSE 0
      /\ \A i \in 1 .. n - 1 + 1 : SubSeq(s, 1, n)[i] = s[1 + i - 1]
  BY <1>1, SubSeqProperties
<1>3. /\ n - 1 + 1 = n /\ (~(1 <= n) => n = 0)
      /\ \A i \in 1 .. n : 1 + i - 1 = i
  BY <1>1
<1> QED
  BY <1>2, <1>3 DEF n

-----------------------------------------------------------------------------
(* The sender's steps and its history.                                     *)

SenderMoves == SndUser \/ SndSteps \/ SndEvents \/ SndTimerThread \/ SndSockHosedByReceiveOps

(* A message is accepted, the last one is withdrawn, the sending is ended, *)
(* or nothing of it is seen.                                               *)
SentSeen ==
  \/ UNCHANGED <<sent, sndFinished>>
  \/ /\ ~sndFinished /\ UNCHANGED sndFinished
     /\ \E m \in Message : Len(m.b) <= S_MAX_META_BLOB_LENGTH /\ sent' = Append(sent, m)
  \/ ~sndFinished /\ sndFinished' = TRUE /\ UNCHANGED sent
  \/ /\ sndOp = "send" /\ sndErr # SndNoError /\ UNCHANGED sndFinished
     /\ sent' = SubSeq(sent, 1, Len(sent) - 1)

(* What MessagePipe sees of a step of the sender.                          *)
LEMMA SenderSeen ==
  ASSUME SndTypeOK, SenderMoves PROVE SentSeen
<1> USE DEF sndCoreVars, sndWriteFrame
<1>1. ASSUME UNCHANGED <<sent, sndFinished>> PROVE SentSeen
  BY <1>1 DEF SentSeen
<1>2. CASE SndUser
  <2>1. CASE StartSendOps \/ AutoPing
    BY <1>1, <2>1 DEF StartSendOps, AutoPing
  <2>2. ASSUME NEW m \in Message, SendNativeHandle(m) PROVE SentSeen
    <3>1. /\ ~sndFinished /\ UNCHANGED sndFinished
          /\ Len(m.b) <= S_MAX_META_BLOB_LENGTH /\ sent' = Append(sent, m)
      BY <2>2 DEF SendNativeHandle, MaySend
    <3> QED
      BY <3>1 DEF SentSeen
  <2>3. ASSUME NEW op \in {"end", "asyncEnd"}, EndSending(op) PROVE SentSeen
    <3>1. ~sndFinished /\ sndFinished' = TRUE /\ UNCHANGED sent
      BY <2>3 DEF EndSending, FinishSends
    <3> QED
      BY <3>1 DEF SentSeen
  <2> QED
    BY <1>2, <2>1, <2>2, <2>3 DEF SndUser
<1>3. CASE ReturnSend
  <2>1. /\ sndOp = "send" /\ UNCHANGED sndFinished
        /\ sent' = IF sndErr = SndNoError THEN sent ELSE SubSeq(sent, 1, Len(sent) - 1)
    BY <1>3 DEF ReturnSend, SndReturns
  <2> QED
    BY <2>1 DEF SentSeen
<1>4. CASE SndSteps /\ ~ReturnSend
  BY <1>1, <1>4 DEF SndSteps, SyncWrite, QueuePayload, FlushHead, AsyncWriteQHead, ReturnStart, ReturnEnd,
     ReturnAsyncEndWouldBlock, ReturnPing, ReturnFlush
<1>5. CASE SndEvents
  BY <1>1, <1>5 DEF SndEvents, OnEvAutoPingTimerFired, OnEvPeerSocketWritable
<1>6. CASE SndTimerThread \/ SndSockHosedByReceiveOps
  BY <1>1, <1>6 DEF SndTimerThread, PingTimerExpires, PingTimerSignals, sndNoTimerVars,
     SndSockHosedByReceiveOps
<1> QED
  BY <1>2, <1>3, <1>4, <1>5, <1>6 DEF SenderMoves

(* A message that is written or may be withdrawn was, unless it is the one *)
(* that is accepted now.                                                   *)
LEMMA SenderHolds ==
  ASSUME SndInv, CallControl, SenderMoves, sndOp' = "send", Unsent' \/ sndErr' # SndNoError
  PROVE  \/ \E m \in Message : sent' = Append(sent, m)
         \/ sndOp = "send" /\ (Unsent \/ sndErr # SndNoError) /\ UNCHANGED sent
<1> USE DEF sndCoreVars, sndCallVars, sndWriteFrame, Write, CallEnds
<1>1. ASSUME UNCHANGED <<sndOp, sndPc, sndRest, sndErr, sent>>
      PROVE  sndOp = "send" /\ (Unsent \/ sndErr # SndNoError) /\ UNCHANGED sent
  BY <1>1 DEF Unsent
<1>2. CASE StartSendOps
  BY <1>2 DEF StartSendOps
<1>3. ASSUME NEW m \in Message, SendNativeHandle(m) PROVE sent' = Append(sent, m)
  BY <1>3 DEF SendNativeHandle
<1>4. ASSUME NEW op \in {"end", "asyncEnd"}, EndSending(op)
      PROVE  UNCHANGED <<sndOp, sndPc, sndRest, sndErr, sent>>
  BY <1>4 DEF EndSending
<1>5. CASE AutoPing
  <2>1. UNCHANGED <<sndOp, sndPc, sndRest, sndErr, sent>>
    BY <1>5 DEF AutoPing
  <2> QED
    BY <1>1, <2>1
<1>6. CASE SyncWrite \/ QueuePayload \/ AsyncWriteQHead
  BY <1>6 DEF SyncWrite, QueuePayload, AsyncWriteQHead, Unsent
<1>7. CASE FlushHead
  BY <1>7 DEF FlushHead, CallControl
<1>8. CASE ReturnSend
  BY <1>8 DEF ReturnSend, SndReturns, Unsent
<1>9. CASE ReturnStart \/ ReturnEnd \/ ReturnAsyncEndWouldBlock \/ ReturnPing \/ ReturnFlush
  BY <1>9 DEF ReturnStart, ReturnEnd, ReturnAsyncEndWouldBlock, ReturnPing, ReturnFlush, SndReturns
<1>10. CASE OnEvAutoPingTimerFired
  <2>1. UNCHANGED <<sndOp, sndPc, sndRest, sndErr, sent>>
    BY <1>10 DEF OnEvAutoPingTimerFired
  <2> QED
    BY <1>1, <2>1
<1>11. CASE OnEvPeerSocketWritable
  BY <1>11 DEF OnEvPeerSocketWritable
<1>12. CASE SndTimerThread \/ SndSockHosedByReceiveOps
  <2>1. UNCHANGED <<sndOp, sndPc, sndRest, sndErr, sent>>
    BY <1>12 DEF SndTimerThread, PingTimerExpires, PingTimerSignals, sndNoTimerVars,
       SndSockHosedByReceiveOps
  <2> QED
    BY <1>1, <2>1
<1> QED
  BY <1>1, <1>2, <1>3, <1>4, <1>5, <1>6, <1>7, <1>8, <1>9, <1>10, <1>11, <1>12
     DEF SenderMoves, SndUser, SndSteps, SndEvents

(* A step of the sender, as its users see it.                              *)
LEMMA SenderStepSeen ==
  ASSUME SndTypeOK, TransferInv, SenderMoves, UNCHANGED rcvVars
  PROVE  [Abstract!Next]_(Abstract!vars)
<1>1. UNCHANGED <<got, rcvErr>>
  BY DEF rcvVars, rcvHistVars
<1>2. SentSeen
  BY SenderSeen
<1>3. CASE UNCHANGED <<sent, sndFinished>>
  BY <1>1, <1>3 DEF Abstract!vars
<1>4. ASSUME ~sndFinished, UNCHANGED sndFinished, NEW m \in Message, sent' = Append(sent, m)
      PROVE  Abstract!Next
  <2>1. Abstract!Send(m)
    BY <1>1, <1>4 DEF Abstract!Send
  <2> QED
    BY <2>1 DEF Abstract!Next
<1>5. CASE ~sndFinished /\ sndFinished' = TRUE /\ UNCHANGED sent
  <2>1. Abstract!EndSending
    BY <1>1, <1>5 DEF Abstract!EndSending
  <2> QED
    BY <2>1 DEF Abstract!Next
<1>6. CASE /\ sndOp = "send" /\ sndErr # SndNoError /\ UNCHANGED sndFinished
           /\ sent' = SubSeq(sent, 1, Len(sent) - 1)
  <2>1. Len(got) < Len(sent)
    BY <1>6 DEF TransferInv, OwnMessageAhead
  <2>2. Abstract!Withdraw
    BY <1>1, <1>6, <2>1 DEF Abstract!Withdraw
  <2> QED
    BY <2>2 DEF Abstract!Next
<1> QED
  BY <1>2, <1>3, <1>4, <1>5, <1>6 DEF SentSeen

-----------------------------------------------------------------------------
(* The receiver's steps and its history.                                   *)

ReceiverMoves == RcvUser \/ RcvSteps \/ RcvEvents \/ RcvTimerThread \/ RcvSockHosedBySendOps

(* Two histories with one a prefix of the other, and as long, are the same.*)
LEMMA AllReceived ==
  ASSUME got \in Seq(Message), sent \in Seq(Message), Abstract!ReceivedIsPrefixOfSent,
         Len(got) = Len(sent)
  PROVE  got = sent
<1>1. \A i \in 1 .. Len(got) : got[i] = sent[i]
  BY DEF Abstract!ReceivedIsPrefixOfSent
<1> QED
  BY <1>1, SeqEqual

(* What the receiver is given.                                             *)
LEMMA ReceiverGets ==
  ASSUME EndsInv, TransferInv, ReceiverMoves, got' # got
  PROVE  /\ ReportResult /\ rcvErr = RcvNoError /\ UNCHANGED rcvErr
         /\ rcvOpen => got' = Append(got, sent[Len(got) + 1]) /\ Len(got) < Len(sent)
                       /\ sent[Len(got) + 1] \in Message
<1>1. ReportResult
  BY DEF ReceiverMoves, RcvUser, StartReceiveOps, AsyncReceive, IdleTimerRun, RcvEvents, OnEvIdleTimerFired,
     OnEvPeerSocketReadable, RcvTimerThread, IdleTimerExpires, IdleTimerSignals, RcvSockHosedBySendOps,
     RcvSteps, ReadMsg, OnHeadPayload, ReadBlob, AwaitReadable, rcvNoTimerVars, rcvHistVars
<1>2. rcvErr = RcvNoError /\ UNCHANGED rcvErr
  BY <1>1 DEF ReportResult
<1>3. rcvOpen => Reads
  BY <1>2 DEF Reads
<1>4. SndTypeOK /\ StorageInv /\ LineControl /\ MessageControl /\ HistoryControl
  BY DEF EndsInv, SndInv, RcvInv, TransferInv
<1> QED
  BY <1>1, <1>2, <1>3, <1>4, NextReported

(* A step of the receiver, as its users see it.                            *)
LEMMA ReceiverStepSeen ==
  ASSUME EndsInv, TransferInv, ReceiverMoves, rcvOpen, UNCHANGED sndVars
  PROVE  [Abstract!Next]_(Abstract!vars)
<1>1. UNCHANGED <<sent, sndFinished>>
  BY DEF sndVars, sndCoreVars
<1>2. /\ SndTypeOK /\ RequestInv /\ StorageInv /\ CallControl /\ LineControl /\ MessageControl
      /\ HistoryControl
  BY DEF EndsInv, SndInv, RcvInv, TransferInv
<1>3. CASE UNCHANGED <<got, rcvErr>>
  BY <1>1, <1>3 DEF Abstract!vars
<1>4. CASE got' # got
  <2>1. /\ rcvErr = RcvNoError /\ UNCHANGED rcvErr
        /\ got' = Append(got, sent[Len(got) + 1]) /\ Len(got) < Len(sent)
    BY <1>4, ReceiverGets
  <2>2. Abstract!Receive
    BY <1>1, <2>1 DEF Abstract!Receive, RcvNoError
  <2> QED
    BY <2>2 DEF Abstract!Next
<1>5. CASE got' = got /\ rcvErr' # rcvErr
  <2>1. rcvErr = RcvNoError
    BY <1>2, <1>5, ReceiverStops DEF ReceiverMoves
  <2>2. Reads
    BY <2>1 DEF Reads
  <2>3. ErrorExplained
    BY <1>2, <2>2, ErrorsExplained DEF ReceiverMoves
  <2>4. CASE rcvErr' = "RECEIVES_FINISHED_CANNOT_RECEIVE"
    <3>1. sndFinished /\ got = sent
      BY <1>2, <2>3, <2>4, AllReceived DEF ErrorExplained, HistoryControl, SndTypeOK
    <3>2. Abstract!ReceiveEnd
      BY <1>1, <1>5, <2>1, <2>4, <3>1 DEF Abstract!ReceiveEnd, RcvNoError
    <3> QED
      BY <3>2 DEF Abstract!Next
  <2>5. CASE rcvErr' # "RECEIVES_FINISHED_CANNOT_RECEIVE"
    <3>1. Abstract!Fail
      BY <1>1, <1>5, <2>1, <2>5 DEF Abstract!Fail, RcvNoError
    <3> QED
      BY <3>1 DEF Abstract!Next
  <2> QED
    BY <2>4, <2>5
<1> QED
  BY <1>3, <1>4, <1>5

(* Every step of the pipe, as its users see it.                            *)
LEMMA PipeStepSeen ==
  ASSUME EndsInv, TransferInv, [PipeNext]_pipeVars
  PROVE  [Abstract!Next]_(Abstract!vars)
<1>1. SndTypeOK
  BY DEF EndsInv, SndInv
<1>2. ASSUME UNCHANGED <<sndVars, rcvVars>> PROVE UNCHANGED Abstract!vars
  <2>1. UNCHANGED <<sent, sndFinished, got, rcvErr>>
    BY <1>2 DEF sndVars, sndCoreVars, rcvVars, rcvHistVars
  <2> QED
    BY <2>1 DEF Abstract!vars
<1>3. CASE SenderSteps
  BY <1>1, <1>3, SenderStepSeen DEF SenderSteps, SenderMoves
<1>4. CASE rcvOpen /\ ReceiverSteps
  BY <1>4, ReceiverStepSeen DEF ReceiverSteps, ReceiverMoves
<1>5. CASE EndpointCloses
  BY <1>2, <1>5 DEF EndpointCloses
<1>6. CASE OppositeDirectionHoses
  BY <1>1, <1>6, SenderStepSeen, ReceiverStepSeen DEF OppositeDirectionHoses, SenderMoves, ReceiverMoves
<1>7. CASE UNCHANGED pipeVars
  BY <1>2, <1>7 DEF pipeVars
<1> QED
  BY <1>3, <1>4, <1>5, <1>6, <1>7 DEF PipeNext

(* Who still reads was reading.                                            *)
LEMMA ReadsBefore ==
  ASSUME EndsInv, PipeNext, Reads' PROVE Reads
<1>1. CASE SenderSteps \/ EndpointCloses \/ (SndSockHosedByReceiveOps /\ UNCHANGED rcvVars)
  <2>1. UNCHANGED rcvErr
    BY <1>1 DEF SenderSteps, EndpointCloses, rcvVars
  <2>2. rcvOpen' => rcvOpen
    BY <1>1 DEF SenderSteps, SndUser, StartSendOps, SendNativeHandle, EndSending, AutoPing, SndSteps, SyncWrite,
       QueuePayload, FlushHead, NbWriteFails, NbWrites, AsyncWriteQHead, ReturnStart, ReturnSend, ReturnEnd,
       ReturnAsyncEndWouldBlock, ReturnPing, ReturnFlush, SndEvents, OnEvAutoPingTimerFired,
       OnEvPeerSocketWritable, SndTimerThread, PingTimerExpires, PingTimerSignals, SndSockHosedByReceiveOps,
       EndpointCloses, SndEndpointCloses, RcvEndpointCloses, wireVars
  <2> QED
    BY <2>1, <2>2 DEF Reads
<1>2. CASE (rcvOpen /\ ReceiverSteps) \/ (rcvOpen /\ RcvSockHosedBySendOps)
  <2>1. RequestInv /\ ReceiverMoves /\ rcvOpen
    BY <1>2 DEF EndsInv, RcvInv, ReceiverSteps, ReceiverMoves
  <2>2. rcvErr # RcvNoError => UNCHANGED rcvErr
    BY <2>1, ReceiverStops DEF ReceiverMoves
  <2> QED
    BY <2>1, <2>2 DEF Reads
<1> QED
  BY <1>1, <1>2 DEF PipeNext, OppositeDirectionHoses

(* The message that is read stays where it is in the history.              *)
LEMMA MessageStays ==
  ASSUME SndTypeOK, CallControl, LineControl, MessageControl, HistoryControl, StorageInv, Reads,
         SenderMoves \/ UNCHANGED sndVars, UNCHANGED rcvVars
  PROVE  MessageControl'
<1>1. /\ UNCHANGED <<rcvPc, rcvMsgState, rcvBlob, rcvLeft, got, rcvTakesHandle, rcvHandle>>
      /\ InBlob' = InBlob /\ GivenHandle' = GivenHandle
  BY DEF rcvVars, rcvReqVars, rcvDataVars, rcvReadVars, rcvHistVars, InBlob, AtRest, GivenHandle
<1>2. CASE InBlob \/ rcvPc = "done"
  <2>1. PICK first, k0, r0, k1, r1 :
          /\ Carried(wire, Held, Consumed, sent, sndQ, first, k0, r0, k1, r1)
          /\ SenderEnd(k1, r1) /\ ReaderEnd(first, k0, r0)
    BY ReaderStarts
  <2>2. wire \in Seq(Unit) /\ Held \in Seq(Payload) /\ sent \in Seq(Message) /\ Len(sent) \in Nat
    BY ReaderStarts
  <2>3. r0 \in 0 .. Len(sent)
    BY <2>1, <2>2, CarriedEnds
  <2>4. r0 = Len(got) + 1
    BY <1>2, <2>1 DEF ReaderEnd, Taken
  <2>5. Len(got) + 1 \in 1 .. Len(sent)
    BY <2>2, <2>3, <2>4 DEF HistoryControl
  <2>6. sndErr = SndNoError
    BY DEF CallControl, Reads
  <2>7. sent' = sent \/ \E m \in Message : sent' = Append(sent, m)
    <3>1. CASE SenderMoves
      <4>1. SentSeen
        BY <3>1, SenderSeen
      <4> QED
        BY <2>6, <4>1 DEF SentSeen
    <3>2. CASE UNCHANGED sndVars
      BY <3>2 DEF sndVars
    <3> QED
      BY <3>1, <3>2
  <2>8. sent'[Len(got) + 1] = sent[Len(got) + 1]
    BY <2>2, <2>5, <2>7
  <2> QED
    BY <1>1, <2>8 DEF MessageControl
<1>3. CASE ~(InBlob \/ rcvPc = "done")
  BY <1>1, <1>3 DEF MessageControl
<1> QED
  BY <1>2, <1>3

(* Every step keeps the line and the message being received.               *)
LEMMA NextLine ==
  ASSUME EndsInv, TransferInv, PipeNext PROVE LineControl' /\ MessageControl'
<1>1. /\ SndInv /\ SndTypeOK /\ RequestInv /\ StorageInv
      /\ CallControl /\ LineControl /\ MessageControl /\ HistoryControl
  BY DEF EndsInv, SndInv, RcvInv, TransferInv
<1>2. CASE ~Reads'
  BY <1>2 DEF LineControl, MessageControl
<1>3. CASE Reads'
  <2>1. Reads
    BY <1>3, ReadsBefore
  <2>2. CASE SenderSteps \/ (SndSockHosedByReceiveOps /\ UNCHANGED rcvVars)
    <3>1. UNCHANGED rcvVars /\ SenderMoves
      BY <2>2 DEF SenderSteps, SenderMoves
    <3>2. LineControl'
      BY <1>1, <3>1, SenderKeepsLine DEF SenderMoves
    <3> QED
      BY <1>1, <2>1, <3>1, <3>2, MessageStays
  <2>3. CASE ReceiverSteps \/ (RcvSockHosedBySendOps /\ UNCHANGED sndVars)
    BY <1>1, <2>1, <2>3, ReceiverKeepsLine DEF ReceiverSteps
  <2>4. CASE SndEndpointCloses /\ UNCHANGED <<sndVars, rcvVars>>
    <3>1. LineControl'
      BY <1>1, <2>4, SenderKeepsLine
    <3> QED
      BY <1>1, <2>1, <2>4, <3>1, MessageStays
  <2>5. CASE RcvEndpointCloses
    BY <1>3, <2>5 DEF RcvEndpointCloses, Reads
  <2> QED
    BY <2>2, <2>3, <2>4, <2>5 DEF PipeNext, EndpointCloses, OppositeDirectionHoses
<1> QED
  BY <1>2, <1>3

-----------------------------------------------------------------------------
(* The message of the call in progress.                                    *)

(* What is received is not what a call may withdraw: something of that one *)
(* is yet to be written.                                                   *)
LEMMA ReceivedIsNotOwn ==
  ASSUME EndsInv, TransferInv, Reads, rcvPc = "done", sndOp = "send", Unsent
  PROVE  Len(got) + 1 < Len(sent)
<1>1. SndInv /\ SndTypeOK /\ StorageInv /\ LineControl /\ HistoryControl
  BY DEF EndsInv, SndInv, RcvInv, TransferInv
<1>2. PICK first, k0, r0, k1, r1 :
        /\ Carried(wire, Held, Consumed, sent, sndQ, first, k0, r0, k1, r1)
        /\ SenderEnd(k1, r1) /\ ReaderEnd(first, k0, r0)
  BY <1>1, ReaderStarts
<1>3. /\ wire \in Seq(Unit) /\ Held \in Seq(Payload) /\ Len(sent) \in Nat
      /\ sndQ \in Seq(Payload) /\ sndCur \in Payload /\ sndRest \in Seq(Payload)
  BY <1>1, ReaderStarts DEF SndTypeOK, SndCallTypeOK
<1>4. r0 = Len(got) + 1 /\ ~BlobDue(k0, r0, sent) /\ r1 = Len(sent) /\ k1 \in {"head", "blob"}
  BY <1>2 DEF ReaderEnd, SenderEnd, Taken, InBlob, AtRest
<1>5. Held # <<>>
  <2>1. <<sndCur>> \o sndRest # <<>>
    BY <1>3, QueueAndCall
  <2>2. sndPc = "wait" => sndQ # <<>>
    BY <1>1 DEF SndInv, SndControl, QueueControl
  <2>3. sndQ # <<>> \/ InCall # <<>>
    BY <2>1, <2>2 DEF Unsent, InCall
  <2>4. InCall \in Seq(Payload)
    BY <1>1, HeldType
  <2>5. Len(sndQ) + Len(InCall) # 0
    <3>1. Len(sndQ) \in Nat /\ Len(InCall) \in Nat /\ (Len(sndQ) # 0 \/ Len(InCall) # 0)
      BY <1>3, <2>3, <2>4
    <3> QED
      BY <3>1
  <2>6. Len(sndQ \o InCall) = Len(sndQ) + Len(InCall)
    BY <1>3, <2>4, ConcatProperties
  <2>7. Len(Held) # 0
    BY <2>5, <2>6 DEF Held
  <2> QED
    BY <2>7
<1>6. first # NoPayload
  BY <1>2, <1>3, <1>5, CarriedEnds
<1>7. r0 < r1
  BY <1>2, <1>3, <1>4, <1>6, CarriedMessage
<1> QED
  BY <1>4, <1>7

(* The message a send call is about is ahead of the receiver, always.      *)
LEMMA NextOwn ==
  ASSUME EndsInv, TransferInv, PipeNext PROVE OwnMessageAhead'
<1>1. /\ SndInv /\ CallControl /\ OwnMessageAhead /\ HistoryControl /\ sent \in Seq(Message)
      /\ Len(got) <= Len(sent) /\ Len(got) \in Nat /\ Len(sent) \in Nat
  BY DEF EndsInv, SndInv, SndTypeOK, TransferInv, HistoryControl, Abstract!ReceivedIsPrefixOfSent
<1>2. CASE SenderMoves /\ UNCHANGED rcvVars
  <2> SUFFICES ASSUME sndOp' = "send", Unsent' \/ sndErr' # SndNoError PROVE Len(got') < Len(sent')
    BY DEF OwnMessageAhead
  <2>1. got' = got
    BY <1>2 DEF rcvVars, rcvHistVars
  <2>2. CASE \E m \in Message : sent' = Append(sent, m)
    <3>1. Len(sent') = Len(sent) + 1
      BY <1>1, <2>2
    <3> QED
      BY <1>1, <2>1, <3>1
  <2>3. CASE sndOp = "send" /\ (Unsent \/ sndErr # SndNoError) /\ UNCHANGED sent
    BY <1>1, <2>1, <2>3 DEF OwnMessageAhead
  <2> QED
    BY <1>1, <1>2, <2>2, <2>3, SenderHolds
<1>3. ASSUME UNCHANGED sndVars PROVE UNCHANGED <<sent, sndOp, sndErr>> /\ Unsent' = Unsent
  BY <1>3 DEF sndVars, sndCoreVars, sndCallVars, Unsent
<1>4. CASE ReceiverMoves /\ rcvOpen /\ UNCHANGED sndVars
  <2>1. CASE got' = got
    BY <1>1, <1>3, <1>4, <2>1 DEF OwnMessageAhead
  <2>2. CASE got' # got
    <3>1. /\ ReportResult /\ Reads
          /\ got' = Append(got, sent[Len(got) + 1]) /\ sent[Len(got) + 1] \in Message
      BY <1>4, <2>2, ReceiverGets DEF Reads
    <3>2. Len(got') = Len(got) + 1
      BY <1>1, <3>1 DEF HistoryControl
    <3>3. rcvPc = "done" /\ sndErr = SndNoError
      BY <1>1, <3>1 DEF ReportResult, CallControl, Reads
    <3>4. sndOp = "send" /\ Unsent => Len(got) + 1 < Len(sent)
      BY <3>1, <3>3, ReceivedIsNotOwn
    <3> QED
      BY <1>3, <1>4, <3>2, <3>3, <3>4 DEF OwnMessageAhead
  <2> QED
    BY <2>1, <2>2
<1>5. CASE EndpointCloses
  <2>1. got' = got /\ UNCHANGED sndVars
    BY <1>5 DEF EndpointCloses, rcvVars, rcvHistVars
  <2> QED
    BY <1>1, <1>3, <2>1 DEF OwnMessageAhead
<1> QED
  BY <1>2, <1>4, <1>5 DEF PipeNext, SenderSteps, ReceiverSteps, OppositeDirectionHoses, SenderMoves,
     ReceiverMoves

-----------------------------------------------------------------------------
(* Histories.                                                              *)

(* What was received stays a prefix of what was sent.                      *)
LEMMA PrefixStays ==
  ASSUME sent \in Seq(Message), got \in Seq(Message), Abstract!ReceivedIsPrefixOfSent,
         [Abstract!Next]_(Abstract!vars)
  PROVE  sent' \in Seq(Message) /\ got' \in Seq(Message) /\ Abstract!ReceivedIsPrefixOfSent'
<1> USE DEF Abstract!ReceivedIsPrefixOfSent
<1>1. /\ sent \in Seq(Message) /\ got \in Seq(Message) /\ Len(got) \in Nat /\ Len(sent) \in Nat
      /\ Len(got) <= Len(sent) /\ \A i \in 1 .. Len(got) : got[i] = sent[i]
  OBVIOUS
<1>2. ASSUME NEW m \in Message, Abstract!Send(m)
      PROVE  sent' \in Seq(Message) /\ got' \in Seq(Message) /\ Abstract!ReceivedIsPrefixOfSent'
  <2>1. sent' = Append(sent, m) /\ got' = got
    BY <1>2 DEF Abstract!Send
  <2> QED
    BY <1>1, <2>1
<1>3. CASE Abstract!Withdraw
  <2>1. sent' = SubSeq(sent, 1, Len(sent) - 1) /\ got' = got /\ Len(got) < Len(sent)
    BY <1>3 DEF Abstract!Withdraw
  <2>2. Len(sent) >= 1
    BY <1>1, <2>1
  <2>3. /\ sent' \in Seq(Message) /\ Len(sent') = Len(sent) - 1
        /\ \A i \in 1 .. Len(sent) - 1 : sent'[i] = sent[i]
    BY <1>1, <2>1, <2>2, LastCut
  <2>4. \A i \in 1 .. Len(got) : i \in 1 .. Len(sent) - 1
    BY <1>1, <2>1
  <2> QED
    BY <1>1, <2>1, <2>3, <2>4
<1>4. CASE Abstract!Receive
  <2>1. got' = Append(got, sent[Len(got) + 1]) /\ sent' = sent /\ Len(got) < Len(sent)
    BY <1>4 DEF Abstract!Receive
  <2>2. sent[Len(got) + 1] \in Message
    BY <1>1, <2>1
  <2> QED
    BY <1>1, <2>1, <2>2
<1>5. CASE UNCHANGED <<sent, got>>
  BY <1>1, <1>5
<1> QED
  BY <1>2, <1>3, <1>4, <1>5
     DEF Abstract!Next, Abstract!EndSending, Abstract!ReceiveEnd, Abstract!Fail, Abstract!vars

(* What was accepted fits a meta-blob.                                     *)
LEMMA FitStays ==
  ASSUME sent \in Seq(Message), \A i \in 1 .. Len(sent) : Len(sent[i].b) <= S_MAX_META_BLOB_LENGTH,
         OwnMessageAhead, Len(got) \in Nat, SentSeen
  PROVE  \A i \in 1 .. Len(sent') : Len(sent'[i].b) <= S_MAX_META_BLOB_LENGTH
<1>1. CASE UNCHANGED sent
  BY <1>1
<1>2. ASSUME NEW m \in Message, Len(m.b) <= S_MAX_META_BLOB_LENGTH, sent' = Append(sent, m)
      PROVE  \A i \in 1 .. Len(sent') : Len(sent'[i].b) <= S_MAX_META_BLOB_LENGTH
  <2>1. /\ Len(sent) \in Nat /\ Len(sent') = Len(sent) + 1
        /\ \A i \in 1 .. Len(sent') : sent'[i] = IF i \in 1 .. Len(sent) THEN sent[i] ELSE m
    BY <1>2
  <2> HIDE DEF S_MAX_META_BLOB_LENGTH
  <2> QED
    BY <1>2, <2>1
<1>3. CASE sndOp = "send" /\ sndErr # SndNoError /\ sent' = SubSeq(sent, 1, Len(sent) - 1)
  <2>1. Len(got) < Len(sent) /\ Len(sent) \in Nat
    BY <1>3 DEF OwnMessageAhead
  <2>2. Len(sent) >= 1
    BY <2>1
  <2>3. Len(sent') = Len(sent) - 1 /\ \A i \in 1 .. Len(sent) - 1 : sent'[i] = sent[i]
    BY <1>3, <2>2, LastCut
  <2>4. \A i \in 1 .. Len(sent) - 1 : i \in 1 .. Len(sent)
    BY <2>1
  <2> QED
    BY <2>3, <2>4
<1> QED
  BY <1>1, <1>2, <1>3 DEF SentSeen

(* Every step keeps what the histories say.                                *)
LEMMA NextHistory ==
  ASSUME EndsInv, TransferInv, PipeNext PROVE HistoryControl'
<1>1. /\ SndInv /\ SndTypeOK /\ RequestInv /\ StorageInv /\ sent \in Seq(Message) /\ got \in Seq(Message)
      /\ CallControl /\ LineControl /\ MessageControl /\ HistoryControl /\ OwnMessageAhead
      /\ Len(got) \in Nat
  BY DEF EndsInv, SndInv, SndTypeOK, RcvInv, TransferInv, HistoryControl
<1>2. got' \in Seq(Message) /\ Abstract!ReceivedIsPrefixOfSent'
  BY <1>1, PipeStepSeen, PrefixStays DEF HistoryControl
<1>3. SentSeen
  <2>1. UNCHANGED sndVars => SentSeen
    BY DEF sndVars, sndCoreVars, SentSeen
  <2> QED
    BY <1>1, <2>1, SenderSeen
       DEF PipeNext, SenderSteps, ReceiverSteps, EndpointCloses, OppositeDirectionHoses, SenderMoves
<1>4. \A i \in 1 .. Len(sent') : Len(sent'[i].b) <= S_MAX_META_BLOB_LENGTH
  BY <1>1, <1>3, FitStays DEF HistoryControl
<1>5. rcvErr' \notin NegotiationErrors
  <2>1. CASE UNCHANGED rcvVars
    BY <1>1, <2>1 DEF rcvVars, HistoryControl
  <2>2. CASE rcvOpen /\ ReceiverMoves /\ UNCHANGED sndVars
    <3>1. CASE Reads
      BY <1>1, <2>2, <3>1, ErrorsExplained DEF ErrorExplained, ReceiverMoves
    <3>2. CASE ~Reads
      BY <1>1, <2>2, <3>2, ReceiverStops DEF Reads, HistoryControl, ReceiverMoves
    <3> QED
      BY <3>1, <3>2
  <2> QED
    BY <2>1, <2>2 DEF PipeNext, SenderSteps, ReceiverSteps, EndpointCloses, OppositeDirectionHoses,
       ReceiverMoves
<1> QED
  BY <1>2, <1>4, <1>5 DEF HistoryControl

-----------------------------------------------------------------------------
(* The invariant holds.                                                    *)

(* Nothing is on the line at first.                                        *)
LEMMA NothingCarried ==
  Carried(<<>>, <<>>, 0, <<>>, <<>>, NoPayload, "nothing", 0, "nothing", 0)
<1>0. <<>> \in Seq(Payload) /\ Len(<<>>) = 0
  OBVIOUS
<1> PICK ps : ps = <<>>
  OBVIOUS
<1>p. ps \in Seq(Payload) /\ Len(ps) = 0
  BY <1>0
<1> PICK start : start = [i \in 1 .. 1 |-> 0]
  OBVIOUS
<1> PICK kind : kind = [i \in 0 .. 0 |-> "nothing"]
  OBVIOUS
<1> PICK rank : rank = [i \in 0 .. 0 |-> 0]
  OBVIOUS
<1>1. Placed(Sizes(ps), 0, start, 0, 0, 0, 0, 0)
  <2>1. Sizes(ps) \in [1 .. 0 -> Nat \ {0}]
    BY <1>p DEF Sizes
  <2>2. start \in [1 .. 0 + 1 -> Int] /\ start[1] = 0
    OBVIOUS
  <2> QED
    BY <2>1, <2>2 DEF Placed
<1>2. Laid(ps, start, 0, 0, <<>>, <<>>, 0)
  <2>1. Len(<<>>) = 0 /\ Len(ps) = 0
    BY <1>0, <1>p
  <2> QED
    BY <1>1, <1>p, <2>1 DEF Laid
<1>3. Told(ps, kind, rank, <<>>)
  <2>1. kind \in [0 .. Len(ps) -> Kind] /\ rank \in [0 .. Len(ps) -> 0 .. Len(<<>>)]
    BY <1>0, <1>p DEF Kind
  <2>2. \A i \in 0 .. Len(ps) : kind[i] = "nothing" /\ rank[i] = 0
    BY <1>p
  <2>3. \A i, j \in 0 .. Len(ps) : i <= j => rank[i] <= rank[j]
    BY <2>2, <1>p
  <2>4. \A j \in 0 .. Len(ps) : kind[j] = "head" => rank[j] >= 1
    BY <2>2, <1>p
  <2>5. \A j \in 1 .. Len(ps) : FALSE
    BY <1>p
  <2> QED
    BY <1>0, <1>p, <2>1, <2>3, <2>4, <2>5 DEF Told
<1>4. NoPayload = First(ps) /\ kind[0] = "nothing" /\ rank[0] = 0 /\ kind[Len(ps)] = "nothing" /\ rank[Len(ps)] = 0
  BY <1>p DEF First
<1> QED
  BY <1>2, <1>3, <1>4, <1>p DEF Carried

(* The invariant holds at first.                                           *)
LEMMA TransferInit == PipeInit => EndsInv /\ TransferInv
<1> SUFFICES ASSUME PipeInit PROVE EndsInv /\ TransferInv
  OBVIOUS
<1> USE DEF PipeInit
<1>1. EndsInv
  <2>1. SndInv
    BY TypeInit, ControlInit DEF SndInv
  <2>2. RcvInv
    BY InitRcv DEF RcvSystemInit
  <2> QED
    BY <2>1, <2>2 DEF EndsInv
<1>2. /\ sndOp = "none" /\ sndPc = "idle" /\ sndRest = <<>> /\ sndQ = <<>> /\ sndErr = SndNoError
      /\ sndSock /\ ~sndStarted /\ sent = <<>>
      /\ rcvSock /\ rcvErr = "ok" /\ rcvPc = "idle" /\ rcvMsgState = "MSG_START" /\ got = <<>>
      /\ rcvVer = S_VER_UNKNOWN /\ wire = <<>>
  BY DEF WireInit, SndInit, RcvInit, RcvNoError
<1>3. CallControl
  BY <1>2 DEF CallControl
<1>4. ~InHead /\ ~InBlob /\ Consumed = 0 /\ Taken = Len(got) /\ Len(got) = 0 /\ Len(sent) = 0
  BY <1>2 DEF InHead, InBlob, AtRest, Consumed, Taken
<1>5. LineControl
  <2>1. Held = <<>>
    BY <1>2 DEF Held, InCall
  <2>2. Carried(wire, Held, Consumed, sent, sndQ, NoPayload, "nothing", 0, "nothing", 0)
    BY <1>2, <1>4, <2>1, NothingCarried
  <2>3. SenderEnd("nothing", 0)
    BY <1>2, <1>4 DEF SenderEnd, BlobDue, Pinging, Unsent
  <2>4. ReaderEnd(NoPayload, "nothing", 0)
    BY <1>2, <1>4 DEF ReaderEnd, BlobDue, Negotiating
  <2> QED
    BY <2>2, <2>3, <2>4 DEF LineControl
<1>6. MessageControl
  BY <1>2, <1>4 DEF MessageControl
<1>7. OwnMessageAhead
  BY <1>2 DEF OwnMessageAhead
<1>8. HistoryControl
  <2>1. got \in Seq(Message) /\ Abstract!ReceivedIsPrefixOfSent
    BY <1>2, <1>4 DEF Abstract!ReceivedIsPrefixOfSent
  <2> QED
    BY <1>2, <1>4, <2>1 DEF HistoryControl, NegotiationErrors, OpposingVerInvalid, OpposingVerTooOld
<1> QED
  BY <1>1, <1>3, <1>5, <1>6, <1>7, <1>8 DEF TransferInv

(* The connection's invariant: what is on the line, between what is sent   *)
(* and what is received.                                                   *)
THEOREM TransferInvariant == PipeSpec => [](EndsInv /\ TransferInv)
<1>1. EndsInv /\ TransferInv /\ [PipeNext]_pipeVars => (EndsInv /\ TransferInv)'
  <2> SUFFICES ASSUME EndsInv, TransferInv, [PipeNext]_pipeVars PROVE EndsInv' /\ TransferInv'
    OBVIOUS
  <2>1. CASE PipeNext
    BY <2>1, NextEnds, NextCalls, NextLine, NextOwn, NextHistory DEF TransferInv
  <2>2. CASE UNCHANGED pipeVars
    <3>1. UNCHANGED sndVars /\ UNCHANGED rcvVars /\ UNCHANGED wireVars
      BY <2>2 DEF pipeVars
    <3>2. EndsInv'
      <4>1. [SndNext]_sndAllVars /\ [RcvNext]_rcvAllVars
        BY <3>1 DEF sndAllVars, rcvAllVars
      <4> QED
        BY <4>1, TypeNext, ControlNext, NextRequest, NextIdle, NextStorage DEF EndsInv, SndInv, RcvInv
    <3>3. TransferInv'
      <4>1. /\ UNCHANGED <<sndSock, sndStarted, sndQ, sndErr, sndFinished, sndPc, sndOp, sndCur, sndRest, sent>>
            /\ UNCHANGED <<rcvSock, rcvTakesHandle, rcvPending, rcvHandle, rcvBlob, rcvMeta, rcvErr, rcvVer>>
            /\ UNCHANGED <<rcvMsgState, rcvLeft, rcvPc, got, wire, sndOpen, rcvOpen>>
        BY <3>1 DEF sndVars, sndCoreVars, sndCallVars, rcvVars, rcvReqVars, rcvDataVars, rcvReadVars,
           rcvHistVars, wireVars
      <4>2. /\ InHead' = InHead /\ InBlob' = InBlob /\ Consumed' = Consumed /\ Taken' = Taken
            /\ GivenHandle' = GivenHandle /\ Negotiating' = Negotiating /\ Reads' = Reads
            /\ Pinging' = Pinging /\ Unsent' = Unsent /\ Held' = Held
        BY <4>1 DEF InHead, InBlob, AtRest, Consumed, Taken, GivenHandle, Negotiating, Reads, Pinging, Unsent,
           Held, InCall
      <4>3. CallControl'
        BY <4>1 DEF TransferInv, CallControl
      <4>4. LineControl'
        BY <4>1, <4>2 DEF TransferInv, LineControl, SenderEnd, ReaderEnd
      <4>5. MessageControl'
        BY <4>1, <4>2 DEF TransferInv, MessageControl
      <4>6. OwnMessageAhead'
        BY <4>1, <4>2 DEF TransferInv, OwnMessageAhead
      <4>7. HistoryControl'
        BY <4>1 DEF TransferInv, HistoryControl, Abstract!ReceivedIsPrefixOfSent
      <4> QED
        BY <4>3, <4>4, <4>5, <4>6, <4>7 DEF TransferInv
    <3> QED
      BY <3>2, <3>3
  <2> QED
    BY <2>1, <2>2
<1> QED
  BY <1>1, TransferInit, PTL DEF PipeSpec

-----------------------------------------------------------------------------
(* The results.                                                            *)

(* Two objects of this code never find each other's version wanting, and   *)
(* neither meets a socket error while the other lives, whatever the kernel *)
(* splits, the queue delays, or the user offers.                           *)
THEOREM NoSpuriousErrorHolds == PipeSpec => []NoSpuriousError
<1>1. TransferInv => NoSpuriousError
  BY DEF TransferInv, CallControl, HistoryControl, NoSpuriousError
<1> QED
  BY <1>1, TransferInvariant, PTL

(* A message that the receive direction refuses for its handle or for its  *)
(* size is the next one, and it is so: a length or a handle is never taken *)
(* from another payload.                                                   *)
THEOREM RefusalsAreTrue == PipeSpec => RefusalIsAboutNextMessage
<1> DEFINE Refusal ==
      LET next == sent[Len(got) + 1]
      IN rcvErr' # rcvErr /\ Len(got) < Len(sent) =>
           /\ rcvErr' = "BLOB_RECEIVER_GOT_NON_BLOB" => next.h # NoHandle /\ ~rcvTakesHandle
           /\ rcvErr' = "MESSAGE_SIZE_EXCEEDS_USER_STORAGE" => Len(next.b) > rcvSize
<1>1. EndsInv /\ TransferInv /\ [PipeNext]_pipeVars => [Refusal]_pipeVars
  <2> SUFFICES ASSUME EndsInv, TransferInv, [PipeNext]_pipeVars, rcvErr' # rcvErr PROVE Refusal
    OBVIOUS
  <2>1. UNCHANGED rcvVars => rcvErr' = rcvErr
    BY DEF rcvVars
  <2>2. ReceiverMoves /\ rcvOpen /\ UNCHANGED sndVars
    <3>1. ~UNCHANGED pipeVars
      BY <2>1 DEF pipeVars
    <3>2. ~SenderSteps /\ ~EndpointCloses
      BY <2>1 DEF SenderSteps, EndpointCloses
    <3> QED
      BY <2>1, <3>1, <3>2 DEF PipeNext, ReceiverSteps, OppositeDirectionHoses, ReceiverMoves
  <2>3. /\ SndTypeOK /\ RequestInv /\ StorageInv /\ CallControl /\ LineControl /\ MessageControl
        /\ HistoryControl
    BY DEF EndsInv, SndInv, RcvInv, TransferInv
  <2>4. Reads
    BY <2>2, <2>3, ReceiverStops DEF Reads, ReceiverMoves
  <2>5. ErrorExplained
    BY <2>2, <2>3, <2>4, ErrorsExplained DEF ReceiverMoves
  <2> QED
    BY <2>5 DEF ErrorExplained
<1> QED
  BY <1>1, TransferInvariant, PTL DEF PipeSpec, RefusalIsAboutNextMessage

(* One direction of a connection implements MessagePipe: however payloads  *)
(* are split by the kernel, queued behind others, mixed with pings or cut  *)
(* off, each message given to the receiver is the next one sent, whole and *)
(* with its own handle; a withdrawn one never arrives; the end of sending  *)
(* comes last.                                                             *)
THEOREM ImplementsMessagePipeHolds == PipeSpec => ImplementsMessagePipe
<1>1. PipeInit => Abstract!Init
  BY DEF PipeInit, SndInit, RcvInit, Abstract!Init, RcvNoError
<1>2. EndsInv /\ TransferInv /\ [PipeNext]_pipeVars => [Abstract!Next]_(Abstract!vars)
  BY PipeStepSeen
<1>3. PipeSpec => Abstract!Spec
  BY <1>1, <1>2, TransferInvariant, PTL DEF PipeSpec, Abstract!Spec
<1> QED
  BY <1>3 DEF ImplementsMessagePipe

(* The receiver of a socket stream has a prefix of the messages sent,      *)
(* whatever was withdrawn.                                                 *)
THEOREM PrefixReceived == PipeSpec => []Abstract!ReceivedIsPrefixOfSent
<1>1. TransferInv => Abstract!ReceivedIsPrefixOfSent
  BY DEF TransferInv, HistoryControl
<1> QED
  BY <1>1, TransferInvariant, PTL

(* A receiver told of the end of sending stays one that has it all.        *)
LEMMA FinishedStays ==
  ASSUME Abstract!FinishedMeansAllReceived, [Abstract!Next]_(Abstract!vars)
  PROVE  Abstract!FinishedMeansAllReceived'
<1> DEFINE status == CASE rcvErr = RcvNoError -> "open"
                       [] rcvErr = "RECEIVES_FINISHED_CANNOT_RECEIVE" -> "finished"
                       [] OTHER -> "failed"
<1> SUFFICES ASSUME status = "finished" => sndFinished /\ got = sent
             PROVE  status' = "finished" => sndFinished' /\ got' = sent'
  BY DEF Abstract!FinishedMeansAllReceived
<1>1. \/ status' = status /\ UNCHANGED <<sent, got, sndFinished>>
      \/ ~sndFinished /\ UNCHANGED <<got, status>>
      \/ got # sent /\ UNCHANGED <<got, status, sndFinished>>
      \/ status = "open" /\ UNCHANGED status
      \/ sndFinished' /\ got' = sent'
      \/ status' = "failed"
  BY DEF Abstract!Next, Abstract!Send, Abstract!Withdraw, Abstract!EndSending, Abstract!Receive,
         Abstract!ReceiveEnd, Abstract!Fail, Abstract!vars
<1> HIDE DEF status
<1> QED
  BY <1>1

(* The receiver is told of the end of sending after everything it sent.    *)
THEOREM EndIsLast == PipeSpec => []Abstract!FinishedMeansAllReceived
<1>1. PipeInit => Abstract!FinishedMeansAllReceived
  BY DEF PipeInit, SndInit, RcvInit, Abstract!FinishedMeansAllReceived, RcvNoError
<1>2. Abstract!FinishedMeansAllReceived /\ EndsInv /\ TransferInv /\ [PipeNext]_pipeVars
        => Abstract!FinishedMeansAllReceived'
  BY PipeStepSeen, FinishedStays
<1> QED
  BY <1>1, <1>2, TransferInvariant, PTL DEF PipeSpec

(* Each direction keeps, between two objects of this code, what it keeps   *)
(* on its own against any program at the other end.                        *)
THEOREM EndsHoldTogether ==
  PipeSpec => [](/\ QueuedIffWaiting /\ SndAssertions /\ PingTimerArmed
                 /\ OneResultPerReceive /\ PendingIffWaiting /\ ReadsFitStorage /\ IdleTimerArmed)
<1>1. EndsInv => QueuedIffWaiting /\ SndAssertions /\ PingTimerArmed
  BY DEF EndsInv, SndInv, SndControl, QueueControl, QueuedIffWaiting, SndAssertions, PingControl, PingOps,
         PingTimerArmed
<1>2. EndsInv => OneResultPerReceive /\ PendingIffWaiting /\ ReadsFitStorage /\ IdleTimerArmed
  BY DEF EndsInv, RcvInv, RequestInv, IdleInv, StorageInv, StorageControl, AtRest, ReadsFitStorage
<1> QED
  BY <1>1, <1>2, TransferInvariant, PTL
=============================================================================
