----------------------------- MODULE SharedName -----------------------------
(***************************************************************************)
(* Shared_name: a name as a sequence of characters, the separator among    *)
(* them, with what the names of queues and sentinels are put together      *)
(* with.  A run of characters that always stand together is one here.      *)
(***************************************************************************)
EXTENDS Naturals, Sequences

CONSTANTS
  Sep, Alt,         \* S_SEPARATOR, and the other character taken for it
  Alnum, Bad,       \* characters that are allowed, and others
  MaxLength,        \* S_MAX_LENGTH
  MaxInput          \* bound: names tried

ASSUME CharsAssumption ==
  Sep # Alt /\ {Sep, Alt} \cap (Alnum \cup Bad) = {} /\ Alnum \cap Bad = {}

Plus(s, t) == s \o t
Slash(s, t) == s \o <<Sep>> \o t

IsAbsolute(s) == s # <<>> /\ Head(s) = Sep
HasTrailingSeparator(s) == s # <<>> /\ s[Len(s)] = Sep

Sanitized(s) ==
  /\ Len(s) <= MaxLength
  /\ \A i \in DOMAIN s : s[i] \in Alnum \cup {Sep}
  /\ \A i \in 1 .. Len(s) - 1 : s[i] # Sep \/ s[i + 1] # Sep

IsSep(c) == c \in {Sep, Alt}

(* Where the run of separators at i ends.                                  *)
LastOfRun(s, i) ==
  CHOOSE j \in i .. Len(s) :
    /\ \A k \in i .. j : IsSep(s[k])
    /\ j = Len(s) \/ ~IsSep(s[j + 1])

(* The loop of sanitize(): it reads at "in" and writes at "out" in place,  *)
(* and keeps a copy from the first change on unless nothing is left to     *)
(* read after it.                                                          *)
RECURSIVE Scan(_, _, _, _)
Scan(name, in, out, backup) ==
  IF in > Len(name) THEN [ok |-> TRUE, name |-> SubSeq(name, 1, out - 1)]
  ELSE IF out > MaxLength \/ name[in] \in Bad
    THEN [ok |-> FALSE, name |-> IF backup = <<>> THEN name ELSE backup]
  ELSE LET last == IF IsSep(name[in]) THEN LastOfRun(name, in) ELSE in
           ch == IF IsSep(name[in]) THEN Sep ELSE name[in]
           saves == name[out] # ch /\ backup = <<>> /\ last # Len(name)
       IN Scan([name EXCEPT ![out] = ch], last + 1, out + 1, IF saves THEN name ELSE backup)

Sanitize(s) == Scan(s, 1, 1, <<>>)

BuildConventionalName(type) ==
  Slash(Slash(Slash(Slash(Slash(<<>>, <<"libipc">>), type), <<"0">>), <<"0">>), <<"0">>)

(* mq_sentinel_name().                                                     *)
SentinelName(mqType, mqName, d) ==
  Plus(Plus(Slash(Slash(BuildConventionalName(<<"shm">>), mqType), <<"sentinel">>),
            IF d = "snd" THEN <<"Snd">> ELSE <<"Rcv">>),
       mqName)

-----------------------------------------------------------------------------
Inputs == UNION { [1 .. n -> {Sep, Alt} \cup Alnum \cup Bad] : n \in 0 .. MaxInput }

(* What sanitize() promises: separators become S_SEPARATOR, one for each   *)
(* run; a name that then is not fit is left as it was.                     *)
OnePerRun(s) ==
  LET Stays(i) == ~IsSep(s[i]) \/ i = 1 \/ ~IsSep(s[i - 1])
      kept == SelectSeq([i \in DOMAIN s |-> i], Stays)
  IN [i \in DOMAIN kept |-> IF IsSep(s[kept[i]]) THEN Sep ELSE s[kept[i]]]

(* sanitize() does what it promises, and what sanitized() accepts is what  *)
(* sanitize() leaves alone and accepts: "keep in sync", each says of the   *)
(* other.                                                                  *)
SanitizeAgrees ==
  \A s \in Inputs :
    /\ Sanitize(s) = IF Sanitized(OnePerRun(s)) THEN [ok |-> TRUE, name |-> OnePerRun(s)]
                                                ELSE [ok |-> FALSE, name |-> s]
    /\ Sanitized(s) <=> Sanitize(s) = [ok |-> TRUE, name |-> s]

ASSUME SanitizeAssumption == SanitizeAgrees

(* No two peers share a sentinel: those of a queue differ by direction,    *)
(* those of two queues by the whole name of the queue, those of queues of  *)
(* two kinds by the kind.                                                  *)
ASSUME SentinelNamesDiffer ==
  \A s, t \in { n \in Inputs : Len(n) < MaxInput /\ Sanitized(n) /\ IsAbsolute(n) } :
    \A d, e \in {"snd", "rcv"} :
      \A k, l \in {<<"posixQ">>, <<"bipcQ">>} :
        SentinelName(k, s, d) = SentinelName(l, t, e) => s = t /\ d = e /\ k = l

=============================================================================
