------------------------- MODULE OrderedCompletions -------------------------
(***************************************************************************)
(* What an object with asynchronous requests promises its user: the        *)
(* completion handler of each request runs exactly once, in the order of   *)
(* the requests; the k-th one that succeeds gets item k; after a failure   *)
(* nothing succeeds; and once the destructor has returned, none is owed.   *)
(*                                                                         *)
(* Promised by async_receive_*() of Async_adapter_receiver (items are      *)
(* messages) and by async_accept() of Native_socket_stream_acceptor (items *)
(* are connected peers).                                                   *)
(***************************************************************************)
EXTENDS Integers, Sequences

(* The result of a request: an item, or one of two errors.                 *)
Failed == 0     \* the transport is hosed
Aborted == -1   \* S_OBJECT_SHUTDOWN_ABORTED_COMPLETION_HANDLER

VARIABLES
  issued,    \* requests made, numbered from 1
  results,   \* results[k]: what the handler of request k was called with
  gone       \* the destructor has returned

vars == <<issued, results, gone>>

Init == issued = 0 /\ results = <<>> /\ gone = FALSE

Issue ==
  /\ ~gone
  /\ issued' = issued + 1
  /\ UNCHANGED <<results, gone>>

MayFollow(before, r) ==
  \/ r = Len(before) + 1 /\ (before # <<>> => before[Len(before)] = Len(before))
  \/ r = Failed /\ (before # <<>> => before[Len(before)] # Aborted)
  \/ r = Aborted

Complete ==
  /\ ~gone /\ Len(results) < issued
  /\ \E r \in {Len(results) + 1, Failed, Aborted} :
       /\ MayFollow(results, r)
       /\ results' = Append(results, r)
  /\ UNCHANGED <<issued, gone>>

Destroyed ==
  /\ ~gone /\ Len(results) = issued
  /\ gone' = TRUE
  /\ UNCHANGED <<issued, results>>

Next == Issue \/ Complete \/ Destroyed

Spec == Init /\ [][Next]_vars
=============================================================================
