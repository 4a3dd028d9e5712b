-------------------------- MODULE MCSocketStreamSnd --------------------------
(* Values for the constants of SocketStreamSnd.  With bytes in {0, 1} the  *)
(* length field runs from 0 to 3, 3 is the ping sentinel, and a blob of    *)
(* three bytes is the smallest one that is too long.                       *)
EXTENDS SocketStreamSnd

CONSTANT h1

MCHandle == {h1}

MCMessage ==
  {[h |-> h1, b |-> <<>>],              \* a handle alone: one payload
   [h |-> NoHandle, b |-> <<1>>],       \* a blob alone
   [h |-> h1, b |-> <<0, 1>>],          \* both
   [h |-> NoHandle, b |-> <<1, 1, 1>>]} \* too long
=============================================================================
