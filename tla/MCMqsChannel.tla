---------------------------- MODULE MCMqsChannel ----------------------------
(***************************************************************************)
(* Two ends of a channel of two queues, and a third process that wants to  *)
(* be the sender of one of them.                                           *)
(***************************************************************************)
EXTENDS MqsChannel, SharedName, TLC

CONSTANTS server, client, rival

MCProcess == {server, client, rival}
MCName == {"a", "b"}

Sender(n) == [name |-> n, dir |-> "snd"]
Receiver(n) == [name |-> n, dir |-> "rcv"]

MCRoles == (server :> <<Sender("a"), Receiver("b")>>)
             @@ (client :> <<Sender("b"), Receiver("a")>>)
             @@ (rival :> <<Sender("a")>>)

(* The server makes the queues, or opens what is there.                    *)
MCModes == { m \in [MCProcess -> Mode] :
               m[server] \in {"create", "either"} /\ m[client] # "create" /\ m[rival] = "either" }

(* The channel's steps touch no names, so one order of them and the other  *)
(* processes' steps is enough, with one kind of queue opened in one mode:  *)
(* all of a channel's life before the others begin; a channel that only    *)
(* comes and goes at any other time.                                       *)
ChannelFirst ==
  \/ started = {} /\ watched = {} /\ layout[Hndl] = "none"
  \/ /\ mqKind = "posix" /\ mode[Owner] = "create" /\ mode[client] = "open"
     /\ \A p \in MCProcess \ {Owner} : stage[p] = FirstStage(p) /\ role[p] = 1

=============================================================================
