---------------------------- MODULE AcceptedStream ----------------------------
(***************************************************************************)
(* What both signed channels promise, with none of the mechanism.  Per     *)
(* registered device, the messages let through while their receiver stays  *)
(* up form a stream of messages that were really published, each strictly  *)
(* newer than the one before.  Messages may be lost, delayed, repeated or  *)
(* overtaken; none of that shows in the stream.  The replay baselines live *)
(* in memory only: a receiver that restarts begins a new stream.  For      *)
(* telemetry the receiver of all streams is the gateway, for decisions     *)
(* each device receives its own.                                           *)
(***************************************************************************)
EXTENDS Naturals, Sequences

CONSTANT
    Device      \* the registered device ids

VARIABLES
    sent,       \* the messages published so far
    stream      \* stream[d]: those of d let through since the receiver started

vars == <<sent, stream>>

(* The order check_boot_replay imposes: by boot session, then by sequence  *)
(* number inside the session.                                              *)
Newer(m, n) ==
    \/ m.boot > n.boot
    \/ m.boot = n.boot /\ m.seq > n.seq

Init ==
    /\ sent = {}
    /\ stream = [d \in Device |-> << >>]

(* The senders put messages on the network, which forgets none of them. *)
Publish ==
    /\ sent \subseteq sent'
    /\ UNCHANGED stream

(* One published message of d is let through: newer than the last. *)
Take(d, m) ==
    /\ m \in sent
    /\ m.dev = d
    /\ stream[d] # << >> => Newer(m, stream[d][Len(stream[d])])
    /\ stream' = [stream EXCEPT ![d] = Append(@, m)]
    /\ UNCHANGED sent

(* A receiver loses its memory: of all streams, when it is the gateway, or *)
(* of one device's.                                                        *)
Forget(D) ==
    /\ stream' = [d \in Device |-> IF d \in D THEN << >> ELSE stream[d]]
    /\ UNCHANGED sent

Next ==
    \/ Publish
    \/ \E d \in Device : \E m \in sent : Take(d, m)
    \/ \E D \in SUBSET Device : Forget(D)

Spec == Init /\ [][Next]_vars
===============================================================================
