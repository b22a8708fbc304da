--------------------------- MODULE UploadContract ---------------------------
(***************************************************************************)
(* What POST /media/complete keeps of its promise for an object key,       *)
(* however often the call is retried: the key is registered once, its      *)
(* transcription is enqueued at most once, and a client is told so only    *)
(* after both.  The one exception is a registration that the database did  *)
(* not confirm to the call that made it: that client is told of a success  *)
(* before any transcription is enqueued.                                   *)
(***************************************************************************)
EXTENDS Naturals

CONSTANT Keys

VARIABLES registered, unconfirmed, enqueued, accepted
vars == <<registered, unconfirmed, enqueued, accepted>>

Init ==
  /\ registered = {} /\ unconfirmed = {} /\ accepted = {}
  /\ enqueued = [k \in Keys |-> 0]

Register(k) ==
  /\ k \notin registered
  /\ registered' = registered \cup {k}
  /\ unconfirmed' \in {unconfirmed, unconfirmed \cup {k}}
  /\ UNCHANGED <<enqueued, accepted>>

Enqueue(k) ==
  /\ k \in registered /\ enqueued[k] = 0
  /\ enqueued' = [enqueued EXCEPT ![k] = 1]
  /\ UNCHANGED <<registered, unconfirmed, accepted>>

Accept(k) ==
  /\ k \in registered
  /\ enqueued[k] = 1 \/ k \in unconfirmed
  /\ accepted' = accepted \cup {k}
  /\ UNCHANGED <<registered, unconfirmed, enqueued>>

Next == \E k \in Keys : Register(k) \/ Enqueue(k) \/ Accept(k)

Spec == Init /\ [][Next]_vars
=============================================================================
