---------------------------- MODULE LiveSession ----------------------------
(***************************************************************************)
(* The callers of AiCalls: the queue and the routes, which wait for one    *)
(* result, and the socket of api/routes/live.py, which transcribes the     *)
(* frames of a client one after another and numbers what it sends back.    *)
(***************************************************************************)
EXTENDS AiCalls

CONSTANT MaxFrames   \* bound: frames of one live session

ASSUME LiveAssumption == MaxFrames \in Nat

VARIABLES
  caller,   \* who waits for the call: "nobody", "service" or "socket"
  socket,   \* "none", "open" or "closed"
  index,    \* chunk_index
  sent,     \* the messages the client was sent
  gone      \* the client has disconnected

liveVars == <<socket, index, sent, gone>>
vars == <<callVars, caller, liveVars>>

Message(type, i) == [type |-> type, index |-> i]
\* The finally clause: "done" is sent if anybody is there to read it.
Close_Resumes(messages) ==   \* mutant: a failed send is swallowed and the loop goes on
  IF gone THEN UNCHANGED <<socket, sent>>
  ELSE socket' = "closed" /\ sent' = sent \o messages \o <<Message("done", 0)>>
Close(messages) ==
  /\ socket' = "closed"
  /\ sent' = IF gone THEN sent ELSE sent \o messages \o <<Message("done", 0)>>

\* A job or a request asks for one result.
ServiceCalls ==
  /\ caller = "nobody" /\ caller' = "service"
  /\ TextCall \/ EmbedTexts \/ \E a \in Audios : TranscribeAudio(a)
  /\ UNCHANGED liveVars
ServiceReturns ==
  /\ caller = "service" /\ Return
  /\ caller' = "nobody"
  /\ UNCHANGED liveVars

\* An unknown token and lite mode close the socket with one message.
OpenSocket ==
  /\ socket = "none"
  /\ \/ socket' = "open" /\ sent' = <<Message("ready", 0)>>
     \/ socket' = "closed" /\ \E t \in {"error", "unavailable"} : sent' = <<Message(t, 0)>>
  /\ UNCHANGED <<callVars, caller, index, gone>>

\* A frame is a short clip, small enough to be sent whole.
ReceiveFrame ==
  /\ socket = "open" /\ caller = "nobody" /\ index < MaxFrames
  /\ index' = index + 1
  /\ caller' = "socket"
  /\ \E a \in {b \in Audios : ~b.large} : TranscribeAudio(a)
  /\ UNCHANGED <<socket, sent, gone>>

\* The partial carries the number of its frame; a call that raised ends the loop.
Numbered_Late == index - 1   \* mutant: the frame is counted after it is answered
Numbered == index
SendPartial ==
  /\ caller = "socket" /\ Return
  /\ caller' = "nobody"
  /\ CASE gone -> Close(<<>>)
       [] ~gone /\ result = "raised" -> Close(<<Message("error", 0)>>)
       [] OTHER -> sent' = Append(sent, Message("partial", Numbered)) /\ UNCHANGED socket
  /\ UNCHANGED <<index, gone>>

\* "stop", or the disconnection the next receive reports.
StopSocket ==
  /\ socket = "open" /\ caller # "socket"
  /\ Close(<<>>)
  /\ UNCHANGED <<callVars, caller, index, gone>>

Disconnect ==
  /\ socket = "open" /\ ~gone /\ gone' = TRUE
  /\ UNCHANGED <<callVars, caller, socket, index, sent>>

PostStep == Post /\ UNCHANGED <<caller, liveVars>>

Init ==
  /\ CallInit
  /\ caller = "nobody" /\ socket = "none" /\ index = 0 /\ sent = <<>> /\ gone = FALSE

Next ==
  \/ PostStep \/ ServiceCalls \/ ServiceReturns
  \/ OpenSocket \/ ReceiveFrame \/ SendPartial \/ StopSocket \/ Disconnect

Spec == Init /\ [][Next]_vars

\* Requests time out (300, 120 or 30 s), sleeps are finite, and the event loop
\* serves whoever waits; nobody has to call, speak, stop or disconnect.
Fairness == WF_vars(PostStep) /\ WF_vars(ServiceReturns) /\ WF_vars(SendPartial)
            /\ WF_vars(gone /\ StopSocket)
FairSpec == Spec /\ Fairness
-----------------------------------------------------------------------------
(* Properties                                                              *)

TypeOK ==
  /\ keys \subseteq Providers /\ pc \in {"idle", "post", "done"}
  /\ to \in Providers /\ part \in Nat \ {0} /\ attempt \in Nat
  /\ repeats \in Nat /\ waited \in Nat
  /\ result \in Statuses /\ last \in Answers \cup {"none"}
  /\ requests \in [Providers -> Nat] /\ refused \subseteq Providers

(* The waiting that one part of a call can do is bounded, whatever the     *)
(* providers answer and ask for: _request_with_retry repeats a request at  *)
(* most MaxRetries times, counts its retries for each part anew, and never *)
(* sleeps longer than the cap.  A part whose last answer was a refusal is  *)
(* over.                                                                   *)
RetryInv ==
  /\ TypeOK
  /\ attempt = repeats
  /\ attempt <= MaxRetries
  /\ waited <= attempt * Cap
  /\ pc = "post" => to \notin refused
  /\ pc = "idle" => refused = {}

(* A provider that has said no for good (out of credit, bad key) is not    *)
(* asked again by this call: neither by the retry loop, nor for another    *)
(* chunk, nor by the fallback from Deepgram to Whisper.                    *)
RefusalIsFinal ==
  [][pc' # "idle" => \A p \in refused : requests'[p] = requests[p]]_vars

(* Short spikes are absorbed: a caller is told of a transient error (429,  *)
(* 5xx or no connection at all) only after the part that met it was sent   *)
(* MaxRetries times again.                                                 *)
Transient == (RetryableStatus \ Refusals) \cup {"network"}
SpikesAbsorbed ==
  pc = "done" /\ last \in Transient /\ result # "none" => repeats = MaxRetries

(* A transcription is whole or absent: the segments of a result are        *)
(* everything that was said, in order and at its absolute time, however    *)
(* the audio was cut and whichever provider took over; a failure leaves no *)
(* part of them.  Likewise the vectors of a batched embedding.             *)
WholeOrNothing ==
  pc = "done" =>
    LET all == IF task = "embed" THEN 0..(texts - 1) ELSE input.spoken IN
    IF result \in {"COMPLETED", "EMPTY"}
    THEN collected = Ascending(all) \/ (to = "deepgram" /\ collected = <<>>)
    ELSE collected = <<>>

(* The client of a live session can match every partial to the frame it    *)
(* spoke: behind the greeting it is sent the partials of frames 1, 2, ..., *)
(* one for each frame that is not in progress, and "done" ends them.       *)
Partials == {i \in DOMAIN sent : sent[i].type = "partial"}
PartialsNumbered ==
  /\ \A i \in Partials : sent[i].index = i - 1 /\ 2..i \subseteq Partials
  /\ socket = "open" /\ caller # "socket" => Partials = 2..(index + 1)
  /\ \A i \in DOMAIN sent : sent[i].type = "done" => i = Len(sent)

(* Every call ends, and a session whose client has gone is closed, even if *)
(* the client goes while its frame is being retried.                       *)
CallsEnd == /\ pc = "post" ~> pc = "done"
            /\ gone ~> socket = "closed"
=============================================================================
