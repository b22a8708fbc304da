--------------------------- MODULE AiCallsProofs ---------------------------
(***************************************************************************)
(* Proofs about LiveSession, for every number of retries, cap, set of      *)
(* Retry-After values, chunk length, audio and session: the waiting of a   *)
(* call is bounded, a provider that refused for good is not asked again,   *)
(* short spikes are absorbed, a transcription is whole or absent, and a    *)
(* live client can match every partial to its frame.                       *)
(***************************************************************************)
EXTENDS LiveSession, TLAPS, FiniteSetTheorems, SequenceTheorems, WellFoundedInduction

\* A sleep lasts between nothing and the cap.
LEMMA DelaysCapped ==
  ASSUME NEW hint \in Hints \cup {0}
  PROVE Delays(hint) \subseteq 0..Cap
<1>1. CASE hint > 0
  BY <1>1, CallAssumption DEF Delays, Least
<1>2. CASE ~(hint > 0)
  BY <1>2 DEF Delays
<1> QED BY <1>1, <1>2

\* A part that is about to be asked has been retried and slept for nothing.
LEMMA FreshPart ==
  ASSUME NEW p \in Providers, NEW n \in Nat \ {0}, RetryInv, AskPart(p, n),
         last' \in Answers \cup {"none"}, requests' \in [Providers -> Nat],
         refused' \subseteq Providers, p \notin refused', keys' = keys
  PROVE RetryInv'
  BY CallAssumption DEF AskPart, RetryInv, TypeOK

\* Telling the caller ends the part.
LEMMA Told ==
  ASSUME NEW s \in Statuses, RetryInv, Tell(s),
         last' \in Answers \cup {"none"}, requests' \in [Providers -> Nat],
         refused' \subseteq Providers, keys' = keys
  PROVE RetryInv'
  BY DEF Tell, RetryInv, TypeOK, partVars, Statuses

-----------------------------------------------------------------------------
(* One request                                                             *)

\* A refusal is never retried and never taken for a reply.
LEMMA RefusalNotRetried ==
  ASSUME NEW a \in Answers, Retried(a)
  PROVE ~Permanent(a)
  BY DEF Retried, Permanent, Refusals, RetryableStatus

LEMMA RetryKeeps ==
  ASSUME NEW a \in AnswersOf(to), RetryInv, pc = "post", Retried(a), RetryRequest(a),
         last' = a, requests' = [requests EXCEPT ![to] = @ + 1],
         refused' = IF Permanent(a) THEN refused \cup {to} ELSE refused,
         keys' = keys
  PROVE RetryInv'
<1>1. PICK hint \in Hints \cup {0} : \E d \in Delays(hint) : waited' = waited + d
  BY DEF RetryRequest
<1>2. PICK d \in 0..Cap : waited' = waited + d
  BY <1>1, DelaysCapped
<1>3. a \in Answers /\ refused' = refused
  BY RefusalNotRetried DEF AnswersOf
<1>4. /\ attempt \in Nat /\ attempt < MaxRetries /\ waited \in Nat /\ waited <= attempt * Cap
      /\ attempt' = attempt + 1 /\ repeats' = repeats + 1 /\ repeats = attempt
  BY DEF RetryInv, TypeOK, Retried, RetryRequest
<1>5. waited' \in Nat /\ waited' <= attempt' * Cap
  <2>1. (attempt + 1) * Cap = attempt * Cap + Cap
    BY <1>4, CallAssumption
  <2>2. waited + d <= attempt * Cap + Cap /\ attempt * Cap \in Nat
    BY <1>2, <1>4, CallAssumption
  <2> QED BY <1>2, <1>4, <2>1, <2>2, CallAssumption
<1>6. attempt' \in Nat /\ attempt' <= MaxRetries /\ attempt' = repeats'
  BY <1>4, CallAssumption
<1>7. requests' \in [Providers -> Nat]
  BY DEF RetryInv, TypeOK
<1> QED
  BY <1>3, <1>5, <1>6, <1>7 DEF RetryInv, TypeOK, RetryRequest

\* The failure of a part ends the call or, from Deepgram, asks Whisper.
LEMMA FailKeeps ==
  ASSUME NEW a \in AnswersOf(to), RetryInv, pc = "post", Fail(a),
         last' = a, requests' = [requests EXCEPT ![to] = @ + 1],
         refused' = IF Permanent(a) THEN refused \cup {to} ELSE refused,
         keys' = keys, "openai" \notin refused
  PROVE RetryInv'
<1>1. /\ last' \in Answers \cup {"none"} /\ requests' \in [Providers -> Nat]
      /\ refused' \subseteq Providers
  BY DEF RetryInv, TypeOK, AnswersOf
<1>2. \/ \E s \in Statuses : Tell(s)
      \/ to = "deepgram" /\ AskPart("openai", 1)
  BY DEF Fail, DeepgramFails, WhisperFails, FailedResult, Statuses
<1>3. CASE \E s \in Statuses : Tell(s)
  BY <1>1, <1>3, Told
<1>4. CASE to = "deepgram" /\ AskPart("openai", 1)
  <2>1. "openai" \notin refused'
    BY <1>4
  <2>2. "openai" \in Providers /\ 1 \in Nat \ {0}
    BY DEF Providers
  <2> QED BY <1>1, <1>4, <2>1, <2>2, FreshPart
<1> QED BY <1>2, <1>3, <1>4

\* A reply ends the call or asks the same provider for the next part.
LEMMA ReceiveKeeps ==
  ASSUME RetryInv, pc = "post", Receive,
         last' = "reply", requests' = [requests EXCEPT ![to] = @ + 1],
         refused' = refused, keys' = keys
  PROVE RetryInv'
<1>1. /\ last' \in Answers \cup {"none"} /\ requests' \in [Providers -> Nat]
      /\ refused' \subseteq Providers /\ to \notin refused'
      /\ to \in Providers /\ part + 1 \in Nat \ {0}
  BY DEF RetryInv, TypeOK, Answers
<1>2. \/ \E s \in Statuses : Tell(s)
      \/ AskPart(to, part + 1)
  BY DEF Receive, ReceiveAudio, ReceiveVectors, ReceiveText, Statuses
<1>3. CASE \E s \in Statuses : Tell(s)
  BY <1>1, <1>3, Told
<1>4. CASE AskPart(to, part + 1)
  BY <1>1, <1>4, FreshPart
<1> QED BY <1>2, <1>3, <1>4

-----------------------------------------------------------------------------
(* The inductive invariant.  RetryInv is not inductive: the fallback from  *)
(* Deepgram asks OpenAI, so OpenAI must not have refused while Deepgram is *)
(* still being asked.                                                      *)

FallbackFresh == pc = "post" /\ to = "deepgram" => "openai" \notin refused
CallInv == RetryInv /\ FallbackFresh

LEMMA InitCall == Init => CallInv
  BY CallAssumption DEF Init, CallInit, CallInv, RetryInv, TypeOK, FallbackFresh,
     Providers, Statuses

\* Whatever a request comes back with, the call stays within its bounds.
LEMMA PostKeeps ==
  ASSUME CallInv, Post
  PROVE CallInv'
<1>1. PICK a \in AnswersOf(to) :
        /\ last' = a
        /\ requests' = [requests EXCEPT ![to] = @ + 1]
        /\ refused' = IF Permanent(a) THEN refused \cup {to} ELSE refused
        /\ \/ Retried(a) /\ RetryRequest(a)
           \/ ~Retried(a) /\ a # "reply" /\ Fail(a)
           \/ a = "reply" /\ Receive
  BY DEF Post
<1>2. pc = "post" /\ keys' = keys /\ RetryInv
  BY DEF Post, CallInv
<1>3. CASE Retried(a) /\ RetryRequest(a)
  <2>1. refused' = refused /\ to' = to /\ pc' = pc
    BY <1>1, <1>3, RefusalNotRetried DEF AnswersOf, RetryRequest
  <2>2. RetryInv'
    BY <1>1, <1>2, <1>3, RetryKeeps
  <2> QED BY <2>1, <2>2 DEF CallInv, FallbackFresh
<1>4. CASE ~Retried(a) /\ a # "reply" /\ Fail(a)
  <2>1. "openai" \notin refused \/ to = "openai"
    BY <1>2 DEF CallInv, FallbackFresh, RetryInv, TypeOK, Providers
  <2>2. "openai" \notin refused
    BY <1>2, <2>1 DEF RetryInv
  <2>3. RetryInv'
    BY <1>1, <1>2, <1>4, <2>2, FailKeeps
  <2>4. pc' = "done" \/ to' = "openai"
    BY <1>4 DEF Fail, DeepgramFails, WhisperFails, FailedResult, Tell, AskPart
  <2> QED BY <2>3, <2>4 DEF CallInv, FallbackFresh
<1>5. CASE a = "reply" /\ Receive
  <2>1. refused' = refused
    BY <1>1, <1>5 DEF Permanent, Refusals
  <2>2. RetryInv'
    BY <1>1, <1>2, <1>5, <2>1, ReceiveKeeps
  <2>3. pc' = "done" \/ to' = to
    BY <1>5 DEF Receive, ReceiveAudio, ReceiveVectors, ReceiveText, Tell, AskPart
  <2> QED BY <1>2, <2>1, <2>2, <2>3 DEF CallInv, FallbackFresh
<1> QED BY <1>1, <1>3, <1>4, <1>5

\* A call begins with a first request, or ends where no provider is to be asked.
LEMMA BeginKeeps ==
  ASSUME CallInv, TextCall \/ EmbedTexts \/ \E a \in Audios : TranscribeAudio(a)
  PROVE CallInv'
<1>1. /\ pc = "idle" /\ refused = {} /\ RetryInv
      /\ last \in Answers \cup {"none"} /\ requests \in [Providers -> Nat]
  BY DEF TextCall, AnalyzeFull, GenerateTitle, Summarize, ChatOverTranscript, TransformText,
     GenerateDigest, MeetingCoaching, ConversationAnalytics, VoiceCommandIntent, AnswerAcross,
     Ask, EmbedTexts, TranscribeAudio, Begin, CallInv, RetryInv, TypeOK
<1>2. \/ \E p \in Providers : Start(p)
      \/ \E s \in Statuses : Settle(s)
  BY DEF TextCall, AnalyzeFull, GenerateTitle, Summarize, ChatOverTranscript, TransformText,
     GenerateDigest, MeetingCoaching, ConversationAnalytics, VoiceCommandIntent, AnswerAcross,
     Ask, EmbedTexts, TranscribeAudio, Statuses, Providers
<1>3. CASE \E p \in Providers : Start(p)
  <2>1. PICK p \in Providers : Start(p)
    BY <1>3
  <2>2. /\ AskPart(p, 1) /\ keys' = keys /\ refused' = refused
        /\ last' = last /\ requests' = requests
    BY <2>1 DEF Start, answerVars
  <2>3. 1 \in Nat \ {0}
    OBVIOUS
  <2>4. RetryInv'
    BY <1>1, <2>2, <2>3, FreshPart
  <2> QED BY <1>1, <2>2, <2>4 DEF CallInv, FallbackFresh
<1>4. CASE \E s \in Statuses : Settle(s)
  <2>1. PICK s \in Statuses : Settle(s)
    BY <1>4
  <2>2. /\ Tell(s) /\ keys' = keys /\ refused' = refused /\ pc' = "done"
        /\ last' = last /\ requests' = requests
    BY <2>1 DEF Settle, answerVars, Tell
  <2>3. RetryInv'
    BY <1>1, <2>2, Told
  <2> QED BY <2>2, <2>3 DEF CallInv, FallbackFresh
<1> QED BY <1>2, <1>3, <1>4

LEMMA ReturnKeeps ==
  ASSUME CallInv, Return
  PROVE CallInv'
  BY CallAssumption DEF Return, CallInv, RetryInv, TypeOK, FallbackFresh, Providers, Statuses

\* What the callers and the socket do leaves the call alone.
LEMMA CallUnchanged ==
  ASSUME CallInv, UNCHANGED callVars
  PROVE CallInv'
  BY DEF callVars, inputVars, partVars, answerVars, CallInv, RetryInv, TypeOK, FallbackFresh

LEMMA NextCall == CallInv /\ [Next]_vars => CallInv'
<1> SUFFICES ASSUME CallInv, [Next]_vars PROVE CallInv'
  OBVIOUS
<1>1. CASE PostStep
  BY <1>1, PostKeeps DEF PostStep
<1>2. CASE ServiceCalls
  BY <1>2, BeginKeeps DEF ServiceCalls
<1>3. CASE ServiceReturns
  BY <1>3, ReturnKeeps DEF ServiceReturns
<1>4. CASE ReceiveFrame
  BY <1>4, BeginKeeps DEF ReceiveFrame
<1>5. CASE SendPartial
  BY <1>5, ReturnKeeps DEF SendPartial
<1>6. CASE OpenSocket \/ StopSocket \/ Disconnect \/ UNCHANGED vars
  BY <1>6, CallUnchanged DEF OpenSocket, StopSocket, Disconnect, vars
<1> QED BY <1>1, <1>2, <1>3, <1>4, <1>5, <1>6 DEF Next

-----------------------------------------------------------------------------
(* Theorems                                                                *)

THEOREM CallInvariant == Spec => []CallInv
  BY InitCall, NextCall, PTL DEF Spec

(* The retries of a part and the seconds slept for it are bounded for      *)
(* every MaxRetries, cap and Retry-After value (_request_with_retry).      *)
THEOREM RetryInvariant == Spec => []RetryInv
  BY CallInvariant, PTL DEF CallInv

(* No part of a call sleeps for more than MaxRetries times the cap: with   *)
(* the deployed 4 and 8 seconds, 32 seconds.                               *)
THEOREM WaitBounded == Spec => [](waited <= MaxRetries * Cap)
<1>1. RetryInv => waited <= MaxRetries * Cap
  <2> SUFFICES ASSUME RetryInv PROVE waited <= MaxRetries * Cap
    OBVIOUS
  <2>1. PICK rest \in Nat : MaxRetries = attempt + rest
    <3>1. MaxRetries - attempt \in Nat /\ MaxRetries = attempt + (MaxRetries - attempt)
      BY CallAssumption DEF RetryInv, TypeOK
    <3> QED BY <3>1
  <2>2. attempt \in Nat /\ waited \in Nat /\ waited <= attempt * Cap /\ Cap \in Nat
    BY CallAssumption DEF RetryInv, TypeOK
  <2>3. MaxRetries * Cap = attempt * Cap + rest * Cap
    BY <2>1, <2>2
  <2>4. rest * Cap \in Nat /\ attempt * Cap \in Nat
    BY <2>1, <2>2
  <2>5. attempt * Cap <= attempt * Cap + rest * Cap
    BY <2>4
  <2> QED BY <2>2, <2>3, <2>4, <2>5
<1> QED BY <1>1, RetryInvariant, PTL

(* A provider that refused for good is not asked again by the same call:   *)
(* neither the retry loop nor the next chunk nor the fallback does.        *)
THEOREM RefusalRespected == Spec => RefusalIsFinal
<1>1. CallInv /\ [Next]_vars =>
        [pc' # "idle" => \A p \in refused : requests'[p] = requests[p]]_vars
  <2> SUFFICES ASSUME CallInv, [Next]_vars, pc' # "idle", NEW p \in refused
               PROVE requests'[p] = requests[p]
    OBVIOUS
  <2>1. CASE PostStep
    <3>1. requests' = [requests EXCEPT ![to] = @ + 1] /\ pc = "post"
      BY <2>1 DEF PostStep, Post
    <3>2. to # p /\ p \in Providers /\ requests \in [Providers -> Nat]
      BY <3>1 DEF CallInv, RetryInv, TypeOK
    <3> QED BY <3>1, <3>2
  <2>2. CASE ServiceCalls \/ ReceiveFrame
    <3>1. pc = "idle"
      BY <2>2 DEF ServiceCalls, ReceiveFrame, TextCall, AnalyzeFull, GenerateTitle, Summarize,
         ChatOverTranscript, TransformText, GenerateDigest, MeetingCoaching,
         ConversationAnalytics, VoiceCommandIntent, AnswerAcross, Ask, EmbedTexts,
         TranscribeAudio, Begin
    <3> QED BY <3>1 DEF CallInv, RetryInv
  <2>3. CASE ServiceReturns \/ SendPartial
    BY <2>3 DEF ServiceReturns, SendPartial, Return
  <2>4. CASE OpenSocket \/ StopSocket \/ Disconnect \/ UNCHANGED vars
    BY <2>4 DEF OpenSocket, StopSocket, Disconnect, vars, callVars, answerVars
  <2> QED BY <2>1, <2>2, <2>3, <2>4 DEF Next
<1> QED BY <1>1, CallInvariant, PTL DEF Spec, RefusalIsFinal
-----------------------------------------------------------------------------
(* Short spikes.  A transient error is told only by Fail, which an error   *)
(* reaches when the retries of its part are used up.                       *)

SpikeInv == SpikesAbsorbed /\ (pc = "idle" => last = "none")

\* An error that is not retried, though it could be, has used its retries.
LEMMA TriesUsed ==
  ASSUME NEW a \in Transient, RetryInv, ~Retried(a)
  PROVE attempt = MaxRetries
<1>1. a = "network" \/ (a \in RetryableStatus /\ ~Permanent(a))
  BY DEF Transient, Permanent
<1>2. ~(attempt < MaxRetries)
  BY <1>1 DEF Retried
<1> QED BY <1>2, CallAssumption DEF RetryInv, TypeOK

LEMMA SpikeAnswered ==
  ASSUME CallInv, SpikeInv, Post
  PROVE SpikeInv'
<1>1. PICK a \in AnswersOf(to) :
        /\ last' = a
        /\ \/ Retried(a) /\ RetryRequest(a)
           \/ ~Retried(a) /\ a # "reply" /\ Fail(a)
           \/ a = "reply" /\ Receive
  BY DEF Post
<1>2. pc = "post" /\ RetryInv
  BY DEF Post, CallInv
<1>3. CASE Retried(a) /\ RetryRequest(a)
  BY <1>2, <1>3 DEF RetryRequest, SpikeInv, SpikesAbsorbed
<1>4. CASE ~Retried(a) /\ a # "reply" /\ Fail(a)
  <2>1. pc' \in {"post", "done"} /\ (pc' = "done" => repeats' = repeats)
    BY <1>4 DEF Fail, DeepgramFails, WhisperFails, FailedResult, Tell, AskPart, partVars
  <2>2. a \in Transient => repeats = MaxRetries
    BY <1>2, <1>4, TriesUsed DEF RetryInv
  <2> QED BY <1>1, <2>1, <2>2 DEF SpikeInv, SpikesAbsorbed, Transient
<1>5. CASE a = "reply" /\ Receive
  <2>1. pc' \in {"post", "done"}
    BY <1>5 DEF Receive, ReceiveAudio, ReceiveVectors, ReceiveText, Tell, AskPart
  <2>2. "reply" \notin Transient
    BY DEF Transient, RetryableStatus
  <2> QED BY <1>1, <1>5, <2>1, <2>2 DEF SpikeInv, SpikesAbsorbed, Transient
<1> QED BY <1>1, <1>3, <1>4, <1>5

\* A call that begins has no answer yet.
LEMMA SpikeBegins ==
  ASSUME CallInv, SpikeInv, TextCall \/ EmbedTexts \/ \E a \in Audios : TranscribeAudio(a)
  PROVE SpikeInv'
<1>1. pc = "idle"
  BY DEF TextCall, AnalyzeFull, GenerateTitle, Summarize, ChatOverTranscript, TransformText,
     GenerateDigest, MeetingCoaching, ConversationAnalytics, VoiceCommandIntent, AnswerAcross,
     Ask, EmbedTexts, TranscribeAudio, Begin
<1>2. \/ \E p \in Providers : Start(p)
      \/ \E s \in Statuses : Settle(s)
  BY DEF TextCall, AnalyzeFull, GenerateTitle, Summarize, ChatOverTranscript, TransformText,
     GenerateDigest, MeetingCoaching, ConversationAnalytics, VoiceCommandIntent, AnswerAcross,
     Ask, EmbedTexts, TranscribeAudio, Statuses, Providers
<1>3. last = "none" /\ last' = last /\ pc' # "idle"
  BY <1>1, <1>2 DEF SpikeInv, Start, Settle, Tell, AskPart, answerVars
<1>4. "none" \notin Transient
  BY DEF Transient, RetryableStatus
<1> QED BY <1>3, <1>4 DEF SpikeInv, SpikesAbsorbed, Transient

LEMMA NextSpike == CallInv /\ SpikeInv /\ [Next]_vars => SpikeInv'
<1> SUFFICES ASSUME CallInv, SpikeInv, [Next]_vars PROVE SpikeInv'
  OBVIOUS
<1>1. CASE PostStep
  BY <1>1, SpikeAnswered DEF PostStep
<1>2. CASE ServiceCalls \/ ReceiveFrame
  BY <1>2, SpikeBegins DEF ServiceCalls, ReceiveFrame
<1>3. CASE ServiceReturns \/ SendPartial
  BY <1>3 DEF ServiceReturns, SendPartial, Return, SpikeInv, SpikesAbsorbed
<1>4. CASE OpenSocket \/ StopSocket \/ Disconnect \/ UNCHANGED vars
  BY <1>4 DEF OpenSocket, StopSocket, Disconnect, vars, callVars, inputVars, partVars, answerVars,
     SpikeInv, SpikesAbsorbed, Transient
<1> QED BY <1>1, <1>2, <1>3, <1>4 DEF Next

(* A caller is told of a transient error only after the part that met it   *)
(* was sent MaxRetries times again, for every MaxRetries and every audio   *)
(* (_request_with_retry and the functions that report its failures).       *)
THEOREM SpikesAbsorbedAlways == Spec => []SpikesAbsorbed
<1>1. Init => SpikeInv
  BY DEF Init, CallInit, SpikeInv, SpikesAbsorbed
<1>2. CallInv /\ SpikeInv /\ [Next]_vars => SpikeInv'
  BY NextSpike
<1> QED BY <1>1, <1>2, CallInvariant, PTL DEF Spec, SpikeInv

-----------------------------------------------------------------------------
(* What is put together from parts.  A sequence that lists a set in order  *)
(* is determined by the set.                                               *)

InOrder(s, S) ==
  /\ s \in Seq(Nat)
  /\ \A i, j \in 1..Len(s) : i < j => s[i] < s[j]
  /\ S = {s[i] : i \in 1..Len(s)}

LEMMA LeastNumber ==
  ASSUME NEW T \in SUBSET Nat, T # {}
  PROVE  \E x \in T : \A y \in T : x <= y
<1>1. PICK x \in T : \A y \in T : ~(<<y, x>> \in OpToRel(<, Nat))
  BY NatLessThanWellFounded, WFMin
<1>2. \A y \in T : ~(y < x)
  BY <1>1 DEF OpToRel
<1> QED
  BY <1>2

LEMMA OneOrder ==
  ASSUME NEW S, NEW s, NEW t, InOrder(s, S), InOrder(t, S)
  PROVE  s = t
<1>1. /\ Len(s) \in Nat /\ s \in [1..Len(s) -> Nat]
      /\ Len(t) \in Nat /\ t \in [1..Len(t) -> Nat]
  BY LenProperties DEF InOrder
<1>2. ASSUME NEW u, InOrder(u, S), Len(u) \in Nat, u \in [1..Len(u) -> Nat]
      PROVE  Cardinality(S) = Len(u)
  <2>1. u \in [1..Len(u) -> S]
    BY <1>2 DEF InOrder
  <2>2. \A i, j \in 1..Len(u) : u[i] = u[j] => i = j
    <3> SUFFICES ASSUME NEW i \in 1..Len(u), NEW j \in 1..Len(u), i # j PROVE u[i] # u[j]
      OBVIOUS
    <3>1. i < j \/ j < i
      BY <1>2
    <3>2. u[i] < u[j] \/ u[j] < u[i]
      BY <1>2, <3>1 DEF InOrder
    <3> QED
      BY <1>2, <3>2
  <2>3. u \in Bijection(1..Len(u), S)
    BY <1>2, <2>1, <2>2 DEF InOrder, Bijection, Injection, Surjection, IsInjective
  <2> QED
    BY <1>2, <2>3, FS_CountingElements DEF ExistsBijection
<1>3. Len(s) = Len(t)
  BY <1>1, <1>2
<1> DEFINE Differ == {i \in 1..Len(s) : s[i] # t[i]}
<1>4. Differ = {}
  <2> SUFFICES ASSUME Differ # {} PROVE FALSE
    OBVIOUS
  <2>1. Differ \in SUBSET Nat
    BY <1>1
  <2>2. PICK i \in Differ : \A k \in Differ : i <= k
    BY <2>1, LeastNumber
  <2>3. i \in 1..Len(s) /\ s[i] # t[i] /\ \A k \in 1..Len(s) : k < i => s[k] = t[k]
    BY <1>1, <2>2
  <2>4. ASSUME NEW u, NEW v, InOrder(u, S), InOrder(v, S), Len(u) = Len(v), i \in 1..Len(u),
               Len(u) \in Nat, u \in [1..Len(u) -> Nat], v \in [1..Len(u) -> Nat],
               u[i] < v[i], \A k \in 1..Len(u) : k < i => u[k] = v[k]
        PROVE  FALSE
    <3>1. PICK j \in 1..Len(v) : v[j] = u[i]
      BY <2>4 DEF InOrder
    <3>2. j < i
      <4> SUFFICES ASSUME ~(j < i) PROVE FALSE
        OBVIOUS
      <4>1. i = j \/ i < j
        BY <2>4, <3>1
      <4>2. v[i] <= v[j]
        BY <2>4, <3>1, <4>1 DEF InOrder
      <4> QED
        BY <2>4, <3>1, <4>2
    <3>3. u[j] = u[i] /\ u[j] < u[i]
      BY <2>4, <3>1, <3>2 DEF InOrder
    <3> QED
      BY <2>4, <3>3
  <2>5. s[i] < t[i] \/ t[i] < s[i]
    BY <1>1, <1>3, <2>3
  <2>6. CASE s[i] < t[i]
    BY <1>1, <1>3, <2>3, <2>4, <2>6
  <2>7. CASE t[i] < s[i]
    BY <1>1, <1>3, <2>3, <2>4, <2>7
  <2> QED
    BY <2>5, <2>6, <2>7
<1> QED
  BY <1>1, <1>3, <1>4

LEMMA EmptyOrder == InOrder(<<>>, {}) /\ \A s : InOrder(s, {}) => s = <<>>
<1>1. InOrder(<<>>, {})
  BY DEF InOrder
<1> QED
  BY <1>1, OneOrder

LEMMA JoinedOrder ==
  ASSUME NEW A, NEW B, NEW s, NEW t, InOrder(s, A), InOrder(t, B),
         \A a \in A, b \in B : a < b
  PROVE  InOrder(s \o t, A \cup B)
<1>1. /\ Len(s) \in Nat /\ Len(t) \in Nat /\ s \in Seq(Nat) /\ t \in Seq(Nat)
      /\ \A i \in 1..Len(s) : s[i] \in A /\ s[i] \in Nat
      /\ \A i \in 1..Len(t) : t[i] \in B /\ t[i] \in Nat
  BY LenProperties, ElementOfSeq DEF InOrder
<1> DEFINE m == Len(s)  n == Len(t)  u == s \o t
<1>2. /\ u \in Seq(Nat) /\ Len(u) = m + n
      /\ \A i \in 1..(m + n) : u[i] = IF i <= m THEN s[i] ELSE t[i - m]
  BY <1>1, ConcatProperties
<1>3. ASSUME NEW i \in 1..(m + n), NEW j \in 1..(m + n), i < j PROVE u[i] < u[j]
  <2>1. CASE j <= m
    BY <1>1, <1>2, <1>3, <2>1 DEF InOrder
  <2>2. CASE m < i
    <3>1. i - m \in 1..n /\ j - m \in 1..n /\ i - m < j - m
      BY <1>1, <1>3, <2>2
    <3>2. t[i - m] < t[j - m]
      BY <1>1, <3>1 DEF InOrder
    <3>3. u[i] = t[i - m] /\ u[j] = t[j - m]
      BY <1>1, <1>2, <1>3, <2>2
    <3> QED
      BY <3>2, <3>3
  <2>3. CASE i <= m /\ m < j
    BY <1>1, <1>2, <1>3, <2>3
  <2> QED
    BY <1>1, <2>1, <2>2, <2>3
<1>4. A \cup B = {u[i] : i \in 1..(m + n)}
  <2>1. ASSUME NEW a \in A PROVE \E i \in 1..(m + n) : a = u[i]
    <3>1. PICK i \in 1..m : a = s[i]
      BY <2>1 DEF InOrder
    <3> QED
      BY <1>1, <1>2, <3>1
  <2>2. ASSUME NEW b \in B PROVE \E i \in 1..(m + n) : b = u[i]
    <3>1. PICK i \in 1..n : b = t[i]
      BY <2>2 DEF InOrder
    <3>2. m + i \in 1..(m + n) /\ ~(m + i <= m) /\ (m + i) - m = i
      BY <1>1
    <3> QED
      BY <1>1, <1>2, <3>1, <3>2
  <2>3. \A i \in 1..(m + n) : u[i] \in A \cup B
    BY <1>1, <1>2
  <2> QED
    BY <2>1, <2>2, <2>3
<1> QED
  BY <1>2, <1>3, <1>4 DEF InOrder

\* A chunk's times become those of the recording.
LEMMA ShiftedOrder ==
  ASSUME NEW k \in Nat, NEW S \in SUBSET Nat, \A p \in S : k <= p, NEW s,
         InOrder(s, {p - k : p \in S})
  PROVE  InOrder([i \in DOMAIN s |-> s[i] + k], S)
<1>1. s \in Seq(Nat) /\ Len(s) \in Nat /\ DOMAIN s = 1..Len(s) /\ \A i \in 1..Len(s) : s[i] \in Nat
  BY LenProperties, ElementOfSeq DEF InOrder
<1> DEFINE t == [i \in 1..Len(s) |-> s[i] + k]
<1>2. t \in Seq(Nat) /\ Len(t) = Len(s) /\ \A i \in 1..Len(s) : t[i] = s[i] + k
  BY <1>1
<1>3. \A i, j \in 1..Len(s) : i < j => t[i] < t[j]
  BY <1>1, <1>2 DEF InOrder
<1>4. S = {t[i] : i \in 1..Len(s)}
  <2>1. ASSUME NEW p \in S PROVE \E i \in 1..Len(s) : p = t[i]
    <3>1. PICK i \in 1..Len(s) : p - k = s[i]
      BY DEF InOrder
    <3>2. \A a \in Nat, b \in Nat : b - a \in Int /\ (b - a) + a = b
      OBVIOUS
    <3>3. s[i] + k = p
      BY <3>1, <3>2
    <3> QED
      BY <1>2, <3>3
  <2>2. ASSUME NEW i \in 1..Len(s) PROVE t[i] \in S
    <3>1. PICK p \in S : s[i] = p - k
      BY DEF InOrder
    <3> QED
      BY <1>2, <3>1
  <2> QED
    BY <2>1, <2>2
<1> QED
  BY <1>1, <1>2, <1>3, <1>4 DEF InOrder

\* Ascending is what its name says: there is such a sequence, by the least size
\* of a set that has none, and it leaves nothing out.
Listings(S) == {s \in [1..Cardinality(S) -> S] : \A i, j \in DOMAIN s : i < j => s[i] < s[j]}

LEMMA ListingExists ==
  ASSUME NEW S \in SUBSET Nat, IsFiniteSet(S)
  PROVE  Listings(S) # {}
<1> DEFINE Without == {n \in Nat : \E T \in SUBSET Nat :
                         IsFiniteSet(T) /\ Cardinality(T) = n /\ Listings(T) = {}}
<1> SUFFICES ASSUME Without # {} PROVE FALSE
  BY FS_CardinalityType
<1>1. PICK n \in Without : \A k \in Without : n <= k
  <2>1. Without \in SUBSET Nat
    OBVIOUS
  <2> HIDE DEF Without
  <2> QED
    BY <2>1, LeastNumber
<1>2. PICK T \in SUBSET Nat : IsFiniteSet(T) /\ Cardinality(T) = n /\ Listings(T) = {}
  BY <1>1
<1>3. n \in Nat /\ n # 0 /\ T # {}
  <2>1. CASE T = {}
    <3>1. n = 0 /\ [i \in 1..0 |-> i] \in [1..0 -> {}]
      BY <1>2, <2>1, FS_EmptySet
    <3>2. [i \in 1..0 |-> i] \in Listings(T)
      BY <1>2, <2>1, <3>1 DEF Listings
    <3> QED
      BY <1>2, <3>2
  <2> QED
    BY <1>2, <2>1, FS_EmptySet
<1>4. PICK m \in T : \A p \in T : m <= p
  BY <1>3, LeastNumber
<1>5. IsFiniteSet(T \ {m}) /\ Cardinality(T \ {m}) = n - 1
  BY <1>2, <1>4, FS_RemoveElement
<1>6. PICK r \in Listings(T \ {m}) : TRUE
  <2>1. n - 1 \in Nat /\ ~(n <= n - 1)
    BY <1>3
  <2>2. n - 1 \notin Without
    BY <1>1, <2>1
  <2>3. Listings(T \ {m}) # {}
    BY <1>5, <2>1, <2>2
  <2> QED
    BY <2>3
<1>7. /\ r \in [1..(n - 1) -> T \ {m}]
      /\ \A i, j \in 1..(n - 1) : i < j => r[i] < r[j]
  BY <1>5, <1>6 DEF Listings
<1> DEFINE s == [i \in 1..n |-> IF i = 1 THEN m ELSE r[i - 1]]
<1>8. \A i \in 2..n : i - 1 \in 1..(n - 1) /\ r[i - 1] \in T \ {m} /\ s[i] = r[i - 1]
  BY <1>3, <1>7
<1>9. s \in [1..n -> T]
  <2> SUFFICES ASSUME NEW i \in 1..n PROVE (IF i = 1 THEN m ELSE r[i - 1]) \in T
    OBVIOUS
  <2>1. i = 1 \/ i \in 2..n
    BY <1>3
  <2> QED
    BY <1>4, <1>8, <2>1
<1>10. ASSUME NEW i \in 1..n, NEW j \in 1..n, i < j PROVE s[i] < s[j]
  <2>1. j \in 2..n /\ s[j] = r[j - 1]
    BY <1>3, <1>8, <1>10
  <2>2. CASE i = 1
    <3>1. s[i] = m /\ r[j - 1] \in Nat /\ m <= r[j - 1] /\ m # r[j - 1] /\ m \in Nat
      BY <1>2, <1>3, <1>4, <1>8, <2>1, <2>2
    <3> QED
      BY <2>1, <3>1
  <2>3. CASE i # 1
    <3>1. i \in 2..n /\ i - 1 < j - 1
      BY <1>3, <1>10, <2>3
    <3> QED
      BY <1>7, <1>8, <2>1, <3>1
  <2> QED
    BY <2>2, <2>3
<1>11. s \in Listings(T)
  BY <1>2, <1>9, <1>10 DEF Listings
<1> QED
  BY <1>2, <1>11

LEMMA AscendingInOrder ==
  ASSUME NEW S \in SUBSET Nat, IsFiniteSet(S)
  PROVE  InOrder(Ascending(S), S)
<1> DEFINE s == Ascending(S)  n == Cardinality(S)
<1>1. n \in Nat
  BY FS_CardinalityType
<1>2. s \in [1..n -> S] /\ \A i, j \in 1..n : i < j => s[i] < s[j]
  BY ListingExists DEF Listings, Ascending
<1> HIDE DEF s
<1>3. s \in Seq(Nat) /\ Len(s) = n
  <2>1. s \in [1..n -> Nat]
    BY <1>2
  <2> QED
    BY <1>1, <2>1
<1>4. ASSUME NEW i \in 1..n, NEW j \in 1..n, s[i] = s[j] PROVE i = j
  <2>1. s[i] \in Nat
    BY <1>2
  <2> QED
    BY <1>1, <1>2, <1>4, <2>1
<1>5. s \in Injection(1..n, S)
  BY <1>2, <1>4 DEF Injection, IsInjective
<1>6. Cardinality(1..n) = n
  BY <1>1, FS_Interval
<1>7. s \in Surjection(1..n, S)
  BY <1>5, <1>6, FS_Injection
<1>8. S = {s[i] : i \in 1..n}
  BY <1>2, <1>7 DEF Surjection
<1> QED
  BY <1>2, <1>3, <1>8 DEF InOrder, s

-----------------------------------------------------------------------------
(* A transcription is whole or absent: what the parts before this one      *)
(* returned is what was said before it                                     *)

All == IF task = "embed" THEN 0..(texts - 1) ELSE input.spoken
UpTo(n) == {p \in All : p < n * PartLength}
InputOK == input \in Audios \cup {Blank} /\ texts \in Nat
PartsInv ==
  /\ InputOK
  /\ pc = "idle" => collected = <<>>
  /\ pc = "post" =>
       /\ InOrder(collected, UpTo(part - 1))
       /\ Cut \/ task = "embed" \/ part = 1
       /\ task \notin {"transcribe", "embed"} => input = Blank
  /\ WholeOrNothing

LEMMA Positions ==
  ASSUME InputOK
  PROVE  /\ All \in SUBSET Nat /\ IsFiniteSet(All) /\ \A p \in All : p < Length
         /\ Length \in Nat /\ PartLength \in Nat \ {0}
<1>1. /\ input.length \in Nat /\ input.spoken \subseteq 0..(input.length - 1)
  BY AudioAssumption DEF InputOK, Blank
<1>2. All \subseteq 0..(Length - 1) /\ Length \in Nat
  BY <1>1 DEF All, Length, InputOK
<1>3. PartLength \in Nat \ {0}
  BY <1>2, CallAssumption DEF PartLength
<1>4. IsFiniteSet(0..(Length - 1))
  BY <1>2, FS_Interval
<1>5. IsFiniteSet(All)
  <2> HIDE DEF All, Length
  <2> QED
    BY <1>2, <1>4, FS_Subset
<1>6. \A p \in All : p \in Nat /\ p < Length
  BY <1>2
<1> QED
  BY <1>2, <1>3, <1>5, <1>6

LEMMA Bounds ==
  ASSUME NEW n \in Nat \ {0}, NEW c \in Nat \ {0}
  PROVE  (n - 1) * c \in Nat /\ n * c = (n - 1) * c + c /\ n * c \in Nat
  OBVIOUS

\* The part that was heard follows what was heard before.
LEMMA PartHeard ==
  ASSUME InputOK, part \in Nat \ {0}, InOrder(collected, UpTo(part - 1))
  PROVE  /\ InOrder(collected \o [i \in DOMAIN Reply |-> Reply[i] + Offset], UpTo(part))
         /\ task = "embed" => InOrder(collected \o Reply, UpTo(part))
         /\ LastPart => UpTo(part) = All
<1> DEFINE from == (part - 1) * PartLength
           start == IF Cut THEN (part - 1) * ChunkLength ELSE 0
<1>1. /\ All \in SUBSET Nat /\ IsFiniteSet(All) /\ \A p \in All : p < Length
      /\ Length \in Nat /\ PartLength \in Nat \ {0}
  BY Positions
<1>2. from \in Nat /\ Covered = from + PartLength /\ Covered \in Nat
  BY <1>1, Bounds DEF Covered
<1>3. start \in Nat /\ start <= from /\ Offset = start
  BY <1>2, CallAssumption DEF Offset, PartLength
<1>4. InPart = {p \in All : from <= p /\ p < Covered}
  BY DEF InPart, All
<1>5. UpTo(part - 1) = {p \in All : p < from} /\ UpTo(part) = {p \in All : p < Covered}
  BY DEF UpTo, Covered
<1> HIDE DEF from, start
<1>6. /\ UpTo(part) = UpTo(part - 1) \cup InPart
      /\ \A a \in UpTo(part - 1), b \in InPart : a < b
      /\ InPart \in SUBSET Nat /\ IsFiniteSet(InPart) /\ \A p \in InPart : start <= p
  <2>1. InPart \in SUBSET Nat /\ IsFiniteSet(InPart)
    BY <1>1, <1>4, FS_Subset
  <2>2. \A p \in InPart : start <= p
    BY <1>1, <1>2, <1>3, <1>4
  <2>3. \A a \in UpTo(part - 1), b \in InPart : a < b
    <3>1. \A a \in All, b \in All : a < from /\ from <= b => a < b
      BY <1>1, <1>2
    <3> QED
      BY <1>4, <1>5, <3>1
  <2>4. UpTo(part) = UpTo(part - 1) \cup InPart
    <3>1. \A p \in All : p < Covered <=> (p < from \/ (from <= p /\ p < Covered))
      BY <1>1, <1>2
    <3> QED
      BY <1>4, <1>5, <3>1
  <2> QED
    BY <2>1, <2>2, <2>3, <2>4
<1>7. InOrder(Reply, {p - start : p \in InPart})
  <2> DEFINE Heard == {p - start : p \in InPart}
  <2>1. Heard \in SUBSET Nat
    BY <1>3, <1>6
  <2>2. IsFiniteSet(Heard)
    <3>1. \A h \in Heard : h <= Length
      BY <1>1, <1>3, <1>4, <1>6
    <3> QED
      BY <1>1, <2>1, <3>1, FS_BoundedSetOfNaturals
  <2>3. Reply = Ascending(Heard)
    BY DEF Reply, start
  <2> QED
    BY <2>1, <2>2, <2>3, AscendingInOrder
<1>8. InOrder([i \in DOMAIN Reply |-> Reply[i] + start], InPart)
  BY <1>3, <1>6, <1>7, ShiftedOrder
<1>9. InOrder(collected \o [i \in DOMAIN Reply |-> Reply[i] + Offset], UpTo(part))
  <2>1. InOrder(collected \o [i \in DOMAIN Reply |-> Reply[i] + start], UpTo(part - 1) \cup InPart)
    BY <1>6, <1>8, JoinedOrder
  <2> QED
    BY <1>3, <1>6, <2>1
<1>10. task = "embed" => InOrder(collected \o Reply, UpTo(part))
  <2> SUFFICES ASSUME task = "embed" PROVE InOrder(collected \o Reply, UpTo(part))
    OBVIOUS
  <2>1. start = 0
    BY DEF start, Cut
  <2>2. {p - start : p \in InPart} = InPart
    <3>1. \A p \in InPart : p - start = p
      BY <1>6, <2>1
    <3> QED
      BY <3>1
  <2>3. InOrder(Reply, InPart)
    BY <1>7, <2>2
  <2>4. InOrder(collected \o Reply, UpTo(part - 1) \cup InPart)
    BY <1>6, <2>3, JoinedOrder
  <2> QED
    BY <1>6, <2>4
<1>11. LastPart => UpTo(part) = All
  <2> SUFFICES ASSUME LastPart PROVE \A p \in All : p < Covered
    BY <1>5
  <2> QED
    BY <1>1, <1>2 DEF LastPart
<1> QED
  BY <1>9, <1>10, <1>11

\* What is left to do is told as it is, or it is about the next part.
LEMMA PartsTold ==
  ASSUME PartsInv, UNCHANGED inputVars, NEW s, Tell(s), NEW S, InOrder(collected', S),
         s \in {"COMPLETED", "EMPTY"} => S = All \/ (to = "deepgram" /\ collected' = <<>>),
         s \notin {"COMPLETED", "EMPTY"} => collected' = <<>>
  PROVE  PartsInv'
<1>1. InputOK' /\ All' = All /\ pc' = "done" /\ result' = s /\ to' = to
  BY DEF PartsInv, InputOK, All, inputVars, Tell, partVars
<1>2. InOrder(Ascending(All), All)
  BY Positions, AscendingInOrder DEF PartsInv
<1>3. s \in {"COMPLETED", "EMPTY"} =>
        collected' = Ascending(All) \/ (to = "deepgram" /\ collected' = <<>>)
  BY <1>2, OneOrder
<1>4. WholeOrNothing'
  BY <1>1, <1>3 DEF WholeOrNothing, All
<1> QED
  BY <1>1, <1>4 DEF PartsInv

LEMMA PartsAsked ==
  ASSUME PartsInv, UNCHANGED inputVars, NEW p, NEW n \in Nat \ {0}, AskPart(p, n),
         \/ n = 1 /\ collected' = <<>>
         \/ p = to /\ InOrder(collected', UpTo(n - 1)) /\ (Cut \/ task = "embed"),
         task \notin {"transcribe", "embed"} => input = Blank
  PROVE  PartsInv'
<1>1. InputOK' /\ All' = All /\ pc' = "post" /\ to' = p /\ part' = n /\ UNCHANGED <<task, input>>
  BY DEF PartsInv, InputOK, All, inputVars, AskPart
<1>2. InOrder(collected', UpTo(n - 1)')
  <2>1. CASE n = 1 /\ collected' = <<>>
    <3>1. (UpTo(0) = {})'
      <4>1. All' = All /\ All \in SUBSET Nat /\ Length' = Length /\ Length \in Nat
        BY <1>1, Positions DEF PartsInv, Length, inputVars
      <4>2. PartLength' \in Nat
        BY <4>1, CallAssumption DEF PartLength
      <4> QED
        <5>1. 0 * PartLength' = 0
          <6>1. \A k \in Nat : 0 * k = 0
            OBVIOUS
          <6> HIDE DEF PartLength
          <6> QED
            BY <4>2, <6>1
        <5>2. UpTo(0)' = {q \in All' : q < 0 * PartLength'}
          BY DEF UpTo
        <5>3. \A q \in All' : ~(q < 0 * PartLength')
          BY <4>1, <5>1
        <5> QED
          BY <5>2, <5>3
    <3>2. n - 1 = 0
      BY <2>1
    <3> QED
      BY <2>1, <3>1, <3>2, EmptyOrder
  <2>2. CASE p = to /\ InOrder(collected', UpTo(n - 1))
    <3>1. PartLength' = PartLength
      BY <1>1, <2>2 DEF PartLength, Cut, Length, inputVars
    <3> QED
      BY <1>1, <2>2, <3>1 DEF UpTo
  <2> QED
    BY <2>1, <2>2
<1>3. (Cut \/ task = "embed" \/ part = 1)'
  BY <1>1 DEF Cut
<1> QED
  BY <1>1, <1>2, <1>3 DEF PartsInv, WholeOrNothing

LEMMA PartsPosted ==
  ASSUME CallInv, PartsInv, Post
  PROVE  PartsInv'
<1>1. PICK a \in AnswersOf(to) :
        \/ Retried(a) /\ RetryRequest(a)
        \/ ~Retried(a) /\ a # "reply" /\ Fail(a)
        \/ a = "reply" /\ Receive
  BY DEF Post
<1>2. /\ pc = "post" /\ UNCHANGED inputVars /\ UNCHANGED <<task, input, texts>>
      /\ part \in Nat \ {0} /\ InputOK
      /\ InOrder(collected, UpTo(part - 1)) /\ (Cut \/ task = "embed" \/ part = 1)
      /\ (task \notin {"transcribe", "embed"} => input = Blank)
  BY DEF Post, inputVars, CallInv, RetryInv, TypeOK, PartsInv
<1>3. CASE Retried(a) /\ RetryRequest(a)
  <2>1. UNCHANGED <<pc, to, part, collected, result>>
    BY <1>3 DEF RetryRequest
  <2> QED
    BY <1>2, <2>1 DEF PartsInv, InputOK, UpTo, All, PartLength, Length, Cut, WholeOrNothing
<1>4. CASE Fail(a)
  <2>1. /\ collected' = <<>>
        /\ \/ \E s \in Statuses \ {"COMPLETED", "EMPTY"} : Tell(s)
           \/ task = "transcribe" /\ AskPart("openai", 1)
    BY <1>4 DEF Fail, DeepgramFails, WhisperFails, FailedResult, Statuses
  <2>2. CASE \E s \in Statuses \ {"COMPLETED", "EMPTY"} : Tell(s)
    BY <1>2, <2>1, <2>2, EmptyOrder, PartsTold
  <2>3. CASE task = "transcribe" /\ AskPart("openai", 1)
    BY <1>2, <2>1, <2>3, PartsAsked
  <2> QED
    BY <2>1, <2>2, <2>3
<1>5. CASE Receive
  <2>0. /\ InOrder(collected \o [i \in DOMAIN Reply |-> Reply[i] + Offset], UpTo(part))
        /\ task = "embed" => InOrder(collected \o Reply, UpTo(part))
        /\ LastPart => UpTo(part) = All
        /\ part + 1 \in Nat \ {0} /\ (part + 1) - 1 = part
    BY <1>2, PartHeard
  <2>1. CASE task = "transcribe"
    <3>0. ReceiveAudio
      BY <1>5, <2>1 DEF Receive
    <3>1. CASE Cut /\ ~LastPart
      <4>1. AskPart(to, part + 1) /\ InOrder(collected', UpTo(part))
        BY <2>0, <3>0, <3>1 DEF ReceiveAudio, CollectAudio, Cut
      <4> QED
        BY <1>2, <2>0, <2>1, <3>1, <4>1, PartsAsked
    <3>2. CASE ~(Cut /\ ~LastPart)
      <4>1. LastPart
        <5>1. CASE ~Cut
          <6>1. part = 1 /\ PartLength = Length + 1 /\ Length \in Nat
            BY <1>2, <2>1, <5>1, Positions DEF PartLength
          <6> QED
            BY <6>1 DEF LastPart, Covered
        <5> QED
          BY <3>2, <5>1
      <4>2. PICK s \in {"COMPLETED", "EMPTY"} : Tell(s)
        BY <3>0, <3>2 DEF ReceiveAudio
      <4>3. \/ InOrder(collected', All)
            \/ to = "deepgram" /\ collected' = <<>>
        BY <2>0, <3>0, <4>1 DEF ReceiveAudio, CollectAudio
      <4> QED
        BY <1>2, <4>2, <4>3, EmptyOrder, PartsTold
    <3> QED
      BY <3>1, <3>2
  <2>2. CASE task = "embed"
    <3>0. InOrder(collected', UpTo(part)) /\ (IF LastPart THEN Tell("COMPLETED") ELSE AskPart(to, part + 1))
      BY <1>5, <2>0, <2>2 DEF Receive, ReceiveVectors
    <3>1. CASE LastPart
      BY <1>2, <2>0, <3>0, <3>1, PartsTold
    <3>2. CASE ~LastPart
      BY <1>2, <2>0, <2>2, <3>0, <3>2, PartsAsked
    <3> QED
      BY <3>1, <3>2
  <2>3. CASE task \notin {"transcribe", "embed"}
    <3>1. collected' = collected /\ \E s \in {"COMPLETED", "EMPTY"} : Tell(s)
      BY <1>5, <2>3 DEF Receive, ReceiveText
    <3>2. All = {} /\ UpTo(part - 1) = {}
      BY <1>2, <2>3 DEF All, UpTo, Blank
    <3> QED
      BY <1>2, <3>1, <3>2, PartsTold
  <2> QED
    BY <2>1, <2>2, <2>3
<1> QED
  BY <1>1, <1>3, <1>4, <1>5

\* A call that asks nobody has nothing to return, and the first part follows nothing.
LEMMA PartsBegun ==
  ASSUME CallInv, PartsInv, TextCall \/ EmbedTexts \/ \E a \in Audios : TranscribeAudio(a)
  PROVE  PartsInv'
<1>1. /\ pc = "idle" /\ InputOK' /\ collected' = collected
      /\ \/ \E p \in Providers : AskPart(p, 1)
         \/ \E s \in Statuses \ {"COMPLETED", "EMPTY"} : Tell(s)
         \/ Tell("EMPTY") /\ task' # "embed" /\ input' = Blank
      /\ task' \notin {"transcribe", "embed"} => input' = Blank
  <2>1. CASE TextCall
    <3>1. PICK t \in {"analyze_full", "generate_title", "summarize", "chat_over_transcript",
                      "transform_text", "generate_digest", "meeting_coaching",
                      "conversation_analytics", "voice_command_intent", "answer_across"},
               needsText \in BOOLEAN : Ask(t, needsText)
      BY <2>1 DEF TextCall, AnalyzeFull, GenerateTitle, Summarize, ChatOverTranscript,
         TransformText, GenerateDigest, MeetingCoaching, ConversationAnalytics,
         VoiceCommandIntent, AnswerAcross
    <3> QED
      BY <3>1 DEF Ask, Begin, Start, Settle, InputOK, Statuses, Providers
  <2>2. CASE EmbedTexts
    BY <2>2, CallAssumption DEF EmbedTexts, Begin, Start, Settle, InputOK, Statuses, Providers
  <2>3. CASE \E a \in Audios : TranscribeAudio(a)
    BY <2>3 DEF TranscribeAudio, Begin, Start, Settle, InputOK, Statuses, Providers
  <2> QED
    BY <2>1, <2>2, <2>3
<1>2. collected' = <<>>
  BY <1>1 DEF PartsInv
<1>3. CASE \E p \in Providers : AskPart(p, 1)
  <2>1. pc' = "post" /\ part' = 1
    BY <1>3 DEF AskPart
  <2>2. UpTo(part - 1)' = {}
    <3>1. (All \in SUBSET Nat)' /\ PartLength' \in Nat
      <4>1. (input.length \in Nat /\ input.spoken \subseteq 0..(input.length - 1))'
        BY <1>1, AudioAssumption DEF InputOK, Blank
      <4> QED
        BY <1>1, <4>1, CallAssumption DEF InputOK, All, Length, PartLength
    <3>2. part' - 1 = 0 /\ \A k \in Nat : 0 * k = 0
      BY <2>1
    <3>3. \A q \in All' : ~(q < (part' - 1) * PartLength')
      <4> HIDE DEF All, PartLength
      <4>1. (part' - 1) * PartLength' = 0
        BY <3>1, <3>2
      <4>2. \A q \in All' : q \in Nat
        BY <3>1
      <4> QED
        BY <4>1, <4>2
    <3> QED
      BY <3>3 DEF UpTo
  <2> QED
    BY <1>1, <1>2, <2>1, <2>2, EmptyOrder DEF PartsInv, WholeOrNothing
<1>4. CASE \E s \in Statuses \ {"COMPLETED", "EMPTY"} : Tell(s)
  BY <1>1, <1>2, <1>4 DEF Tell, PartsInv, WholeOrNothing
<1>5. CASE Tell("EMPTY") /\ task' # "embed" /\ input' = Blank
  <2>1. Ascending({}) = <<>>
    BY AscendingInOrder, EmptyOrder, FS_EmptySet
  <2>2. All' = {}
    BY <1>5 DEF All, Blank
  <2> QED
    BY <1>1, <1>2, <1>5, <2>1, <2>2 DEF Tell, PartsInv, WholeOrNothing, All
<1> QED
  BY <1>1, <1>3, <1>4, <1>5

LEMMA PartsReturned == ASSUME Return PROVE PartsInv'
  BY DEF Return, PartsInv, InputOK, WholeOrNothing

LEMMA NextParts == CallInv /\ PartsInv /\ [Next]_vars => PartsInv'
<1> SUFFICES ASSUME CallInv, PartsInv, [Next]_vars PROVE PartsInv'
  OBVIOUS
<1>1. CASE PostStep
  BY <1>1, PartsPosted DEF PostStep
<1>2. CASE ServiceCalls \/ ReceiveFrame
  BY <1>2, PartsBegun DEF ServiceCalls, ReceiveFrame
<1>3. CASE ServiceReturns \/ SendPartial
  BY <1>3, PartsReturned DEF ServiceReturns, SendPartial
<1>4. CASE OpenSocket \/ StopSocket \/ Disconnect \/ UNCHANGED vars
  BY <1>4 DEF OpenSocket, StopSocket, Disconnect, vars, callVars, inputVars, partVars,
     PartsInv, InputOK, UpTo, All, PartLength, Length, Cut, WholeOrNothing
<1> QED
  BY <1>1, <1>2, <1>3, <1>4 DEF Next

(* A transcription is whole or absent, and so are the vectors of a batched *)
(* embedding, for every audio, chunk length, batch size, cut and fallback  *)
(* from one provider to the other (transcribe_audio_bytes, embed_texts).   *)
THEOREM WholeTranscription == Spec => []WholeOrNothing
<1>1. Init => PartsInv
  BY DEF Init, CallInit, PartsInv, InputOK, WholeOrNothing
<1>2. PartsInv => WholeOrNothing
  BY DEF PartsInv
<1> QED
  BY <1>1, <1>2, NextParts, CallInvariant, PTL DEF Spec

-----------------------------------------------------------------------------
(* A live session: while it is open the client has been sent the greeting  *)
(* and one partial for each frame that was answered                        *)

Messages == [type : {"ready", "partial", "error", "unavailable", "done"}, index : Nat]
Answered == IF caller = "socket" THEN index - 1 ELSE index
SessionInv ==
  /\ sent \in Seq(Messages) /\ index \in Nat
  /\ caller = "socket" => socket = "open" /\ index > 0
  /\ socket = "none" => sent = <<>> /\ index = 0
  /\ socket = "open" =>
       /\ Len(sent) = Answered + 1
       /\ sent[1].type = "ready"
       /\ \A i \in 2..Len(sent) : sent[i] = Message("partial", i - 1)
  /\ PartialsNumbered

LEMMA MessageFields ==
  \A t, n : Message(t, n).type = t /\ Message(t, n).index = n
  BY DEF Message

\* The last words of a session.
LEMMA SessionEnds ==
  ASSUME SessionInv, socket = "open", index' = index, caller' # "socket",
         NEW m \in {<<>>, <<Message("error", 0)>>}, Close(m)
  PROVE  SessionInv'
<1> DEFINE n == Len(sent)  e == Message("error", 0)  d == Message("done", 0)
<1>1. /\ sent \in Seq(Messages) /\ n \in Nat /\ n > 0 /\ DOMAIN sent = 1..n
      /\ sent[1].type = "ready"
      /\ \A i \in 2..n : sent[i].type = "partial" /\ sent[i].index = i - 1
  BY MessageFields, LenProperties DEF SessionInv, Answered
<1>2. e \in Messages /\ d \in Messages /\ e.type = "error" /\ d.type = "done"
  BY DEF Message, Messages
<1>3. socket' = "closed" /\ index' \in Nat
  BY DEF Close, SessionInv
<1> HIDE DEF e, d
<1>4. CASE sent' = sent
  <2>1. Partials' = Partials /\ Partials = 2..n
    BY <1>1, <1>4 DEF Partials
  <2> QED
    BY <1>1, <1>3, <1>4, <2>1 DEF SessionInv, PartialsNumbered
<1>5. ASSUME NEW k \in 1..2, sent' \in Seq(Messages), Len(sent') = n + k,
             \A i \in 1..n : sent'[i] = sent[i],
             \A i \in (n + 1)..(n + k) : sent'[i].type = IF i = n + k THEN "done" ELSE "error"
      PROVE  SessionInv'
  <2>1. DOMAIN sent' = 1..(n + k)
    BY <1>5, LenProperties
  <2>2. \A i \in DOMAIN sent' : sent'[i].type = "partial" <=> i \in 2..n
    BY <1>1, <1>5, <2>1
  <2>3. Partials' = 2..n
    BY <1>1, <2>1, <2>2 DEF Partials
  <2>4. \A i \in Partials' : sent'[i].index = i - 1 /\ 2..i \subseteq Partials'
    BY <1>1, <1>5, <2>3
  <2>5. \A i \in DOMAIN sent' : sent'[i].type = "done" => i = Len(sent')
    BY <1>1, <1>5, <2>1
  <2> QED
    BY <1>3, <1>5, <2>4, <2>5 DEF SessionInv, PartialsNumbered
<1>6. CASE sent' = sent \o <<>> \o <<d>>
  <2>1. sent' = sent \o <<d>> /\ <<d>> \in Seq(Messages) /\ Len(<<d>>) = 1 /\ <<d>>[1] = d
    BY <1>1, <1>2, <1>6, ConcatEmptySeq
  <2>2. sent' \in Seq(Messages) /\ Len(sent') = n + 1
        /\ \A i \in 1..(n + 1) : sent'[i] = IF i <= n THEN sent[i] ELSE <<d>>[i - n]
    BY <1>1, <2>1, ConcatProperties
  <2> QED
    BY <1>1, <1>2, <1>5, <2>1, <2>2
<1>7. CASE sent' = sent \o <<e>> \o <<d>>
  <2>1. /\ <<e>> \in Seq(Messages) /\ Len(<<e>>) = 1 /\ <<e>>[1] = e
        /\ <<d>> \in Seq(Messages) /\ Len(<<d>>) = 1 /\ <<d>>[1] = d
    BY <1>2
  <2>2. sent \o <<e>> \in Seq(Messages) /\ Len(sent \o <<e>>) = n + 1
        /\ \A i \in 1..(n + 1) : (sent \o <<e>>)[i] = IF i <= n THEN sent[i] ELSE <<e>>[i - n]
    BY <1>1, <2>1, ConcatProperties
  <2>3. sent' \in Seq(Messages) /\ Len(sent') = (n + 1) + 1
        /\ \A i \in 1..((n + 1) + 1) :
             sent'[i] = IF i <= n + 1 THEN (sent \o <<e>>)[i] ELSE <<d>>[i - (n + 1)]
    BY <1>7, <2>1, <2>2, ConcatProperties
  <2>4. (\A i \in 1..n : sent'[i] = sent[i]) /\ sent'[n + 1] = e /\ sent'[n + 2] = d
    BY <1>1, <2>1, <2>2, <2>3
  <2> QED
    BY <1>1, <1>2, <1>5, <2>3, <2>4
<1> QED
  BY <1>4, <1>6, <1>7 DEF Close, e, d

LEMMA NextSession == SessionInv /\ [Next]_vars => SessionInv'
<1> SUFFICES ASSUME SessionInv, [Next]_vars PROVE SessionInv'
  OBVIOUS
<1>0. /\ sent \in Seq(Messages) /\ Len(sent) \in Nat /\ DOMAIN sent = 1..Len(sent) /\ index \in Nat
  BY LenProperties DEF SessionInv
<1>1. CASE UNCHANGED liveVars /\ (caller' = "socket" <=> caller = "socket")
  BY <1>1 DEF liveVars, SessionInv, Answered, PartialsNumbered, Partials
<1>2. CASE PostStep \/ ServiceCalls \/ ServiceReturns \/ UNCHANGED vars
  BY <1>1, <1>2 DEF PostStep, ServiceCalls, ServiceReturns, vars
<1>3. CASE OpenSocket
  <2>1. PICK t \in {"ready", "error", "unavailable"} :
          /\ sent' = <<Message(t, 0)>>
          /\ socket' = "closed" \/ (socket' = "open" /\ t = "ready")
    BY <1>3 DEF OpenSocket
  <2>2. sent' \in Seq(Messages) /\ Len(sent') = 1 /\ DOMAIN sent' = 1..1 /\ sent'[1].type = t
    BY <2>1 DEF Message, Messages
  <2>3. Partials' = {}
    BY <2>1, <2>2 DEF Partials
  <2>4. caller' = caller /\ caller # "socket" /\ index' = index /\ index = 0
    BY <1>3 DEF OpenSocket, SessionInv
  <2> QED
    BY <2>1, <2>2, <2>3, <2>4 DEF SessionInv, Answered, PartialsNumbered
<1>4. CASE ReceiveFrame
  <2>1. /\ UNCHANGED <<socket, sent>> /\ socket = "open" /\ caller # "socket" /\ caller' = "socket"
        /\ index' = index + 1
    BY <1>4 DEF ReceiveFrame
  <2> QED
    BY <1>0, <2>1 DEF SessionInv, Answered, PartialsNumbered, Partials
<1>5. CASE SendPartial
  <2>1. socket = "open" /\ caller = "socket" /\ index > 0 /\ caller' = "nobody" /\ index' = index
    BY <1>5 DEF SendPartial, SessionInv
  <2>2. CASE \E m \in {<<>>, <<Message("error", 0)>>} : Close(m)
    BY <2>1, <2>2, SessionEnds
  <2>3. CASE sent' = Append(sent, Message("partial", index)) /\ socket' = socket
    <3> DEFINE n == Len(sent)  m == Message("partial", index)
    <3>1. n = index /\ sent[1].type = "ready" /\ \A i \in 2..n : sent[i] = Message("partial", i - 1)
      BY <1>0, <2>1 DEF SessionInv, Answered
    <3>2. m \in Messages /\ m.type = "partial" /\ m.index = index
      BY <1>0 DEF Message, Messages
    <3> HIDE DEF m
    <3>3. /\ sent' \in Seq(Messages) /\ Len(sent') = n + 1 /\ DOMAIN sent' = 1..(n + 1)
          /\ sent'[n + 1] = m /\ \A i \in 1..n : sent'[i] = sent[i]
      BY <1>0, <2>3, <3>2 DEF m
    <3>4. \A i \in 2..(n + 1) : sent'[i] = Message("partial", i - 1)
      <4> SUFFICES ASSUME NEW i \in 2..(n + 1) PROVE sent'[i] = Message("partial", i - 1)
        OBVIOUS
      <4>1. CASE i \in 2..n
        BY <1>0, <3>1, <3>3, <4>1
      <4>2. CASE i = n + 1
        BY <1>0, <3>1, <3>3, <4>2 DEF m
      <4> QED
        BY <1>0, <4>1, <4>2
    <3>5. Partials' = 2..(n + 1) /\ sent'[1].type = "ready"
      <4>1. sent'[1].type = "ready"
        BY <1>0, <2>1, <3>1, <3>3
      <4>2. \A i \in 1..(n + 1) : sent'[i].type = "partial" <=> i \in 2..(n + 1)
        BY <1>0, <3>4, <4>1, MessageFields
      <4> QED
        BY <1>0, <3>3, <4>1, <4>2 DEF Partials
    <3>6. \A i \in Partials' : sent'[i].index = i - 1 /\ sent'[i].type # "done"
      BY <3>4, <3>5, MessageFields
    <3>7. PartialsNumbered'
      BY <1>0, <2>1, <3>1, <3>3, <3>5, <3>6 DEF PartialsNumbered
    <3> QED
      BY <1>0, <2>1, <2>3, <3>1, <3>3, <3>4, <3>5, <3>7 DEF SessionInv, Answered
  <2> QED
    BY <1>5, <2>2, <2>3 DEF SendPartial, Numbered
<1>6. CASE StopSocket
  BY <1>6, SessionEnds DEF StopSocket
<1>7. CASE Disconnect
  BY <1>7 DEF Disconnect, SessionInv, Answered, PartialsNumbered, Partials
<1> QED
  BY <1>2, <1>3, <1>4, <1>5, <1>6, <1>7 DEF Next

(* A client can match every partial to the frame it spoke, whatever the    *)
(* providers answer and whenever it leaves (the loop of live_transcribe).  *)
THEOREM PartialsMatchFrames == Spec => []PartialsNumbered
<1>1. Init => SessionInv
  BY DEF Init, SessionInv, Answered, PartialsNumbered, Partials
<1>2. SessionInv => PartialsNumbered
  BY DEF SessionInv
<1> QED
  BY <1>1, <1>2, NextSession, PTL DEF Spec
=============================================================================
