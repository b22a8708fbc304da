------------------------------ MODULE AiCalls ------------------------------
(***************************************************************************)
(* One call of services/ai.py: which provider it asks, how often, how long *)
(* it sleeps in between, and what its caller is told.  The functions share *)
(* nothing, so calls of several callers are independent and one call at a  *)
(* time stands for all of them.                                            *)
(*                                                                         *)
(* A call needs one or more requests, its parts: the chunks of a long      *)
(* audio, the batches of an embedding, one request otherwise.  Sound and   *)
(* texts are positions on a line: an audio is the set of the positions at  *)
(* which something is said.  A provider that answers is taken to be        *)
(* accurate, because the properties are about what the code does with      *)
(* answers.                                                                *)
(***************************************************************************)
EXTENDS Naturals, Sequences, FiniteSets

CONSTANTS
  MaxRetries,    \* _MAX_HTTP_RETRIES
  Cap,           \* _BACKOFF_CAP_SECONDS
  Hints,         \* the Retry-After values the providers send, in seconds
  ChunkLength,   \* TRANSCRIPTION_CHUNK_MS, in positions
  BatchSize,     \* texts per embeddings request
  Audios,        \* bound: the audio files of the run
  MaxTexts       \* bound: texts given to embed_texts

ASSUME CallAssumption ==
  /\ MaxRetries \in Nat /\ Cap \in Nat /\ Hints \subseteq Nat \ {0}
  /\ ChunkLength \in Nat \ {0} /\ BatchSize \in Nat \ {0} /\ MaxTexts \in Nat

\* An audio file: how long it is, where something is said, whether it is over
\* Whisper's size limit and whether ffmpeg can decode it.
ASSUME AudioAssumption == \A a \in Audios :
  /\ a.length \in Nat /\ a.spoken \subseteq 0..(a.length - 1)
  /\ a.large \in BOOLEAN /\ a.decodable \in BOOLEAN

VARIABLES
  keys,      \* the providers whose API key is configured
  pc,        \* "idle"; "post", about to send a request; "done", the result is there
  task,      \* the function called
  input,     \* its audio
  texts,     \* its number of texts, when it embeds
  to, part,  \* the provider asked, and for which part
  attempt,   \* retries of this part so far
  collected, \* what the parts before this one returned
  result,    \* the status the caller is given
  last,      \* history: the last answer
  repeats,   \* history: requests sent again for this part
  waited,    \* history: seconds slept for this part
  requests,  \* history: requests sent to each provider by this call
  refused    \* history: the providers that gave this call a permanent refusal

inputVars == <<task, input, texts>>
partVars == <<to, part, attempt, repeats, waited>>
answerVars == <<last, requests, refused>>
callVars == <<keys, pc, inputVars, partVars, collected, result, answerVars>>

Providers == {"deepgram", "openai"}
Statuses == {"none", "COMPLETED", "EMPTY", "RATE_LIMITED", "QUOTA", "UNAVAILABLE", "FAILED", "raised"}

\* What one request can come back with: a reply, a reply that lacks the fields
\* the code indexes ("bad") or is not JSON ("garbled"), an HTTP error, or nothing.
RetryableStatus == {"throttled", "quota", "busy", "server"}   \* 429, 429, 503, 500/502/504
Throttles == {"throttled", "quota", "busy"}                   \* 429 and 503
Refusals == {"quota", "denied"}                                \* insufficient_quota, 401/403
Errors == RetryableStatus \cup {"denied", "rejected", "garbled", "network"}
Answers == Errors \cup {"reply", "bad"}
\* Only OpenAI's 429 carries the code the quota test looks for.
AnswersOf(p) == IF p = "openai" THEN Answers ELSE Answers \ {"quota"}

Least(a, b) == IF a < b THEN a ELSE b
Ascending(S) == CHOOSE s \in [1..Cardinality(S) -> S] :
                  \A i, j \in DOMAIN s : i < j => s[i] < s[j]
-----------------------------------------------------------------------------
(* The parts of a call                                                     *)

\* Audio over the limit is cut, unless it cannot be decoded; Deepgram takes it whole.
Cut == task = "transcribe" /\ to = "openai" /\ input.large /\ input.decodable
Length == IF task = "embed" THEN texts ELSE input.length
PartLength == IF Cut THEN ChunkLength ELSE IF task = "embed" THEN BatchSize ELSE Length + 1
Offset_None == 0             \* mutant: chunk times are left relative to the chunk
Offset == IF Cut THEN (part - 1) * ChunkLength ELSE 0
Covered == part * PartLength
LastPart == Covered >= Length

\* What a provider hears in the part it is sent; it counts a chunk from 0.
InPart == {p \in (IF task = "embed" THEN 0..(texts - 1) ELSE input.spoken) :
             (part - 1) * PartLength <= p /\ p < Covered}
Reply == LET start == IF Cut THEN (part - 1) * ChunkLength ELSE 0
         IN Ascending({p - start : p \in InPart})
-----------------------------------------------------------------------------
(* One request, its retries and its answer                                 *)

Permanent(a) == a \in Refusals
Retried_Refusals(a) == attempt < MaxRetries /\ (a = "network" \/ a \in RetryableStatus \cup {"denied"})   \* mutant
Retried(a) == /\ attempt < MaxRetries
              /\ \/ a = "network"
                 \/ a \in RetryableStatus /\ ~Permanent(a)
\* A Retry-After is honoured up to the cap; otherwise exponential, with full jitter.
Delays_Uncapped(hint) ==     \* mutant: the provider decides how long
  IF hint > 0 THEN {hint} ELSE {d \in 0..Cap : d <= 2 ^ attempt}
Delays(hint) == IF hint > 0 THEN {Least(hint, Cap)} ELSE {d \in 0..Cap : d <= 2 ^ attempt}

Tell(status) == pc' = "done" /\ result' = status /\ UNCHANGED partVars
AskPart_KeepAttempt(p, n) ==      \* mutant: the retries of the last part count for this one
  /\ pc' = "post" /\ to' = p /\ part' = n
  /\ repeats' = 0 /\ waited' = 0
  /\ UNCHANGED <<attempt, result>>
AskPart(p, n) ==
  /\ pc' = "post" /\ to' = p /\ part' = n /\ attempt' = 0
  /\ repeats' = 0 /\ waited' = 0
  /\ UNCHANGED result

\* time.sleep, then the loop sends the request again.
RetryRequest(a) ==
  /\ \E hint \in (IF a = "network" THEN {} ELSE Hints) \cup {0} : \E d \in Delays(hint) :
       waited' = waited + d
  /\ attempt' = attempt + 1 /\ repeats' = repeats + 1
  /\ UNCHANGED <<pc, to, part, collected, result>>

\* _failed_result, for the functions that ask the chat model.
FailedResult(a) == Tell(IF a = "quota" THEN "QUOTA"
                        ELSE IF a \in Throttles THEN "RATE_LIMITED" ELSE "FAILED")
\* transcribe_audio_bytes: throttling is reported, anything else of Deepgram's
\* falls back to Whisper; Whisper's failure is reported.
DeepgramFails(a) ==
  IF a \in Throttles THEN Tell("RATE_LIMITED")
  ELSE IF "openai" \in keys THEN AskPart("openai", 1) ELSE Tell("UNAVAILABLE")
WhisperFails(a) == Tell(IF a \in Throttles THEN "RATE_LIMITED" ELSE "FAILED")

\* The failure of one part discards what the parts before it returned.
Fail(a) ==
  /\ collected' = <<>>
  /\ CASE task = "embed" -> Tell("none")
       [] a = "bad" -> Tell("raised")
       [] task = "transcribe" /\ to = "deepgram" -> DeepgramFails(a)
       [] task = "transcribe" /\ to = "openai" -> WhisperFails(a)
       [] OTHER -> FailedResult(a)

\* Deepgram may return the text without the utterances that become segments.
CollectAudio ==
  \/ collected' = collected \o [i \in DOMAIN Reply |-> Reply[i] + Offset]
  \/ to = "deepgram" /\ collected' = <<>>
ReceiveAudio ==
  /\ CollectAudio
  /\ IF Cut /\ ~LastPart
     THEN AskPart(to, part + 1)
     ELSE Tell(IF input.spoken = {} THEN "EMPTY" ELSE "COMPLETED")
ReceiveVectors ==
  /\ collected' = collected \o Reply
  /\ IF LastPart THEN Tell("COMPLETED") ELSE AskPart(to, part + 1)
\* Only the combined analysis looks at what the model wrote.
ReceiveText ==
  /\ UNCHANGED collected
  /\ \/ Tell("COMPLETED")
     \/ task = "analyze_full" /\ Tell("EMPTY")
Receive == CASE task = "transcribe" -> ReceiveAudio
             [] task = "embed" -> ReceiveVectors
             [] OTHER -> ReceiveText

\* _request_with_retry, and what its caller does with the outcome.
Post ==
  /\ pc = "post"
  /\ \E a \in AnswersOf(to) :
       /\ last' = a
       /\ requests' = [requests EXCEPT ![to] = @ + 1]
       /\ refused' = IF Permanent(a) THEN refused \cup {to} ELSE refused
       /\ \/ Retried(a) /\ RetryRequest(a)
          \/ ~Retried(a) /\ a # "reply" /\ Fail(a)
          \/ a = "reply" /\ Receive
  /\ UNCHANGED <<keys, inputVars>>
-----------------------------------------------------------------------------
(* The calls                                                               *)

Blank == [length |-> 0, spoken |-> {}, large |-> FALSE, decodable |-> TRUE]
Begin(t, a, n) == task' = t /\ input' = a /\ texts' = n /\ pc = "idle"

Start(p) == AskPart(p, 1) /\ UNCHANGED <<keys, collected, answerVars>>
Settle(status) == Tell(status) /\ UNCHANGED <<keys, collected, answerVars>>

TranscribeAudio(a) ==
  /\ Begin("transcribe", a, 0)
  /\ IF "deepgram" \in keys THEN Start("deepgram")
     ELSE IF "openai" \in keys THEN Start("openai") ELSE Settle("UNAVAILABLE")

EmbedTexts ==
  \E n \in 0..MaxTexts :
    /\ Begin("embed", Blank, n)
    /\ IF "openai" \in keys /\ n > 0 THEN Start("openai") ELSE Settle("none")

\* A function that asks the chat model; most return EMPTY for a blank text.
Ask(t, needsText) ==
  /\ Begin(t, Blank, 0)
  /\ IF "openai" \notin keys THEN Settle("UNAVAILABLE")
     ELSE Start("openai") \/ (needsText /\ Settle("EMPTY"))
AnalyzeFull == Ask("analyze_full", TRUE)
GenerateTitle == Ask("generate_title", TRUE)
Summarize == Ask("summarize", TRUE)
ChatOverTranscript == Ask("chat_over_transcript", FALSE)
TransformText == Ask("transform_text", TRUE)
GenerateDigest == Ask("generate_digest", TRUE)
MeetingCoaching == Ask("meeting_coaching", TRUE)
ConversationAnalytics == Ask("conversation_analytics", TRUE)
VoiceCommandIntent == Ask("voice_command_intent", FALSE)
AnswerAcross == Ask("answer_across", FALSE)

\* The caller takes the result.
Return ==
  /\ pc = "done" /\ pc' = "idle"
  /\ to' = "openai" /\ part' = 1 /\ attempt' = 0 /\ repeats' = 0 /\ waited' = 0
  /\ task' = "none" /\ input' = Blank /\ texts' = 0
  /\ collected' = <<>> /\ result' = "none" /\ last' = "none"
  /\ requests' = [p \in Providers |-> 0] /\ refused' = {}
  /\ UNCHANGED keys

CallInit ==
  /\ keys \in SUBSET Providers
  /\ pc = "idle" /\ task = "none" /\ input = Blank /\ texts = 0
  /\ to = "openai" /\ part = 1 /\ attempt = 0 /\ repeats = 0 /\ waited = 0
  /\ collected = <<>> /\ result = "none" /\ last = "none"
  /\ requests = [p \in Providers |-> 0] /\ refused = {}

TextCall ==
  \/ AnalyzeFull \/ GenerateTitle \/ Summarize \/ ChatOverTranscript \/ TransformText
  \/ GenerateDigest \/ MeetingCoaching \/ ConversationAnalytics \/ VoiceCommandIntent \/ AnswerAcross
=============================================================================
