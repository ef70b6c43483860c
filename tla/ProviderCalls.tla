--------------------------- MODULE ProviderCalls ---------------------------
(***************************************************************************)
(* OpenAiCompatibleProvider::complete (bookforge-llm/src/provider.rs):     *)
(* calls of several tasks through one client.  A call posts its request    *)
(* until it is answered, refused, or out of attempts.  In the automatic    *)
(* JSON mode a request asks for response_format until some call was        *)
(* answered 400; that call posts once more without it, and later ones      *)
(* start without it.  The server is not modelled: it may answer anything.  *)
(***************************************************************************)
EXTENDS Integers

CONSTANTS
    Callers,       \* tasks that have one call each under way at most
    AutoJson,      \* the JSON mode is Auto, with an endpoint of unknown abilities
    MaxAttempts,   \* provider_max_attempts, frozen for the call
    Mishaps        \* ways a post fails in this instance

ASSUME CallsAssumption ==
    AutoJson \in BOOLEAN /\ MaxAttempts \in Nat \ {0}

VARIABLES
    supported,  \* response_format_supported, shared by all calls
    cancelled,  \* the cancel token
    call        \* each caller's call

callVars == <<supported, cancelled, call>>

-----------------------------------------------------------------------------
Results == {"answer", "invalid", "fatal"}   \* a body, LlmError::InvalidResponse, any other error

CallsTypeOK ==
    /\ supported \in BOOLEAN /\ cancelled \in BOOLEAN
    /\ call \in [Callers -> [pc : {"none", "built", "post", "delay"} \cup Results,
                             attempt : 0 .. MaxAttempts,
                             format : BOOLEAN,     \* the body asks for response_format
                             fallible : BOOLEAN,   \* use_response_format
                             tried : BOOLEAN]]     \* tried_response_format_fallback

NoCall    == [pc |-> "none", attempt |-> 0, format |-> FALSE, fallible |-> FALSE, tried |-> FALSE]
CallsInit == supported = AutoJson /\ cancelled = FALSE /\ call = [c \in Callers |-> NoCall]

SetCall(c, state) == call' = [call EXCEPT ![c] = state]
EndCall(c, result) == SetCall(c, [NoCall EXCEPT !.pc = result])

-----------------------------------------------------------------------------
\* request_body reads the flag for the body ...
BuildBody(c) ==
    /\ SetCall(c, [NoCall EXCEPT !.pc = "built", !.format = supported])
    /\ UNCHANGED <<supported, cancelled>>

\* ... and complete reads it again to know whether a 400 may be blamed on it.
ReadFlag(c) ==
    /\ call[c].pc = "built"
    /\ SetCall(c, [call[c] EXCEPT !.pc = "post", !.fallible = supported])
    /\ UNCHANGED <<supported, cancelled>>

\* A failed post is an attempt; out of attempts the call ends with the failure.
\* Without a retry policy MaxAttempts is 1.  The mutant does not count.
Retry_Uncounted(c, limit, result) ==
    IF call[c].attempt + 1 < limit
    THEN SetCall(c, [call[c] EXCEPT !.pc = "delay"])
    ELSE EndCall(c, result)

Retry(c, limit, result) ==
    IF call[c].attempt + 1 < limit
    THEN SetCall(c, [call[c] EXCEPT !.attempt = @ + 1, !.pc = "delay"])
    ELSE EndCall(c, result)

\* Two timeouts are enough.
TimeoutLimit == IF MaxAttempts < 2 THEN MaxAttempts ELSE 2

\* No answer, one that breaks off, or a busy server (408, 425, 429, 5xx).
PostFails(c) ==
    /\ call[c].pc = "post"
    /\ \/ "timeout" \in Mishaps /\ Retry(c, TimeoutLimit, "fatal")
       \/ "busy" \in Mishaps /\ Retry(c, MaxAttempts, "fatal")
       \/ "garbled" \in Mishaps /\ Retry(c, MaxAttempts, "invalid")
    /\ UNCHANGED <<supported, cancelled>>

\* A 400 while response_format was asked for is blamed on it, once: the post
\* without it is no attempt.
BadRequest(c) ==
    /\ call[c].pc = "post" /\ "bad_request" \in Mishaps
    /\ IF call[c].fallible /\ ~call[c].tried
       THEN /\ supported' = FALSE
            /\ SetCall(c, [call[c] EXCEPT !.format = FALSE, !.tried = TRUE])
       ELSE EndCall(c, "fatal") /\ UNCHANGED supported
    /\ UNCHANGED cancelled

\* Another refusal, or an answer that is too large or has no content.
Refused(c) ==
    /\ call[c].pc = "post" /\ "refused" \in Mishaps
    /\ EndCall(c, "fatal") \/ EndCall(c, "invalid")
    /\ UNCHANGED <<supported, cancelled>>

Answered(c) ==
    /\ call[c].pc = "post"
    /\ EndCall(c, "answer")
    /\ UNCHANGED <<supported, cancelled>>

\* apply_retry_delay.
DelayEnds(c) ==
    /\ call[c].pc = "delay"
    /\ SetCall(c, [call[c] EXCEPT !.pc = "post"])
    /\ UNCHANGED <<supported, cancelled>>

\* The token ends a post and a delay alike.
Interrupted(c) ==
    /\ cancelled /\ call[c].pc \in {"post", "delay"}
    /\ EndCall(c, "fatal")
    /\ UNCHANGED <<supported, cancelled>>

CallStep(c) ==
    \/ ReadFlag(c) \/ PostFails(c) \/ BadRequest(c) \/ Refused(c) \/ Answered(c)
    \/ DelayEnds(c) \/ Interrupted(c)

CtrlC == ~cancelled /\ cancelled' = TRUE /\ UNCHANGED <<supported, call>>

-----------------------------------------------------------------------------
\* A 400 on a request that asks for response_format is followed by one that
\* does not (comment at provider.rs:1244).
FormatFallsBack ==
    [][\A c \in Callers : BadRequest(c) /\ call[c].format => call'[c].pc # "fatal"]_callVars
=============================================================================
