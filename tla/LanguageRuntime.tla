--------------------------- MODULE LanguageRuntime ---------------------------
(***************************************************************************)
(* The conversation behind POST /ai/chat: LanguageRuntime                  *)
(* (src/src/ai/language_runtime.cpp) driven by handle_ai_chat              *)
(* (src/src/net/handlers.cpp) over the HTTP client.  The system message in *)
(* front of the transcript is left out.                                    *)
(***************************************************************************)
EXTENDS HttpClient, Naturals, Sequences

CONSTANT MaxTurns  \* bound on the messages a question may be added to

ASSUME LanguageAssumption == MaxTurns \in Nat \ {0}

VARIABLES
    turns,    \* the transcript, by role
    awaiting, \* awaiting_response_
    asking,   \* the server is inside the call to Ollama
    soured    \* a response has failed since the transcript was last cleared

chatVars == <<turns, awaiting, asking, soured>>

\* server.start configures the runtime afresh.
ConfigureLanguageAi ==
    /\ turns' = <<>>
    /\ awaiting' = FALSE /\ asking' = FALSE /\ soured' = FALSE

\* handle_ai_chat up to the call: the message is refused while an answer is
\* awaited, which leaves the transcript as it is.
Submit(clear) ==
    LET kept == IF clear THEN <<>> ELSE turns
    IN  /\ ~asking /\ Len(kept) < MaxTurns
        /\ soured' = (soured /\ ~clear)
        /\ IF awaiting /\ ~clear
           THEN UNCHANGED <<turns, awaiting, asking>>
           ELSE /\ turns' = Append(kept, "user")
                /\ awaiting' = TRUE /\ asking' = TRUE

\* Variant the checks reject: a failed response ends the wait and leaves its
\* question in the transcript.
ApplyForgets ==
    /\ asking /\ CallReturns
    /\ turns' = IF BodyIsWhole THEN Append(turns, "assistant") ELSE turns
    /\ awaiting' = FALSE /\ asking' = FALSE
    /\ UNCHANGED soured

\* apply_chat_response, once the call has returned: an answer that cannot be
\* parsed has no message either.
Apply ==
    /\ asking /\ CallReturns
    /\ asking' = FALSE
    /\ IF TransportOk /\ BodyIsWhole
       THEN /\ turns' = Append(turns, "assistant")
            /\ awaiting' = FALSE
            /\ UNCHANGED soured
       ELSE /\ soured' = TRUE
            /\ UNCHANGED <<turns, awaiting>>

Chat == Apply \/ \E clear \in BOOLEAN : Submit(clear)
-----------------------------------------------------------------------------
LanguageTypeOK ==
    /\ turns \in Seq({"user", "assistant"})
    /\ awaiting \in BOOLEAN /\ asking \in BOOLEAN /\ soured \in BOOLEAN
    /\ peer \in Peers

\* The transcript sent to the model asks and answers in turn, whatever fails
\* (language_runtime.cpp:47), and a chat is refused for a question still open
\* only after a response failed since the last clear (language_runtime.cpp:107):
\* one that clears is always put to the model.
ChatRefusedOnlyAfterFailure ==
    /\ \A i \in DOMAIN turns : turns[i] = IF i % 2 = 1 THEN "user" ELSE "assistant"
    /\ awaiting <=> Len(turns) % 2 = 1
    /\ awaiting => asking \/ soured
=============================================================================
