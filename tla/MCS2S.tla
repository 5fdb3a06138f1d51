-------------------------------- MODULE MCS2S --------------------------------
(***************************************************************************)
(* The speech-to-speech calls that TLC explores: each is about the         *)
(* interleaving of a few events, instead of one product of all of them.    *)
(***************************************************************************)
EXTENDS S2S

MCKind == [c \in Calls |-> CASE c = "bye" -> "end" [] c = "api" -> "api" [] OTHER -> "transfer"]

Never == [replies |-> 0, speech |-> 0, typed |-> 0, drops |-> 0, leaves |-> 0, silences |-> 0]

S2SCall(p, leg, hello, tcs, n, bounds) ==
  [provider |-> p, carrier |-> leg, greets |-> hello, calls |-> tcs, audio |-> n, may |-> bounds]

MCScenarios ==
  { \* end_call against another reply, a greeting and the watchdog
    S2SCall("openai", TRUE,  TRUE,  {"bye"},      1, [Never EXCEPT !.replies = 1]),
    S2SCall("openai", FALSE, FALSE, {"bye"},      0, [Never EXCEPT !.replies = 2, !.silences = 1]),
    S2SCall("openai", TRUE,  FALSE, {"bye"},      0, [Never EXCEPT !.replies = 1, !.silences = 2]),
    \* barge-ins while replies are paced, or queued
    S2SCall("openai", TRUE,  FALSE, {},           2, [Never EXCEPT !.replies = 2, !.speech = 2]),
    S2SCall("gemini", FALSE, TRUE,  {},           2, [Never EXCEPT !.replies = 2, !.speech = 2]),
    \* a tool that Gemini withdraws, and typed input beside it
    S2SCall("gemini", TRUE,  FALSE, {"api"},      1, [Never EXCEPT !.replies = 1, !.speech = 1]),
    S2SCall("gemini", FALSE, FALSE, {"api"},      0, [Never EXCEPT !.replies = 1, !.typed = 1]),
    \* the model asks for the transfer twice
    S2SCall("openai", FALSE, FALSE, {"x1", "x2"}, 0, [Never EXCEPT !.replies = 1]),
    \* typed input against a reply
    S2SCall("openai", FALSE, TRUE,  {},           1, [Never EXCEPT !.replies = 1, !.typed = 2]),
    \* dropped connections, alone and beside end_call and the watchdog
    S2SCall("openai", FALSE, TRUE,  {},           0, [Never EXCEPT !.drops = 3, !.leaves = 1]),
    S2SCall("gemini", FALSE, FALSE, {"bye"},      0, [Never EXCEPT !.replies = 1, !.drops = 2]),
    S2SCall("openai", FALSE, FALSE, {"api"},      0, [Never EXCEPT !.replies = 1, !.drops = 1]),
    S2SCall("openai", FALSE, FALSE, {"bye"},      0, [Never EXCEPT !.replies = 2, !.drops = 1]),
    S2SCall("openai", FALSE, TRUE,  {},           0, [Never EXCEPT !.drops = 1, !.silences = 1]) }
=============================================================================
