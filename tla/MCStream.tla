-------------------------------- MODULE MCStream --------------------------------
(* Instances of AnswerStream for TLC. *)
EXTENDS AnswerStream, TLC

C(provider, vision, inferred, secrets, broken) ==
    [provider |-> provider, vision |-> vision, inferred |-> inferred,
     secrets |-> secrets, broken |-> broken]

\* Nothing usable; one provider for all; another one for screenshots, named or
\* inferred, with and without its key.
MCConfig ==
    {C(Unset, Unset, Unset, {"claude"}, {}),
     C("unrecognized", Unset, Unset, {"claude"}, {}),
     C("openai", "gemini", Unset, {"openai", "gemini"}, {"openai"}),
     C("gemini", Unset, Unset, {"gemini"}, {}),
     C("groq", Unset, "gemini", {"groq"}, {}),
     C("groq", "gemini", "claude", {"groq", "gemini"}, {}),
     C("gemini", "Gemini", Unset, {"claude", "gemini"}, {})}
=============================================================================
