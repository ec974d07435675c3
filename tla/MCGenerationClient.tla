-------------------------- MODULE MCGenerationClient --------------------------
EXTENDS GenerationClient

Text(chars, bytes) == [chars |-> chars, bytes |-> bytes, padded |-> FALSE]

MCStyle == Text(5, 5)
MCUntitled == Text(14, 14)

\* Nothing, a Cyrillic description whose characters fit but whose bytes do not, a
\* short one with a song name that just fits.
Describe(prompt, name, gender) ==
    [mode |-> "description", prompt |-> prompt, name |-> name, gender |-> gender,
     instrumental |-> FALSE]

MCForms ==
    {InitialForm,
     Describe(Text(300, 600), Text(0, 0), Missing),
     Describe(Text(20, 20), Text(40, 80), "f")}
=============================================================================
