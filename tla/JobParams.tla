------------------------------ MODULE JobParams ------------------------------
(***************************************************************************)
(* The parameters of a generation job, from the mobile app's request to    *)
(* the Suno client: JobParams.Normalize and Validate (domain/job.go), and  *)
(* the check the app makes before it sends the request                     *)
(* (shared/domain/create_job_request.dart).                                *)
(*                                                                         *)
(* A text is what the limits tell apart: how many characters it has        *)
(* without the white space around it, how many bytes they take in UTF-8,   *)
(* and whether there is white space around it.  Go's len counts bytes.     *)
(***************************************************************************)
EXTENDS Naturals

CONSTANT Missing    (* a pointer that is nil, a field that was not sent     *)

Texts == {t \in [chars : Nat, bytes : Nat, padded : BOOLEAN] :
             t.chars <= t.bytes /\ (t.chars = 0 <=> t.bytes = 0)}

ASSUME MissingAssumption == Missing \notin Texts

Models == {"V4", "V4_5", "V4_5PLUS", "V4_5ALL", "V5"}
Genders == {"m", "f"}

\* What decodes as a CreateJobRequest: enumerations are strings, "" and
\* "unknown" stand for an empty and for any other one.
Requests ==
    [prompt       : Texts,
     custom       : BOOLEAN,
     style        : Texts \cup {Missing},
     title        : Texts \cup {Missing},
     instrumental : BOOLEAN,
     model        : Models \cup {"", "unknown"},
     gender       : Genders \cup {"", "unknown", Missing},
     tags         : Texts \cup {Missing}]

Blank(text) == text.chars = 0
Trim(text) == [text EXCEPT !.padded = FALSE]

\* Normalize: an optional text that is blank is as good as not sent.
TrimOptional(text) ==
    IF text = Missing THEN Missing
    ELSE IF Blank(text) THEN Missing ELSE Trim(text)

Normalize(r) ==
    [r EXCEPT !.prompt = Trim(@),
              !.style = TrimOptional(@),
              !.title = TrimOptional(@),
              !.tags = TrimOptional(@),
              !.model = IF @ = "" THEN "V4_5ALL" ELSE @]

-----------------------------------------------------------------------------
PromptLimit(r) ==
    IF ~r.custom THEN 500 ELSE IF r.model = "V4" THEN 3000 ELSE 5000

StyleLimit(r) == IF r.model = "V4" THEN 200 ELSE 1000

TitleLimit(r) == IF r.model \in {"V4", "V4_5ALL"} THEN 80 ELSE 100

TagsLimit == 200

\* len(*p) <= limit
Fits(text, limit) == text.bytes <= limit

\* Validate: which fields a mode asks for and which it forbids.  In custom mode style
\* and title are required, lyrics too if there are vocals; otherwise a prompt and
\* nothing else.
CustomFields(r) ==
    /\ r.style # Missing /\ r.title # Missing
    /\ ~r.instrumental => ~Blank(r.prompt)

PlainFields(r) ==
    /\ ~Blank(r.prompt)
    /\ r.style = Missing /\ r.title = Missing
    /\ r.tags = Missing /\ r.gender = Missing

\* Validate: the limits on length.
FitsLimits(r) ==
    /\ Fits(r.prompt, PromptLimit(r))
    /\ r.custom /\ r.style # Missing => Fits(r.style, StyleLimit(r))
    /\ r.custom /\ r.title # Missing => Fits(r.title, TitleLimit(r))
    /\ r.tags # Missing => Fits(r.tags, TagsLimit)

\* Validate, of what Normalize returned.  Which error it returns is left out: each of
\* them is answered 400.
Valid(r) ==
    /\ r.model \in Models
    /\ r.gender \in Genders \cup {Missing}
    /\ IF r.custom THEN CustomFields(r) ELSE PlainFields(r)
    /\ r.gender # Missing => ~r.instrumental
    /\ FitsLimits(r)

\* POST /jobs: normalised, then validated.
Accepted(r) == Valid(Normalize(r))

-----------------------------------------------------------------------------
\* CreateJobRequest.validate of the app, which counts characters and knows neither
\* modes nor models.
SendLimits == [prompt |-> 5000, style |-> 1000, title |-> 80, tags |-> 200]

Sendable(r) ==
    /\ r.prompt.chars \in 1..SendLimits.prompt
    /\ \A field \in {"style", "title", "tags"} :
          r[field] # Missing => r[field].chars <= SendLimits[field]
=============================================================================
