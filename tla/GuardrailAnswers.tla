-------------------------- MODULE GuardrailAnswers --------------------------
(***************************************************************************)
(* How the text a local guardrail model answers becomes a guardrail        *)
(* status: parseLocalGuardrailContent and the functions it calls in        *)
(* internal/platform/runs/clients.go.                                      *)
(*                                                                         *)
(* An answer is one word in one of seven forms; an object may also carry a *)
(* decision.  A word is a member of a class the code tells apart:          *)
(*   yes, no       the score tokens ("y", "deny"; "n", ...)                *)
(*   true, false   the score tokens that are JSON as well                  *)
(*   allow         the score tokens that are decisions too ("ok", "pass")  *)
(*   low, high     numbers below 0.7, and from 0.7 on                      *)
(*   goLow, goHigh the same, as strconv.ParseFloat reads and JSON does not *)
(*                 (".5", "-Inf"; ".9", "Inf")                             *)
(*   NaN           which is read likewise, and is neither                  *)
(*   null, list    JSON that is no score (a list or an object)             *)
(*   maybe         any other text;  none  nothing at all                   *)
(***************************************************************************)
EXTENDS RunVocabulary

Words == {"yes", "no", "true", "false", "allow", "low", "high", "goLow", "goHigh", "NaN",
          "null", "list", "maybe", "none"}

\* An object: {"score": word} with the word as it is, or as a string; one that has
\* no score; and the two characters {}.
Objects == {"value", "string", "unscored", "empty"}

\* The bare word; <score>word</score>; a JSON string.
Forms == Objects \cup {"bare", "tagged", "quoted"}

Answers ==
    {a \in [form : Forms, word : Words, decision : Words] :
        /\ a.form \in {"unscored", "empty"} => a.word = "none"
        /\ a.form \in Objects \ {"empty"} \/ a.decision = "none"}

-----------------------------------------------------------------------------
YesTokens == {"yes", "true"}

NoTokens == {"no", "false", "allow"}

JSONNumbers == {"low", "high"}

GoNumbers == JSONNumbers \cup {"goLow", "goHigh", "NaN"}

JSONLiterals == JSONNumbers \cup {"true", "false", "null", "list"}

IsJSON(answer) ==
    \/ answer.form \in {"quoted", "string", "unscored", "empty"}
    \/ answer.form \in {"bare", "value"} /\ answer.word \in JSONLiterals

\* Mutant: a word that is no score counts as one below the threshold.
ReadsAnything(answer) == answer.word # "none"

\* The word is read as a score.  A number in an object may be a string; another
\* JSON value is neither a number nor a token there, and is passed over.
HasScore(answer) ==
    answer.word \in
        (IF answer.form = "value" THEN JSONNumbers
         ELSE YesTokens \cup NoTokens \cup GoNumbers)

\* score >= 0.7 is false of NaN.
ScoreStatus(word) ==
    IF word \in YesTokens \cup {"high", "goHigh"} THEN "guardrail_flagged"
    ELSE "guardrail_passed"

\* Of an object without a score the decision counts; every decision but an
\* allowing one flags, and so does none, except in an answer of exactly {}.
ObjectStatus(answer) ==
    IF answer.form = "empty" THEN "guardrail_unavailable"
    ELSE IF HasScore(answer) THEN ScoreStatus(answer.word)
    ELSE IF answer.decision = "allow" THEN "guardrail_passed"
    ELSE "guardrail_flagged"

\* JSON that is no object flags whatever it says ("0.1", "false" and null too);
\* other text must be a score, or the guardrail counts as unavailable.
AnswerStatus(answer) ==
    IF IsJSON(answer)
      THEN IF answer.form \in Objects THEN ObjectStatus(answer) ELSE "guardrail_flagged"
    ELSE IF answer.form \notin Objects /\ HasScore(answer) THEN ScoreStatus(answer.word)
    ELSE "guardrail_unavailable"

-----------------------------------------------------------------------------
\* The answer says that the output need not be flagged: in its score, or in its
\* decision when it has nothing that could be a score.
SaysPass(answer) ==
    \/ answer.word \in {"no", "false", "allow", "low", "goLow"}
    \/ answer.word \in {"null", "list", "maybe", "none"} /\ answer.decision = "allow"

\* What is read as passed without saying so: the score NaN, which is not below the
\* threshold either, and a score of the JSON value true, which flags as a token and
\* as a string and is passed over here in favour of an allowing decision.
Misread(answer) ==
    \/ answer.word = "NaN"
    \/ answer.form = "value" /\ answer.word = "true" /\ answer.decision = "allow"

\* There is neither a score nor a decision in the answer.
SaysNothing(answer) ==
    answer.word \in {"null", "list", "maybe", "none"} /\ answer.decision = "none"
=============================================================================
