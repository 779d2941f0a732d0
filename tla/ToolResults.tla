----------------------------- MODULE ToolResults ------------------------------
(***************************************************************************)
(* What happens to a tool's output before the model and the tool_calls     *)
(* table get it: configured secrets and well-known key patterns are        *)
(* replaced (tools/sanitizer.rs), then the payload is made to fit          *)
(* (agent_loop/formatting.rs, format_tool_result). Both are loops over the *)
(* text, one action per turn of the loop.                                  *)
(*                                                                         *)
(* A text is a sequence of tokens: a key prefix as sk-, a letter, a mark   *)
(* that ends no key, a blank (or quote, semicolon) that does, and the      *)
(* replacement. Lengths are counted in tokens.                             *)
(***************************************************************************)
EXTENDS Integers, Sequences

CONSTANTS
  ToolOutputs, \* what a tool may return: a set of texts
  Secrets,     \* configured secrets, longest first
  Details,     \* lengths of the result's details; 0 is none
  Overhead,    \* length of the payload around the content
  MaxChars,    \* MAX_TOOL_RESULT_CHARS
  Margin       \* what is cut beyond the excess, 100 in the code

Redacted == "[REDACTED]"
Dots == "..."
EndsKey == {"blank"}
IsBoundary(token) == token # "letter"

(* Empty secrets are filtered out; none is about a replacement or dots.    *)
ASSUME ResultConstants ==
  /\ ToolOutputs \subseteq Seq(STRING) /\ Secrets \in Seq(Seq(STRING) \ {<<>>})
  /\ \A k \in 1 .. Len(Secrets) : \A i \in 1 .. Len(Secrets[k]) : Secrets[k][i] \notin {Redacted, Dots}
  /\ Details \subseteq Nat /\ Overhead \in Nat /\ MaxChars \in Nat /\ Margin \in Nat \ {0}

VARIABLES result   \* the output on its way: text, details and the loop's place
resultVars == <<result>>

ResultInit ==
  result \in [stage: {"secrets"}, text: ToolOutputs, details: Details, start: {1}, next: {1}]

-------------------------------------------------------------------------------
(* sanitize_output_string.                                                 *)

(* Whether a part of the text, from i on, is the secret.                   *)
IsAt(text, i, secret) ==
  i + Len(secret) - 1 <= Len(text) /\ SubSeq(text, i, i + Len(secret) - 1) = secret

(* text with every occurrence of the secret replaced, from the left.       *)
Masked(text, secret) ==
  LET size == Len(secret)
      from[i \in 1 .. (Len(text) + size)] ==
        IF i > Len(text) THEN <<>>
        ELSE IF IsAt(text, i, secret) THEN <<Redacted>> \o from[i + size]
        ELSE <<text[i]>> \o from[i + 1]
  IN from[1]

(* redact_secrets: one configured value after the other, everywhere.       *)
RedactSecret ==
  /\ result.stage = "secrets"
  /\ result' = IF result.next > Len(Secrets) THEN [result EXCEPT !.stage = "patterns"]
               ELSE [result EXCEPT !.next = @ + 1,
                       !.text = Masked(@, Secrets[result.next])]

(* Of the positions of a prefix from start on, the first.                  *)
PrefixesFrom(text, start) == {i \in start .. Len(text) : text[i] = "prefix"}
First(S) == CHOOSE i \in S : \A j \in S : i <= j
(* The key goes on to the next blank or to the end.                        *)
KeyEnd(text, from) ==
  First({i \in from .. Len(text) : text[i] \in EndsKey} \cup {Len(text) + 1})

(* Mutant of NextStart: what was put in is looked at again from before.    *)
NextStart_Same(at, text) == IF text[at] = "prefix" THEN at ELSE at + 1

(* After a replacement, or a prefix that is none, the search goes on.      *)
NextStart(at, text) == at + 1

(* A key starts at the text's start or after something that is no letter,  *)
(* and is not empty.                                                       *)
KeyAt(text, at) ==
  /\ at = 1 \/ IsBoundary(text[at - 1])
  /\ KeyEnd(text, at + 1) > at + 1

RedactPattern ==
  /\ result.stage = "patterns"
  /\ LET found == PrefixesFrom(result.text, result.start) IN
     IF found = {} THEN result' = [result EXCEPT !.stage = "format"]
     ELSE LET at   == First(found)
              text == IF KeyAt(result.text, at)
                      THEN SubSeq(result.text, 1, at - 1) \o <<Redacted>> \o
                           SubSeq(result.text, KeyEnd(result.text, at + 1), Len(result.text))
                      ELSE result.text
          IN result' = [result EXCEPT !.text = text, !.start = NextStart(at, text)]

-------------------------------------------------------------------------------
(* format_tool_result.                                                     *)

Size(text, details) == Overhead + Len(text) + details

(* What stays of the content before the dots.                              *)
Shortened(text, excess) ==
  IF Len(text) <= excess + Margin THEN 0 ELSE Len(text) - (excess + Margin)

Format ==
  /\ result.stage = "format"
  /\ LET text == result.text
         size == Size(text, result.details)
         keep == Shortened(text, size - MaxChars) IN
     result' =
       IF size <= MaxChars THEN [result EXCEPT !.stage = "done"]
       ELSE IF result.details > 0 /\ Size(text, 0) <= MaxChars
       THEN [result EXCEPT !.stage = "done", !.details = 0]
       ELSE IF keep = 0 THEN [result EXCEPT !.stage = "done", !.details = 0, !.text = <<Dots>>]
       ELSE [result EXCEPT !.text = Append(SubSeq(text, 1, keep), Dots)]

ResultNext == RedactSecret \/ RedactPattern \/ Format
ResultSpec == ResultInit /\ [][ResultNext]_resultVars /\ WF_resultVars(ResultNext)

-------------------------------------------------------------------------------
(* Properties.                                                             *)

(* No configured value is left of a text, and no well-known key.           *)
HasNone(text, secret) == \A i \in 1 .. Len(text) : ~IsAt(text, i, secret)
HasNoKey(text, upto) ==
  \A i \in 1 .. (Len(text) - 1) :
    i < upto /\ text[i] = "prefix" /\ (i = 1 \/ text[i - 1] # "letter")
      => text[i + 1] \in {"blank", Dots}

(* What leaves the pipeline is masked, however keys, blanks and marks      *)
(* follow each other and whatever the replacements and the cut put side by *)
(* side, and it fits the budget, unless not even the dots do.              *)
DoneIsRight ==
  result.stage = "done" =>
    /\ \A k \in 1 .. Len(Secrets) : HasNone(result.text, Secrets[k])
    /\ HasNoKey(result.text, Len(result.text))
    /\ Size(result.text, result.details) <= MaxChars \/ result.text = <<Dots>>

(* What the loop of a stage has yet to look at.                            *)
Remaining ==
  IF result.stage = "secrets" THEN Len(Secrets) + 1 - result.next
  ELSE IF result.stage = "patterns" THEN Len(result.text) + 1 - result.start
  ELSE Len(result.text)

(* No turn of a loop looks at as much again.                               *)
GoesNearer ==
  \/ result'.stage = result.stage /\ Remaining \in Nat /\ Remaining' \in Nat /\ Remaining' < Remaining
  \/ result.stage = "secrets" /\ result'.stage = "patterns"
  \/ result.stage = "patterns" /\ result'.stage = "format"
  \/ result.stage = "format" /\ result'.stage = "done"

(* Both loops end for every output, and what is left is masked and fits.   *)
ResultsFit == <>(result.stage = "done" /\ DoneIsRight)
===============================================================================
