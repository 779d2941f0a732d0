------------------------------ MODULE TextParts -------------------------------
(***************************************************************************)
(* Texts made of parts: what the streams of LlmClient and the files of     *)
(* FileTools have in common.                                               *)
(***************************************************************************)
EXTENDS Naturals, Sequences

(* Sequences one behind the other.                                         *)
Joined(parts) ==
  LET upTo[n \in 0 .. Len(parts)] == IF n = 0 THEN <<>> ELSE upTo[n - 1] \o parts[n]
  IN upTo[Len(parts)]

===============================================================================
