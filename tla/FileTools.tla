------------------------------ MODULE FileTools -------------------------------
(***************************************************************************)
(* The read, write and edit tools of egopulse: tools/files.rs over         *)
(* tools/text.rs. A text is a sequence of characters; what the tools count *)
(* is bytes, so that characters have a width. One call of a tool is one    *)
(* step: nothing else writes the file between its read and its write.      *)
(***************************************************************************)
EXTENDS Integers, Sequences, FiniteSets, FiniteSetsExt, TextParts

CONSTANTS
  Paths, Guarded, ImagePaths, \* those check_path refuses; with the extension of an image
  NoSuchFile, Picture, Binary,   \* contents that are not text
  Contents,                   \* what the model may give write
  EditInputs,                 \* inputs of edit: [edits, legacy], sequences of [old, new]
  Limits, NoLimit,            \* limits given to read
  MaxLines, MaxBytes          \* DEFAULT_MAX_LINES, DEFAULT_MAX_BYTES

AreEdits(edits) == edits \in Seq([old: Seq(STRING), new: Seq(STRING)])

ASSUME FileConstants ==
  /\ MaxLines \in Nat \ {0} /\ MaxBytes \in Nat
  /\ Limits \subseteq Nat /\ NoLimit \notin Nat
  /\ \A content \in Contents : content \in {Picture, Binary} \/ content \in Seq(STRING)
  /\ \A input \in EditInputs : AreEdits(input.edits) /\ AreEdits(input.legacy)

VARIABLES
  files,    \* per path: a text or one of the contents above
  paging,   \* somebody who reads a file and follows the notices of read
  lastCall \* the last call: is ok, error or panic, and what an edit was given

textVars == <<files, paging, lastCall>>

Space == " "
Dash == "-"
EmDash == "--"  \* stands for all that normalize_fuzzy_char makes a plain character
Bom == "bom"

NoEdit(is) == [is |-> is, path |-> NoSuchFile, before |-> <<>>, edits |-> <<>>]
NotReading == [path |-> NoSuchFile, next |-> 1, shown |-> <<>>, long |-> {}, behind |-> {}]

FileInit ==
  /\ files = [path \in Paths |-> NoSuchFile]
  /\ paging = NotReading
  /\ lastCall = NoEdit("ok")

-------------------------------------------------------------------------------
(* Texts.                                                                  *)

IsWide(c) == c \in {EmDash, Bom}  \* takes three bytes
Utf8Size(text) == Len(text) + 2 * Cardinality({i \in DOMAIN text : IsWide(text[i])})

(* normalize_newlines                                                      *)
NormalPart(text, i) ==
  IF text[i] = "\n" /\ i > 1 /\ text[i - 1] = "\r" THEN <<>>
  ELSE IF text[i] = "\r" THEN <<"\n">> ELSE <<text[i]>>
NormalizeNewlines(text) == Joined([i \in DOMAIN text |-> NormalPart(text, i)])

(* split and join at newlines                                              *)
WithChar(lines, c) ==
  IF c = "\n" THEN Append(lines, <<>>) ELSE [lines EXCEPT ![Len(lines)] = Append(@, c)]
LinesOf(text) ==
  LET upTo[n \in 0..Len(text)] == IF n = 0 THEN << <<>> >> ELSE WithChar(upTo[n - 1], text[n])
  IN upTo[Len(text)]
JoinLines(lines) ==
  Joined([k \in DOMAIN lines |-> IF k = 1 THEN lines[1] ELSE <<"\n">> \o lines[k]])

TrimEnd(line) ==
  SubSeq(line, 1, Max({0} \cup {i \in DOMAIN line : line[i] \notin {Space, "\r"}}))

(* normalize_for_fuzzy_match                                               *)
TrimLines(lines) == JoinLines([k \in DOMAIN lines |-> TrimEnd(lines[k])])
PlainDashes(text) == [i \in DOMAIN text |-> IF text[i] = EmDash THEN Dash ELSE text[i]]
Fuzzy(text) == PlainDashes(TrimLines(LinesOf(NormalizeNewlines(text))))

(* detect_line_ending: is the first newline a CRLF; restore_line_endings   *)
UsesCrlf(text) ==
  \E i \in DOMAIN text : /\ i > 1 /\ text[i] = "\n" /\ text[i - 1] = "\r"
                         /\ \A j \in 1..(i - 1) : text[j] # "\n"

RestoreLineEndings(text, crlf) ==
  IF crlf
  THEN Joined([i \in DOMAIN text |-> IF text[i] = "\n" THEN <<"\r", "\n">> ELSE <<text[i]>>])
  ELSE text

HasBom(text) == text # <<>> /\ Head(text) = Bom
StripBom(text) == IF HasBom(text) THEN Tail(text) ELSE text

-------------------------------------------------------------------------------
(* Finding and replacing. Positions are bytes from 0; a position that is   *)
(* not between two characters makes a slice panic.                         *)

Finds(content, needle) ==
  {i \in 1..(Len(content) - Len(needle) + 1) :
      SubSeq(content, i, i + Len(needle) - 1) = needle}

ByteOf(text, i) == Utf8Size(SubSeq(text, 1, i - 1))
AtByte(text, pos) == {i \in 1..(Len(text) + 1) : ByteOf(text, i) = pos}
Usize(n) == IF n < 0 THEN n + 2^30 ELSE n

(* text[..from] + new + text[from + length..]                              *)
Sliceable(text, from, to) == from <= to /\ AtByte(text, from) # {} /\ AtByte(text, to) # {}
Splice(text, from, to, new) ==
  SubSeq(text, 1, Min(AtByte(text, from)) - 1) \o new
    \o SubSeq(text, Min(AtByte(text, to)), Len(text))

(* count_occurrences is more than one                                      *)
IsTwiceIn(content, needle) ==
  /\ needle # <<>>
  /\ \E i, j \in Finds(content, needle) : j >= i + Len(needle)
IsRepeated(content, needle) == IsTwiceIn(Fuzzy(content), Fuzzy(needle))

(* fuzzy_find_text, resolve_match_span: the span of the content that the   *)
(* old text is found at, in bytes, and whether it is a fuzzy match.        *)
Span(content, from, to, length, fuzzy) ==
  [start |-> ByteOf(content, from), end |-> ByteOf(content, to), length |-> length, fuzzy |-> fuzzy]
ExactSpan(content, old, from) == Span(content, from, from + Len(old), Utf8Size(old), FALSE)
FuzzySpan(content, old, from) ==
  Span(content, from, Min({from + Len(old), Len(content) + 1}), Utf8Size(old), TRUE)
Found(content, old) ==
  IF Finds(content, old) # {}
  THEN ExactSpan(content, old, Min(Finds(content, old)))
  ELSE FuzzySpan(content, Fuzzy(old), Min(Finds(Fuzzy(content), Fuzzy(old))))

IsFound(content, old) == Finds(content, old) # {} \/ Finds(Fuzzy(content), Fuzzy(old)) # {}

(* match_normalized_edit, for the next of the edits: done holds the base,  *)
(* the offset so far, the matches and whether the edits are still fine. A  *)
(* fuzzy match is made plain in the base first.                            *)
Replaced(done, from, to, plain) ==
  [done EXCEPT !.base = Splice(@, from, to, plain), !.offset = @ + Utf8Size(plain) - (to - from)]
MadePlain(done, from, to) ==
  Replaced(done, from, to,
           Fuzzy(SubSeq(done.base, Min(AtByte(done.base, from)), Min(AtByte(done.base, to)) - 1)))
AddMatch(done, edit, from, length) ==
  IF IsRepeated(done.base, edit.old) THEN [done EXCEPT !.is = "error"]
  ELSE [done EXCEPT !.matched = Append(@, [at |-> from, length |-> length, new |-> edit.new])]

MatchBetween(done, edit, span, from, to) ==
  IF ~span.fuzzy THEN AddMatch(done, edit, from, span.length)
  ELSE IF ~Sliceable(done.base, from, to) THEN [done EXCEPT !.is = "panic"]
  ELSE AddMatch(MadePlain(done, from, to), edit, from, span.length)
MatchSpan(done, edit, span) ==
  MatchBetween(done, edit, span, Usize(span.start + done.offset), Usize(span.end + done.offset))
MatchEdit(content, done, edit) ==
  IF done.is # "ok" THEN done
  ELSE IF ~IsFound(content, edit.old) THEN [done EXCEPT !.is = "error"]
  ELSE MatchSpan(done, edit, Found(content, edit.old))

(* ensure_non_overlapping_matches                                          *)
ComesUpTo(matched, i, j) ==
  matched[i].at < matched[j].at \/ (matched[i].at = matched[j].at /\ i <= j)
PlaceOf(matched, j) == Cardinality({i \in DOMAIN matched : ComesUpTo(matched, i, j)})
Sorted(matched) ==
  [k \in DOMAIN matched |-> matched[CHOOSE j \in DOMAIN matched : PlaceOf(matched, j) = k]]
Overlap(sorted) == \E k \in 1..(Len(sorted) - 1) : sorted[k].at + sorted[k].length > sorted[k + 1].at

(* apply_matched_edits, from the last to the first                         *)
ApplyMatch(done, m) ==
  IF done.is = "ok" /\ Sliceable(done.text, m.at, m.at + m.length)
  THEN [is |-> "ok", text |-> Splice(done.text, m.at, m.at + m.length, m.new)]
  ELSE [done EXCEPT !.is = "panic"]
ApplyMatched(base, sorted) ==
  LET after[n \in 0..Len(sorted)] ==
        IF n = 0 THEN [is |-> "ok", text |-> base]
        ELSE ApplyMatch(after[n - 1], sorted[Len(sorted) + 1 - n])
  IN after[Len(sorted)]

(* apply_edits_to_normalized_content: what fails leaves the text alone.    *)
NotApplied(content, is) == [is |-> is, text |-> content]
ApplySorted(content, base, sorted) ==
  IF Overlap(sorted) \/ ApplyMatched(base, sorted) = [is |-> "ok", text |-> base]
  THEN NotApplied(content, "error") ELSE ApplyMatched(base, sorted)
ApplyDone(content, done) ==
  IF done.is # "ok" THEN NotApplied(content, done.is)
  ELSE ApplySorted(content, done.base, Sorted(done.matched))
MatchAll(content, edits) ==
  LET done[n \in 0..Len(edits)] ==
        IF n = 0 THEN [is |-> "ok", base |-> content, offset |-> 0, matched |-> <<>>]
        ELSE MatchEdit(content, done[n - 1], edits[n])
  IN done[Len(edits)]
ApplyPlain(content, edits) ==
  IF \E k \in DOMAIN edits : edits[k].old = <<>> THEN NotApplied(content, "error")
  ELSE ApplyDone(content, MatchAll(content, edits))

(* normalize_edits                                                         *)
NormalEdits(edits) ==
  [k \in DOMAIN edits |-> [old |-> NormalizeNewlines(edits[k].old), new |-> NormalizeNewlines(edits[k].new)]]
ApplyEdits(content, edits) == ApplyPlain(content, NormalEdits(edits))

-------------------------------------------------------------------------------
(* read.                                                                   *)

(* truncate_head: how many lines fit, of the lines selected.               *)
Fitting(lines) ==
  Max({k \in 0..Min({Len(lines), MaxLines}) : k = 0 \/ Utf8Size(JoinLines(SubSeq(lines, 1, k))) <= MaxBytes})
IsLong(line) == Utf8Size(line) > MaxBytes

Selected(lines, start, limit) ==
  IF limit = 0 THEN << <<>> >>
  ELSE SubSeq(lines, start + 1, IF limit = NoLimit THEN Len(lines) ELSE Min({start + limit, Len(lines)}))

(* Mutant: the notice names the last line shown.                           *)
ReadResult_Again(lines, start, limit) ==
  LET selected == Selected(lines, start, limit)
      fits     == Fitting(selected) IN
  IF fits < Len(selected) /\ ~IsLong(selected[1])
  THEN [shown |-> fits, next |-> start + fits, long |-> FALSE]
  ELSE [shown |-> IF limit = 0 THEN 0 ELSE fits, long |-> IsLong(selected[1]),
        next  |-> IF limit # NoLimit /\ start + limit < Len(lines) THEN start + limit + 1 ELSE 0]

(* The end of execute and build_text_read_result: how many lines are       *)
(* shown, the offset the notice says to continue at (0: no notice), and    *)
(* whether the line at the offset is named as too long instead of shown.   *)
ReadResult(lines, start, limit) ==
  LET selected == Selected(lines, start, limit)
      fits     == Fitting(selected) IN
  IF fits < Len(selected) /\ ~IsLong(selected[1])
  THEN [shown |-> fits, next |-> start + fits + 1, long |-> FALSE]
  ELSE [shown |-> IF limit = 0 THEN 0 ELSE fits, long |-> IsLong(selected[1]),
        next  |-> IF limit # NoLimit /\ start + limit < Len(lines) THEN start + limit + 1 ELSE 0]

IsText(content) == content \notin {NoSuchFile, Picture, Binary}

EndCall(call) == lastCall' = call /\ UNCHANGED <<files, paging>>

(* ReadTool::execute of a reader who follows the notices: an image, by its *)
(* bytes or by its name, is shown whole.                                   *)
Read(path, limit) ==
  LET start  == IF paging.path = path THEN paging.next - 1 ELSE 0
      lines  == LinesOf(NormalizeNewlines(files[path]))
      result == ReadResult(lines, start, limit)
      before == IF paging.path = path THEN paging ELSE [NotReading EXCEPT !.path = path]
  IN /\ paging.path = path => paging.next # 0
     /\ IF path \in Guarded \/ files[path] \in {NoSuchFile, Binary} THEN EndCall(NoEdit("error"))
        ELSE IF ~IsText(files[path]) \/ path \in ImagePaths THEN EndCall(NoEdit("ok"))
        ELSE /\ lastCall' = NoEdit("ok")
             /\ paging' = [before EXCEPT
                  !.next = result.next, !.shown = @ \o [k \in 1..result.shown |-> start + k],
                  !.long = @ \cup IF result.long THEN {start + 1} ELSE {},
                  !.behind = @ \cup IF result.long THEN (start + 2)..(result.next - 1) ELSE {}]
             /\ UNCHANGED files

-------------------------------------------------------------------------------
(* write and edit.                                                         *)

Store(path, content, call) ==
  /\ files' = [files EXCEPT ![path] = content]
  /\ paging' = IF paging.path = path THEN NotReading ELSE paging
  /\ lastCall' = call

(* WriteTool::execute                                                      *)
Write(path, content) ==
  IF path \in Guarded THEN EndCall(NoEdit("error")) ELSE Store(path, content, NoEdit("ok"))

(* parse_edits: both forms are ambiguous, none is invalid.                 *)
ParsedEdits(input) == IF input.edits # <<>> /\ input.legacy # <<>> THEN <<>>
                      ELSE input.edits \o input.legacy

(* EditTool::execute                                                       *)
EndEdit(path, edits, content, applied) ==
  LET call == [is |-> applied.is, path |-> path, before |-> files[path], edits |-> edits] IN
  IF applied.is # "ok" THEN EndCall(call)
  ELSE Store(path, (IF content = files[path] THEN <<>> ELSE <<Bom>>)
                     \o RestoreLineEndings(applied.text, UsesCrlf(content)), call)

Edit(path, input) ==
  LET content == StripBom(files[path]) IN
  IF ParsedEdits(input) = <<>> \/ path \in Guarded \/ ~IsText(files[path]) THEN EndCall(NoEdit("error"))
  ELSE EndEdit(path, ParsedEdits(input), content,
               ApplyEdits(NormalizeNewlines(content), ParsedEdits(input)))

FileNext ==
  \/ \E path \in Paths, limit \in Limits \cup {NoLimit} : Read(path, limit)
  \/ \E path \in Paths, content \in Contents : Write(path, content)
  \/ \E path \in Paths, input \in EditInputs : Edit(path, input)

FileSpec == FileInit /\ [][FileNext]_textVars

-------------------------------------------------------------------------------
(* Whoever reads a file on from each notice of read is shown every line    *)
(* once and in order, or is told that it is too long, to the last one.     *)
(* (A limited read that begins at a line that is too long skips the lines  *)
(* behind it, and without a limit it says of no way on.)                   *)
ReadsTile ==
  paging.path # NoSuchFile =>
    LET total == Len(LinesOf(NormalizeNewlines(files[paging.path])))
        upTo  == IF paging.next = 0 THEN total ELSE paging.next - 1
        seen  == {paging.shown[k] : k \in DOMAIN paging.shown} IN
    /\ \A k \in 2..Len(paging.shown) : paging.shown[k - 1] < paging.shown[k]
    /\ seen \cup paging.long \cup paging.behind \subseteq 1..upTo
    /\ \/ 1..upTo = seen \cup paging.long \cup paging.behind
       \/ paging.next = 0 /\ \E l \in paging.long : (l + 1)..total \cap seen = {}

(* The edits, each where its old text stands, none over another, and       *)
(* nothing else make after of before.                                      *)
Replacement(before, edits, at, i) ==
  IF \E k \in DOMAIN edits : i = at[k]
  THEN edits[CHOOSE k \in DOMAIN edits : i = at[k]].new
  ELSE IF \E k \in DOMAIN edits : i \in at[k]..(at[k] + Len(edits[k].old) - 1)
  THEN <<>> ELSE <<before[i]>>
AreApart(edits, at) ==
  \A j, k \in DOMAIN edits :
    j = k \/ at[j] + Len(edits[j].old) <= at[k] \/ at[k] + Len(edits[k].old) <= at[j]
Rewrites(before, after, edits) ==
  \E at \in [DOMAIN edits -> DOMAIN before] :
    /\ \A k \in DOMAIN edits : at[k] \in Finds(before, edits[k].old)
    /\ AreApart(edits, at)
    /\ after = Joined([i \in DOMAIN before |-> Replacement(before, edits, at, i)])

(* All lines end with both characters, or all with a newline alone.        *)
LinesEnd(text, crlf) ==
  \A i \in DOMAIN text :
    IF crlf
    THEN /\ text[i] = "\n" => i > 1 /\ text[i - 1] = "\r"
         /\ text[i] = "\r" => i < Len(text) /\ text[i + 1] = "\n"
    ELSE text[i] # "\r"

Mark(text) == IF HasBom(text) THEN <<Bom>> ELSE <<>>
EditedTo(after, before, edits) ==
  LET body == SubSeq(after, 1 + Len(Mark(before)), Len(after)) IN
  /\ after = Mark(before) \o body
  /\ Rewrites(NormalizeNewlines(StripBom(before)), NormalizeNewlines(body), NormalEdits(edits))
  /\ LinesEnd(body, UsesCrlf(StripBom(before)))

(* An edit whose old texts are all in the file replaces just them, however *)
(* many there are and in whatever order, each where it was before any      *)
(* other was replaced, keeps the byte order mark, and ends all lines as    *)
(* the first one ended.                                                    *)
EditsAreExact ==
  /\ lastCall.is = "ok" /\ lastCall.edits # <<>>
  /\ \A k \in DOMAIN lastCall.edits :
       Finds(NormalizeNewlines(StripBom(lastCall.before)), NormalizeNewlines(lastCall.edits[k].old)) # {}
  => EditedTo(files[lastCall.path], lastCall.before, lastCall.edits)

(* A reader of a file misses no line; an edit changes what it names only.  *)
FilesAreFaithful == ReadsTile /\ EditsAreExact
===============================================================================
