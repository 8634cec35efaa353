------------------------------ MODULE ChunkedScans ------------------------------
(***************************************************************************)
(* The scanners that read files too large or too costly to parse whole:    *)
(* the elements of a JSON array (sources/read-json-array-elements.ts), the *)
(* strings a line's reader never uses (utils/cut-json-strings.ts), the     *)
(* model named in a conversation (sources/cline/cline-history-model.ts),   *)
(* and the frames of a compressed log (dsh/dsh-session-log-reader.ts).     *)
(* Each works on chunks or skips bytes, and must find what a parse of the  *)
(* whole would.                                                            *)
(***************************************************************************)
EXTENDS Integers, Sequences, SequencesExt, FiniteSetsExt

CONSTANTS
    MinLine, MinCut,    \* MIN_WALKED_LINE_BYTES, MIN_CUT_STRING_BYTES
    MaxWalkDepth,       \* MAX_DEPTH
    ChunkSizes          \* the sizes that files are cut into

ChunksOf(s, n) ==
    [i \in 1 .. (Len(s) + n - 1) \div n |-> SubSeq(s, (i - 1) * n + 1, Min({i * n, Len(s)}))]
PlacesOf(s, Test(_)) == SelectSeq([i \in DOMAIN s |-> i], Test)
\* indexOf: the first place of tag at or after position, 0 for none.
IndexOf(s, tag, position) ==
    LET at == {i \in position .. Len(s) - Len(tag) + 1 : SubSeq(s, i, i + Len(tag) - 1) = tag}
    IN IF at = {} THEN 0 ELSE Min(at)

----------------------------------------------------------------------------
(* JSON over nine characters: "q" is a quote, "b" a backslash, "1" a digit *)
(* (a number by itself), "n" a letter (an escape after a backslash, no     *)
(* literal), "c" a control byte and "_" a space; braces, brackets, colons  *)
(* and commas are themselves.  A spec of what is unused is all of a value, *)
(* or a spec per key.                                                      *)

Spec_(all, keys) == [all |-> all, keys |-> keys]
Used == Spec_(FALSE, <<>>)
SpecAt(unused, key) ==
    IF unused.all THEN unused ELSE IF key \in DOMAIN unused.keys THEN unused.keys[key] ELSE Used
\* Of a value this deep, or one with nothing unused, nothing is cut.
SpecWithin(unused, depth) == IF depth >= MaxWalkDepth THEN Used ELSE unused

CharAt(s, i) == IF i \in DOMAIN s THEN s[i] ELSE "end"
SkipSpace(s, i) == Min({k \in i .. Len(s) + 1 : CharAt(s, k) # "_"} \cup {Max({i, Len(s) + 1})})
LiteralEnd(s, i) == Min({k \in i .. Len(s) + 1 : CharAt(s, k) \notin {"1", "n"}})

\* What JSON.parse accepts: a value's end, 0 for none, its text with the strings that are
\* unused and long emptied, and the texts of its elements or members.
Parsed(at, out, parts) == [at |-> at, out |-> out, parts |-> parts]
NoValue == Parsed(0, <<>>, <<>>)

RECURSIVE StringEnd(_, _)
StringEnd(s, i) ==
    CASE CharAt(s, i) = "q" -> i + 1
      [] CharAt(s, i) = "b" -> IF CharAt(s, i + 1) \in {"q", "b", "n"} THEN StringEnd(s, i + 2) ELSE 0
      [] CharAt(s, i) \in {"c", "end"} -> 0
      [] OTHER -> StringEnd(s, i + 1)

RECURSIVE ValueAt(_, _, _, _), ItemsFrom(_, _, _, _, _)
TextValue(s, start, i, end, cut) ==
    IF end = 0 THEN NoValue
    ELSE Parsed(end, SubSeq(s, start, i - 1) \o (IF cut /\ end - i > MinCut THEN <<"q", "q">>
                                                ELSE SubSeq(s, i, end - 1)), <<>>)
NumberValue(s, start, i, end) ==
    IF \E k \in i .. end - 1 : s[k] = "n" THEN NoValue ELSE Parsed(end, SubSeq(s, start, end - 1), <<>>)
Enclosed(s, start, i, items) ==
    IF items.at = 0 THEN NoValue ELSE Parsed(items.at, SubSeq(s, start, i) \o items.out, items.parts)
CloseOf(bracket) == IF bracket = "{" THEN "}" ELSE "]"
ItemsIn(s, i, closed, unused, depth) ==
    IF CharAt(s, closed) = CloseOf(s[i]) THEN Parsed(closed + 1, SubSeq(s, i + 1, closed), <<>>)
    ELSE ItemsFrom(s, i + 1, CloseOf(s[i]), unused, depth)
ValueFrom(s, start, i, unused, depth) ==
    CASE CharAt(s, i) = "q" -> TextValue(s, start, i, StringEnd(s, i + 1), unused.all)
      [] CharAt(s, i) \in {"{", "["} ->
            Enclosed(s, start, i, ItemsIn(s, i, SkipSpace(s, i + 1), SpecWithin(unused, depth), depth + 1))
      [] CharAt(s, i) \in {"1", "n"} -> NumberValue(s, start, i, LiteralEnd(s, i))
      [] OTHER -> NoValue
ValueAt(s, start, unused, depth) == ValueFrom(s, start, SkipSpace(s, start), unused, depth)

\* The items from start: the first, whose value is at from, and what follows its comma.
Separated(s, start, from, value, end) ==
    IF end > Len(s) THEN NoValue ELSE
    Parsed(end + 1, SubSeq(s, start, from - 1) \o value.out \o SubSeq(s, value.at, end),
           <<SubSeq(s, SkipSpace(s, start), value.at - 1)>>)
Item(s, start, from, value) ==
    IF value.at = 0 THEN NoValue ELSE Separated(s, start, from, value, SkipSpace(s, value.at))
Joined(item, rest) ==
    IF rest.at = 0 THEN NoValue ELSE Parsed(rest.at, item.out \o rest.out, item.parts \o rest.parts)
ItemsAfter(s, item, close, unused, depth) ==
    IF item = NoValue THEN NoValue
    ELSE CASE CharAt(s, item.at - 1) = close -> item
           [] CharAt(s, item.at - 1) = "," -> Joined(item, ItemsFrom(s, item.at, close, unused, depth))
           [] OTHER -> NoValue
MembersFrom(s, start, key, colon, unused, depth) ==
    IF CharAt(s, colon) # ":" THEN NoValue
    ELSE ItemsAfter(s, Item(s, start, colon + 1, ValueAt(s, colon + 1, SpecAt(unused, key), depth)),
                    "}", unused, depth)
KeyedFrom(s, start, keyStart, keyEnd, unused, depth) ==
    IF keyEnd = 0 THEN NoValue
    ELSE MembersFrom(s, start, SubSeq(s, keyStart + 1, keyEnd - 2), SkipSpace(s, keyEnd), unused, depth)
KeyEnd(s, keyStart) == IF CharAt(s, keyStart) = "q" THEN StringEnd(s, keyStart + 1) ELSE 0
ItemsFrom(s, start, close, unused, depth) ==
    IF close = "}"
    THEN KeyedFrom(s, start, SkipSpace(s, start), KeyEnd(s, SkipSpace(s, start)), unused, depth)
    ELSE ItemsAfter(s, Item(s, start, start, ValueAt(s, start, unused, depth)), close, unused, depth)

WholeText(s, value) ==
    IF value.at > 0 /\ SkipSpace(s, value.at) = Len(s) + 1
    THEN [value EXCEPT !.out = @ \o SubSeq(s, value.at, Len(s))] ELSE NoValue
Document(s, unused) == WholeText(s, ValueAt(s, 1, unused, 0))
IsJson(s) == Document(s, Used) # NoValue

----------------------------------------------------------------------------
(* JsonArrayScanner: the elements of a file, character by character.       *)

Scanner == [phase |-> "beforeArray", inElement |-> FALSE, depth |-> 0, inString |-> FALSE,
            escaped |-> FALSE, part |-> <<>>, elements |-> <<>>, failed |-> FALSE]
\* A character between elements.
TakeBetween(st, c) ==
    CASE c = "_" -> st
      [] st.phase = "beforeArray" -> [st EXCEPT !.phase = "beforeElement", !.failed = @ \/ c # "["]
      [] st.phase = "afterElement" ->
            [st EXCEPT !.phase = IF c = "," THEN "afterComma" ELSE "done", !.failed = @ \/ c \notin {",", "]"}]
      [] st.phase = "beforeElement" /\ c = "]" -> [st EXCEPT !.phase = "done"]
      [] OTHER -> [st EXCEPT !.inElement = TRUE, !.failed = @ \/ st.phase = "done" \/ c \in {",", "]"}]
\* A character of an element, which JSON.parse checks when it ends.
TakeInside(st, c) ==
    LET kept == [st EXCEPT !.part = Append(@, c)] IN
    CASE st.inString ->
            [kept EXCEPT !.escaped = ~st.escaped /\ c = "b", !.inString = st.escaped \/ c # "q"]
      [] c = "q" -> [kept EXCEPT !.inString = TRUE]
      [] c \in {"[", "{"} -> [kept EXCEPT !.depth = @ + 1]
      [] st.depth > 0 -> [kept EXCEPT !.depth = IF c \in {"]", "}"} THEN @ - 1 ELSE @]
      [] c \notin {",", "]", "_"} -> kept
      [] OTHER -> TakeBetween([st EXCEPT !.elements = Append(@, st.part), !.part = <<>>, !.inElement = FALSE,
                                         !.phase = "afterElement", !.failed = ~IsJson(st.part)], c)
Rescanned(st, c) == IF st.inElement /\ ~st.failed THEN TakeInside(st, c) ELSE st
TakeChar(st, c) ==
    IF st.failed \/ st.inElement THEN Rescanned(st, c) ELSE Rescanned(TakeBetween(st, c), c)

\* readJsonArrayElements: what the first byte that is no space routes the file to.
ReadElements(s) ==
    LET first == CharAt(s, SkipSpace(s, 1))
        end == FoldLeft(TakeChar, Scanner, s)
        NotArray == IF IsJson(s) THEN "notArray" ELSE "notReadable"
    IN IF first # "[" THEN [result |-> NotArray, elements |-> <<>>]
       ELSE IF end.failed \/ end.phase # "done" THEN [result |-> "notReadable", elements |-> end.elements]
       ELSE [result |-> "elements", elements |-> end.elements]

(***************************************************************************)
(* A file is accepted exactly when JSON.parse would accept it whole, with  *)
(* the same elements; one that is JSON but no array is told apart from one *)
(* that is not readable.                                                   *)
(***************************************************************************)
ElementsAsParsed(s) ==
    LET value == Document(s, Used)
        read == ReadElements(s)
    IN CASE value = NoValue -> read.result = "notReadable"
         [] s[SkipSpace(s, 1)] # "[" -> read.result = "notArray"
         [] OTHER -> read = [result |-> "elements", elements |-> value.parts]

----------------------------------------------------------------------------
(* LineScanner: the long strings under unused, found without a parse.  A   *)
(* scan is the offset past what it walked, 0 for an invalid line, and the  *)
(* strings to cut.                                                         *)

Scan(at, cuts) == [at |-> at, cuts |-> cuts]
InvalidLine == Scan(0, <<>>)

\* scanString, of one that stays: JSON.parse will check it.
RECURSIVE PlainEnd(_, _)
PlainEnd(s, i) ==
    CASE CharAt(s, i) = "end" -> 0
      [] CharAt(s, i) = "q" -> i + 1
      [] CharAt(s, i) = "b" -> PlainEnd(s, i + 2)
      [] OTHER -> PlainEnd(s, i + 1)
\* scanString, of one that is cut.
CutEnd(s, i) == StringEnd(s, i)

\* skipContainer
RECURSIVE ContainerEnd(_, _, _)
ContainerEnd(s, i, depth) ==
    CASE CharAt(s, i) = "end" -> 0
      [] CharAt(s, i) = "q" -> IF PlainEnd(s, i + 1) = 0 THEN 0 ELSE ContainerEnd(s, PlainEnd(s, i + 1), depth)
      [] CharAt(s, i) \in {"{", "["} -> ContainerEnd(s, i + 1, depth + 1)
      [] CharAt(s, i) \in {"}", "]"} -> IF depth = 1 THEN i + 1 ELSE ContainerEnd(s, i + 1, depth - 1)
      [] OTHER -> ContainerEnd(s, i + 1, depth)

RECURSIVE ScanValue(_, _, _, _), ScanItems(_, _, _, _, _)
WithCuts(cuts, rest) == IF rest.at = 0 THEN InvalidLine ELSE Scan(rest.at, cuts \o rest.cuts)
CutString(i, end) == Scan(end, IF end - i > MinCut THEN <<[from |-> i, to |-> end - 1]>> ELSE <<>>)
ScanContainer(s, i, first, unused, depth) ==
    IF CharAt(s, first) = CloseOf(s[i]) THEN Scan(first + 1, <<>>)
    ELSE ScanItems(s, first, CloseOf(s[i]), unused, depth + 1)
ScanFrom(s, i, unused, depth) ==
    CASE CharAt(s, i) = "q" /\ ~unused.all -> Scan(PlainEnd(s, i + 1), <<>>)
      [] CharAt(s, i) = "q" /\ unused.all -> CutString(i, CutEnd(s, i + 1))
      [] CharAt(s, i) \in {"{", "["} /\ (unused = Used \/ depth >= MaxWalkDepth) ->
            Scan(ContainerEnd(s, i, 0), <<>>)
      [] CharAt(s, i) \in {"{", "["} /\ ~(unused = Used \/ depth >= MaxWalkDepth) ->
            ScanContainer(s, i, SkipSpace(s, i + 1), unused, depth)
      [] CharAt(s, i) \in {"1", "n"} -> Scan(LiteralEnd(s, i), <<>>)
      [] OTHER -> InvalidLine
ScanValue(s, start, unused, depth) == ScanFrom(s, SkipSpace(s, start), unused, depth)
ScanAfter(s, value, end, close, unused, depth) ==
    CASE value.at = 0 -> InvalidLine
      [] value.at > 0 /\ CharAt(s, end) = close -> Scan(end + 1, value.cuts)
      [] value.at > 0 /\ CharAt(s, end) = "," ->
            WithCuts(value.cuts, ScanItems(s, SkipSpace(s, end + 1), close, unused, depth))
      [] OTHER -> InvalidLine
ScanItem(s, value, close, unused, depth) == ScanAfter(s, value, SkipSpace(s, value.at), close, unused, depth)
ScanMember(s, key, colon, unused, depth) ==
    IF CharAt(s, colon) # ":" THEN InvalidLine
    ELSE ScanItem(s, ScanValue(s, colon + 1, SpecAt(unused, key), depth), "}", unused, depth)
ScanKeyed(s, start, keyEnd, unused, depth) ==
    IF keyEnd = 0 THEN InvalidLine
    ELSE ScanMember(s, SubSeq(s, start + 1, keyEnd - 2), SkipSpace(s, keyEnd), unused, depth)
ScanItems(s, start, close, unused, depth) ==
    IF close = "}"
    THEN ScanKeyed(s, start, IF CharAt(s, start) = "q" THEN PlainEnd(s, start + 1) ELSE 0, unused, depth)
    ELSE ScanItem(s, ScanValue(s, start, unused, depth), close, unused, depth)

\* cutUnusedJsonStrings: the line without what is between the quotes of its cuts.
CutOut(s, cuts) ==
    LET kept == PlacesOf(s, LAMBDA i : \A k \in DOMAIN cuts : i <= cuts[k].from \/ i >= cuts[k].to)
    IN [k \in DOMAIN kept |-> s[kept[k]]]
CutWalked(s, walk) ==
    IF walk.at = 0 \/ SkipSpace(s, walk.at) # Len(s) + 1 THEN s ELSE CutOut(s, walk.cuts)
CutUnused(s, unused) == IF Len(s) < MinLine THEN s ELSE CutWalked(s, ScanValue(s, 1, unused, 0))

(***************************************************************************)
(* JSON.parse of the cut line fails exactly when it fails on the line, and *)
(* differs only in the long strings under unused, which are empty.         *)
(***************************************************************************)
CutsKeepTheRest(s, unused) ==
    IF IsJson(s) THEN CutUnused(s, unused) = IF Len(s) < MinLine THEN s ELSE Document(s, unused).out
    ELSE ~IsJson(CutUnused(s, unused))

----------------------------------------------------------------------------
(* HistoryModelScanner.  Tags share their first characters, as <model> and *)
(* </model> do, and nothing else holds "<" and another of their letters.   *)

OpenTag == <<"<", "e", "e">>
CloseTag == <<"<", "/", "e", "e">>
ModelOpen == <<"<", "m">>
ModelClose == <<"<", "/", "m">>
Overlap == Len(CloseTag) - 1

HistoryScan == [carried |-> <<>>, inBlock |-> FALSE, phase |-> "seek", textStart |-> 1, text |-> <<>>,
                block |-> <<"none">>, last |-> <<"none">>]
Carry(st, content, position) ==
    LET keepFrom == Max({position, Len(content) - Overlap + 1})
    IN [st EXCEPT !.carried = SubSeq(content, keepFrom, Len(content)),
                  !.text = IF st.inBlock /\ st.phase = "text"
                           THEN @ \o SubSeq(content, st.textStart, keepFrom - 1) ELSE @,
                  !.textStart = IF st.inBlock /\ st.phase = "text" THEN 1 ELSE @]
RECURSIVE ScanTags(_, _, _)
ScanTags(st, content, position) ==
    LET open == IndexOf(content, OpenTag, position)
        close == IndexOf(content, CloseTag, position)
        blockEnd == IF close = 0 THEN Len(content) + 1 ELSE close
        modelAt == IndexOf(content, ModelOpen, position)
        modelEnd == IndexOf(content, ModelClose, position)
    IN CASE ~st.inBlock /\ open = 0 -> Carry(st, content, position)
         [] ~st.inBlock /\ open > 0 ->
               ScanTags([st EXCEPT !.inBlock = TRUE, !.phase = "seek", !.text = <<>>, !.block = <<"none">>],
                        content, open + Len(OpenTag))
         [] st.inBlock /\ st.phase = "seek" /\ modelAt \in 1 .. blockEnd - 1 ->
               ScanTags([st EXCEPT !.phase = "text", !.textStart = modelAt + Len(ModelOpen)],
                        content, modelAt + Len(ModelOpen))
         [] st.inBlock /\ st.phase = "text" /\ modelEnd \in 1 .. blockEnd - 1 ->
               ScanTags([st EXCEPT !.phase = "done", !.text = <<>>,
                                   !.block = st.text \o SubSeq(content, st.textStart, modelEnd - 1)],
                        content, modelEnd + Len(ModelClose))
         [] OTHER ->
               IF close = 0 THEN Carry(st, content, position)
               ELSE ScanTags([st EXCEPT !.inBlock = FALSE, !.text = <<>>, !.last = st.block],
                             content, close + Len(CloseTag))
Feed(st, chunk) == ScanTags(st, st.carried \o chunk, 1)
ModelIn(s, n) == FoldLeft(Feed, HistoryScan, ChunksOf(s, n)).last

\* The same, of the tags and characters that the text is made of: the last close tag that
\* ends a block, the open tag that began it, the first model between.
ModelNamed(parts) ==
    LET Closed(j) == parts[j] = CloseTag /\
            \E i \in 1 .. j - 1 : parts[i] = OpenTag /\ \A k \in i .. j - 1 : parts[k] # CloseTag
        last == Max({j \in DOMAIN parts : Closed(j)})
        first == Min({i \in 1 .. last : parts[i] = OpenTag /\ \A k \in i .. last - 1 : parts[k] # CloseTag})
        models == {m \in first .. last : parts[m] = ModelOpen}
        ends == {m \in Min(models) .. last : parts[m] = ModelClose}
    IN IF \A j \in DOMAIN parts : ~Closed(j) THEN <<"none">>
       ELSE IF models = {} \/ ends = {} THEN <<"none">>
       ELSE FlattenSeq(SubSeq(parts, Min(models) + 1, Min(ends) - 1))

(* The model is that of the last block that closed, in whatever chunks the
   history was read.                                                        *)
ModelWhateverChunks(parts) == \A n \in ChunkSizes : ModelIn(FlattenSeq(parts), n) = ModelNamed(parts)

----------------------------------------------------------------------------
(* readFrameSlices.                                                        *)

Magic == <<0, 1, 2>>
Damaged == <<>>
FrameScan == [slice |-> <<>>, dropped |-> 0, magic |-> "unknown", out |-> <<>>]
RECURSIVE CutFrames(_, _)
CutFrames(st, searchFrom) ==
    LET known == IF st.magic # "unknown" \/ Len(st.slice) < Len(Magic) THEN st.magic
                 ELSE IF SubSeq(st.slice, 1, Len(Magic)) = Magic THEN "yes" ELSE "no"
        next == IndexOf(st.slice, Magic, searchFrom)
        kept == Len(Magic) - 1
        surplus == IF known = "no" /\ Len(st.slice) > kept THEN Len(st.slice) - kept ELSE 0
    IN IF next > 0
       THEN CutFrames([slice |-> SubSeq(st.slice, next, Len(st.slice)), dropped |-> 0, magic |-> "yes",
                       out |-> Append(st.out, IF known = "yes" THEN SubSeq(st.slice, 1, next - 1) ELSE Damaged)],
                      Len(Magic) + 1)
       ELSE [st EXCEPT !.magic = known, !.dropped = @ + surplus,
                       !.slice = SubSeq(@, surplus + 1, Len(@))]
\* What was searched before is not searched again, but for a magic that goes on here.
ReadBytes(st, chunk) ==
    CutFrames([st EXCEPT !.slice = @ \o chunk],
              1 + Max({Len(Magic) - st.dropped, Len(st.slice) - (Len(Magic) - 1)}))
SlicesIn(s, n) ==
    LET end == FoldLeft(ReadBytes, FrameScan, ChunksOf(s, n))
    IN end.out \o IF Len(end.slice) + end.dropped = 0 THEN <<>>
                  ELSE IF end.magic = "yes" THEN <<end.slice>> ELSE <<Damaged>>

\* A frame starts where a magic does, but not in the first bytes of damage; what comes
\* before the first is damage.
FramesOf(s) ==
    LET frames == PlacesOf(s, LAMBDA i : IndexOf(s, Magic, i) = i /\ i \notin 2 .. Len(Magic))
        Until(k) == IF k = Len(frames) THEN Len(s) ELSE frames[k + 1] - 1
    IN (IF s # <<>> /\ 1 \notin ToSet(frames) THEN <<Damaged>> ELSE <<>>)
       \o [k \in DOMAIN frames |-> SubSeq(s, frames[k], Until(k))]

(* Every frame of a log is found whole, and damage before the first is told
   once, in whatever chunks the log was read.                               *)
FramesWhateverChunks(s) == \A n \in ChunkSizes : SlicesIn(s, n) = FramesOf(s)
=============================================================================
