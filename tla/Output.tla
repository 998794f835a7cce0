-------------------------------- MODULE Output --------------------------------
(***************************************************************************)
(* One section of the output in the text buffer, as gui/output.py writes   *)
(* it: data come in chunks cut anywhere, a carriage return makes the last  *)
(* line be overwritten, and a newline of the section's own keeps it ended  *)
(* by one.  A character is "a" (a letter, or any that is shown), "n"       *)
(* (newline), "r" (carriage return), "[" (the two that begin an ANSI       *)
(* escape, which goes on to a letter), "e" (never shown: a NUL, or what is *)
(* of an escape) or, in the buffer only, "b": the '\r' that breaks a long  *)
(* line.                                                                   *)
(***************************************************************************)
EXTENDS Integers, Sequences, SequencesExt

CONSTANTS
  Chars,      \* the characters the subprocess writes
  BreakLen,   \* BREAK_LEN
  MaxStream   \* bound on what is written in a section

VARIABLES
  text,                \* the section's characters in the buffer
  addedNewline,        \* added_newline: the last of them is not of the output
  wasSomethingWritten, \* was_something_written
  isCr,                \* is_cr
  executing,           \* is_executing: no result is shown yet in this section
  stream, cut,         \* all that was written in this section, and whether an escape in it
                       \* was cut, kept for the properties
  raised               \* the assertions that write() failed: "newline", "tag"

ConstantsFit ==
  /\ {"a", "n"} \subseteq Chars /\ Chars \subseteq {"a", "n", "r", "e", "["}
  /\ BreakLen \in Nat \ {0} /\ MaxStream \in Nat

vars == <<text, addedNewline, wasSomethingWritten, isCr, executing, stream, cut, raised>>

Ends(s, c) == s # <<>> /\ Last(s) = c

Starts(s, c) == s # <<>> /\ Head(s) = c

\* The place of the last of some characters in a string, 0 if it has none of them.
LastPlace(s, cs) ==
  CHOOSE i \in 0 .. Len(s) :
    /\ i > 0 => s[i] \in cs
    /\ \A j \in i + 1 .. Len(s) : s[j] \notin cs

TypeOK ==
  /\ text \in Seq({"a", "n", "b"}) /\ stream \in Seq(Chars)
  /\ {addedNewline, wasSomethingWritten, isCr, executing, cut} \subseteq BOOLEAN
  /\ raised \subseteq {"newline", "tag"}

Init ==
  /\ text = <<>> /\ addedNewline = FALSE /\ wasSomethingWritten = FALSE /\ isCr = FALSE
  /\ executing = FALSE /\ stream = <<>> /\ cut = FALSE /\ raised = {}

\* Mutations of the definitions that follow, each the mark of a plausible slip
\* in the code, have an underscore in their names and are used by no other
\* definition: TLC refutes a property with each of them.

\* The return of a Windows newline is taken for one that overwrites the line.
Cleaned_unix(data) ==
  LET left[i \in 0 .. Len(data)] ==
        IF i = 0 THEN <<>>
        ELSE IF data[i] = "e" THEN left[i - 1] ELSE Append(left[i - 1], data[i])
  IN  left[Len(data)]

\* An escape begins where there is none, and goes on to a letter, or to the second character
\* that begins another.
InEscape(was, c) == IF was THEN c \notin {"a", "["} ELSE c = "["

Inside(s) ==
  LET in[i \in 0 .. Len(s)] == IF i = 0 THEN FALSE ELSE InEscape(in[i - 1], s[i])
  IN  in

\* Does the string end before its last escape does?
EndsInside(s) == Inside(s)[Len(s)]

\* ansi_escape_re: what is of an escape that ends; the beginning of one that does not is shown.
Marked(s) ==
  LET in == Inside(s)
  IN  [i \in 1 .. Len(s) |->
         IF (in[i - 1] \/ in[i]) /\ \E j \in i .. Len(s) : ~in[j] THEN "e"
         ELSE IF s[i] = "[" THEN "a" ELSE s[i]]

\* Is the i-th character the carriage return of a Windows newline?
OfNewline(data, i) == data[i] = "r" /\ i < Len(data) /\ data[i + 1] = "n"

\* The carriage returns of Windows newlines go before anything is looked at, then the escapes
\* (which have both characters of such a newline or none) and NULs.
Clean(s, data, i) == IF data[i] = "e" \/ OfNewline(data, i) THEN s ELSE Append(s, data[i])

Cleaned(data) ==
  LET left[i \in 0 .. Len(data)] == IF i = 0 THEN <<>> ELSE Clean(left[i - 1], data, i)
  IN  left[Len(data)]

\* Everything after the last newline of the section.
LastLineDeleted(s) == SubSeq(s, 1, LastPlace(s, {"n"}))

\* remove_cr_re is left out: the first line only is cut.
Displayed_first(data) ==
  LET shown[i \in 0 .. Len(data)] ==
        IF i = 0 THEN <<>>
        ELSE IF data[i] = "r" /\ LastPlace(shown[i - 1], {"n"}) = 0 THEN <<>>
        ELSE Append(shown[i - 1], data[i])
  IN  shown[Len(data)]

\* remove_cr_re and the cut at cr_pos: what is overwritten within the data.
Display(s, c) == IF c = "r" THEN LastLineDeleted(s) ELSE Append(s, c)

Displayed(data) ==
  LET shown[i \in 0 .. Len(data)] == IF i = 0 THEN <<>> ELSE Display(shown[i - 1], data[i])
  IN  shown[Len(data)]

\* get_line_offset() at the end of a text: both kinds of line ends count.
Col(s) == Len(s) - LastPlace(s, {"n", "b"})

\* The column is taken to be 0 at the beginning of the data.
Broken_fresh(s, data) ==
  LET written[i \in 0 .. Len(data)] ==
        IF i = 0 THEN s
        ELSE IF data[i] # "n" /\ Col(SubSeq(written[i - 1], Len(s) + 1, Len(written[i - 1]))) = BreakLen
        THEN written[i - 1] \o <<"b", data[i]>>
        ELSE Append(written[i - 1], data[i])
  IN  written[Len(data)]

\* addbreaks: what follows a text is broken where a line is BreakLen long, before its next
\* character.
Break(s, c) == IF c # "n" /\ Col(s) = BreakLen THEN s \o <<"b", c>> ELSE Append(s, c)

Broken(s, data) ==
  LET written[i \in 0 .. Len(data)] == IF i = 0 THEN s ELSE Break(written[i - 1], data[i])
  IN  written[Len(data)]

\* The text once the newline of the section's own is gone.
Own == IF addedNewline /\ text # <<>> THEN Front(text) ELSE text

\* The newline that onnewline asks for is not the one that was just deleted.
Data_own(chunk, onnewline) == chunk

Data(chunk, onnewline) ==
  IF addedNewline /\ onnewline THEN <<"n">> \o chunk ELSE chunk

\* Does the data overwrite the last line of the section?
Overwrites(d) ==
  /\ (isCr /\ ~Starts(d, "n")) \/ \E i \in 1 .. Len(d) : d[i] = "r" /\ \A j \in 1 .. i : d[j] # "n"
  /\ wasSomethingWritten

\* Nothing is added to data that come to nothing.
Insert_empty(d, kept, trailingCr) ==
  LET shown == Displayed(d)
  IN  /\ addedNewline' = (shown # <<>> /\ ~Ends(shown, "n"))
      /\ text' = Broken(kept, shown) \o IF addedNewline' THEN <<"n">> ELSE <<>>
      /\ isCr' = trailingCr /\ wasSomethingWritten' = TRUE
      /\ UNCHANGED raised

\* The data follow what is kept of the section, with a newline if they lack one.
Insert(d, kept, trailingCr) ==
  LET shown == Displayed(d)
  IN  /\ addedNewline' = ~Ends(shown, "n")
      /\ text' = Broken(kept, shown) \o IF addedNewline' THEN <<"n">> ELSE <<>>
      /\ isCr' = trailingCr /\ wasSomethingWritten' = TRUE
      /\ UNCHANGED raised

\* With nothing in the section there is no tagged text whose beginning the
\* search for the last line could stop at: the assertion fails, with the
\* section's own newline deleted and the data lost.
Raise(d) ==
  /\ text' = Own /\ addedNewline' = FALSE
  /\ isCr' = (isCr /\ ~Starts(d, "n")) /\ raised' = raised \cup {"tag"}
  /\ UNCHANGED wasSomethingWritten

\* The section's own newline is not where it was added: nothing is written.
RaiseFirst ==
  /\ raised' = raised \cup {"newline"}
  /\ UNCHANGED <<text, addedNewline, wasSomethingWritten, isCr>>

\* write(): "chunk" is not empty.
Write(chunk, onnewline) ==
  LET data == Cleaned(Marked(Data(chunk, onnewline)))
      d    == IF Ends(data, "r") THEN Front(data) ELSE data
  IN  /\ stream' = stream \o Data(chunk, onnewline) /\ Len(stream') <= MaxStream
      /\ cut' = (cut \/ EndsInside(Data(chunk, onnewline)))
      /\ IF addedNewline /\ text = <<>> THEN RaiseFirst
         ELSE IF Overwrites(d) /\ Own = <<>> THEN Raise(d)
         ELSE Insert(d, IF Overwrites(d) THEN LastLineDeleted(Own) ELSE Own, Ends(data, "r"))

\* Standard output and error, cut anywhere.
WriteChunk ==
  /\ \E chunk \in BoundedSeq(Chars, MaxStream - Len(stream)) \ {<<>>} : Write(chunk, FALSE)
  /\ UNCHANGED executing

\* on_object_recv: the result of the code begins on a line of its own.
WriteResult ==
  /\ executing /\ executing' = FALSE
  /\ Write(<<"a", "n">>, TRUE)

\* A command was accepted: the mark moves to the end of the buffer.
StartNewSection ==
  /\ text' = <<>> /\ addedNewline' = FALSE /\ wasSomethingWritten' = FALSE /\ isCr' = FALSE
  /\ executing' = TRUE /\ stream' = <<>> /\ cut' = FALSE /\ raised' = {}

\* send_stdin(): a typed line is written without breaks, and ends the section; an assertion
\* that write() fails keeps it from being sent.
SendStdin ==
  /\ executing
  /\ \E line \in {<<"n">>, <<"a", "n">>} :
       IF Overwrites(line) /\ Own = <<>> THEN Write(line, FALSE) /\ UNCHANGED executing
       ELSE StartNewSection

\* discard_hist_before_tag(): the section goes with all that is above the prompt,
\* and what Output knows of it stays.
Discard ==
  /\ ~executing
  /\ text' = <<>> /\ stream' = <<>> /\ cut' = FALSE
  /\ UNCHANGED <<addedNewline, wasSomethingWritten, isCr, executing, raised>>

Writing == WriteChunk \/ WriteResult \/ SendStdin \/ StartNewSection

Next == Writing \/ Discard

Spec == Init /\ [][Next]_vars

-------------------------------------------------------------------------------
\* What a section is to show, by the rules of the documentation in tags.py and
\* of the comments in output.py: a carriage return does nothing until it is
\* known what follows it; a character that does overwrites the whole line.
Put(t, c) ==
  CASE c = "n" -> [shown |-> Append(t.shown, c), cr |-> FALSE]
    [] c = "r" -> [t EXCEPT !.cr = TRUE]
    [] c = "e" -> t
    [] c = "a" -> [shown |-> Append(IF t.cr THEN LastLineDeleted(t.shown) ELSE t.shown, c), cr |-> FALSE]

Screen(s) ==
  LET screen[i \in 0 .. Len(s)] ==
        IF i = 0 THEN [shown |-> <<>>, cr |-> FALSE] ELSE Put(screen[i - 1], s[i])
  IN  screen[Len(s)]

\* A stream that begins with what is shown, and in which no carriage return is
\* followed by another one or an escape.
Regular(s) ==
  /\ \A i \in 1 .. Len(s) - 1 : s[i] = "r" => s[i + 1] \in {"a", "n"}
  /\ Starts(s, "a") \/ Starts(s, "n")

\* A text without the breaks of its long lines.
KeepUnlessBreak(s, c) == IF c = "b" THEN s ELSE Append(s, c)

Unbroken(s) ==
  LET left[i \in 0 .. Len(s)] == IF i = 0 THEN <<>> ELSE KeepUnlessBreak(left[i - 1], s[i])
  IN  left[Len(s)]

\* Wherever a stream is cut, but within an escape, the section shows what the stream says,
\* and not a character of it more or less: no escape is shown, and the breaks and the newline
\* of the section's own are all that write() adds.
ShowsStream ==
  Regular(Marked(stream)) /\ ~cut => Unbroken(Own) = Screen(Marked(stream)).shown

\* "There's always a '\n' after the output section ... (unless nothing was
\* written)" (tags.py), in whatever pieces it was written, unless write() raised.
EndsWithNewline == (stream # <<>> /\ raised = {}) => Ends(text, "n")

\* No line of output is longer than BREAK_LEN, though the lines that are written piece by
\* piece are.  (What is typed as standard input, at the end of a section, is not broken.)
LinesAreBroken ==
  \A i, j \in 1 .. Len(text) : (i <= j /\ \A k \in i .. j : text[k] = "a") => j - i < BreakLen

\* A result begins on a line of its own, whatever was written before it.
ResultOnNewLine ==
  [][WriteResult /\ raised' = {} => (Len(text') = 2 \/ text'[Len(text') - 2] = "n")]_vars
===============================================================================
