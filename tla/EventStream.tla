---------------------------- MODULE EventStream ----------------------------
(***************************************************************************)
(* The event stream of an AI answer: how the server writes its tokens and  *)
(* how streamAiSummary and streamAiChat read them back from chunks cut     *)
(* anywhere.  A text is a sequence of pieces: words, line ends and tags.   *)
(***************************************************************************)
EXTENDS Selection, SequencesExt

NL == "newline"
Data == "data: "
Done == "[DONE]"
Session == "session id"

\* f"data: {token}\n\n": a line end inside the token is written as it is.
Event(token) == <<Data>> \o token \o <<NL, NL>>

\* The body of an answer: the events before, its tokens, the end marker.
Body(first, tokens) ==
    FlattenSeq([i \in DOMAIN first |-> Event(first[i])])
        \o FlattenSeq([i \in DOMAIN tokens |-> Event(tokens[i])])
        \o Event(<<Done>>)

-----------------------------------------------------------------------------
(* The lines of a text, each by the position of its line end.              *)

LineEnds(s) == {e \in DOMAIN s : s[e] = NL}

\* Where the line begins that position e is in or ends.
LineStart(s, e) == Max({0} \cup {i \in LineEnds(s) : i < e}) + 1

\* buffer.split("\n") and lines.pop(): what follows the last line end.
Rest(s) == SubSeq(s, LineStart(s, Len(s) + 1), Len(s))

\* line.startsWith("data: "): other lines, and the rest of a token after a line end of
\* its own, are skipped.
DataLines(s) == {e \in LineEnds(s) : s[LineStart(s, e)] = Data}

\* line.slice(6)
Payload(s, e) == SubSeq(s, LineStart(s, e) + 1, e - 1)

\* The loop returns at the first end marker.
Markers(s) == {e \in DataLines(s) : Payload(s, e) = <<Done>>}
Read(s) == {e \in DataLines(s) : \A m \in Markers(s) : e < m}

\* The payload that is the session's id, and those that are tokens.
Ids(s) == {e \in Read(s) : Payload(s, e) = <<Session>>}
Tokens(s) == Read(s) \ Ids(s)

\* The text of the tokens, one after the other.
TextAt(s) == {i \in DOMAIN s : \E e \in Tokens(s) : i \in LineStart(s, e) + 1 .. e - 1}
Heard(s) == Selected(s, TextAt(s))

\* What one turn of readNext makes of the text it has.
Took(text) ==
    [buffer |-> Rest(text),
     text   |-> Heard(text),
     named  |-> Ids(text) # {},
     done   |-> Markers(text) # {}]
=============================================================================
