----------------------------- MODULE AISummary -----------------------------
(***************************************************************************)
(* The AI panel: AISummary.tsx with the two streaming calls of api.ts, and *)
(* the chat sessions of ai_summary.py that answer them.  An analysis and a *)
(* chat answer arrive through calls of their own, and only the send button *)
(* looks at both.  Which days are chosen and what is typed is left out.    *)
(***************************************************************************)
EXTENDS EventStream

CONSTANTS
    Answers,        \* what the model may say: sequences of tokens, each of pieces
    Cut,            \* bound: a body is cut after multiples of Cut pieces, or at its end
    MaxSessions,    \* bound: chat sessions
    MaxChats        \* bound: chat messages

\* The pieces that answers are made of.
Said == UNION {UNION {Range(token) : token \in Range(answer)} : answer \in Answers}

ASSUME AIAssumption ==
    /\ MaxSessions \in Nat /\ MaxChats \in Nat /\ Cut \in Nat \ {0}
    /\ Answers \subseteq Seq(Seq(Said)) /\ Session \notin Said

VARIABLES
    available,      \* what the health request said
    selected,       \* selectedTickers is not empty
    streaming,      \* the switch
    generating, streamedText, result, aiError,
    gen,            \* the call for an analysis
    chatMessages, chatSession, chatStreaming, chatStreamedText, chatStreamed,
    chat,           \* the call for a chat answer
    history,        \* messages of each session on the server
    sessions,       \* sessions it still has
    asked,          \* chat messages so far
    crossed         \* observed: this analysis was asked for during a chat answer

environment == <<available, selected>>
analysis == <<generating, streamedText, result, aiError, gen>>
bubble == <<chatStreaming, chatStreamedText, chatStreamed>>
conversation == <<chatMessages, chatSession, bubble, chat>>
memory == <<history, sessions>>
aiVars == <<environment, streaming, analysis, conversation, memory, asked, crossed>>

NoCall == [state |-> "none"]
NoResult == <<>>
NoSession == 0

\* What the server writes of each answer.
AnalysisBody == [tokens \in Answers |-> Body(<<>>, tokens)]
ChatBody == [tokens \in Answers |-> Body(<<<<Session>>>>, tokens)]
Bodies == {AnalysisBody[a] : a \in Answers} \cup {ChatBody[a] : a \in Answers}

\* What one turn of readNext makes of any part of a body.
TookOf ==
    [text \in UNION {{SubSeq(b, m, n) : m \in 1 .. Len(b) + 1, n \in 0 .. Len(b)} : b \in Bodies}
        |-> Took(text)]

\* Mutant: what follows the last line end of a chunk is dropped.
FeedForgets(buffer, chunk) == TookOf[chunk]

\* buffer += chunk
Feed(buffer, chunk) == TookOf[buffer \o chunk]

Analysis(tokens) == [state |-> "reading", body |-> AnalysisBody[tokens], at |-> 0, buffer |-> <<>>]
Plain(tokens) == [state |-> "plain", text |-> FlattenSeq(tokens)]
Question(n) == [state |-> "sent", number |-> n, session |-> chatSession]

User(n) == [role |-> "user", number |-> n, text |-> <<>>]
Assistant(n, text) == [role |-> "assistant", number |-> n, text |-> text]
Failed(n) == [role |-> "error", number |-> n, text |-> <<>>]

AIInit ==
    /\ available = "unknown" /\ selected = FALSE /\ streaming = TRUE
    /\ generating = FALSE /\ streamedText = <<>> /\ result = NoResult /\ aiError = FALSE
    /\ gen = NoCall
    /\ chatMessages = <<>> /\ chatSession = NoSession
    /\ chatStreaming = FALSE /\ chatStreamedText = <<>> /\ chatStreamed = <<>>
    /\ chat = NoCall
    /\ history = [s \in 1 .. MaxSessions |-> <<>>] /\ sessions = {}
    /\ asked = 0 /\ crossed = FALSE

-----------------------------------------------------------------------------
(* What is on screen.                                                      *)

\* text.indexOf(tag), from 1, and 0 if it is not there.
Where(text, tag) == SelectInSeq(text, LAMBDA p : p = tag)

\* parseThinkTags: what is between the first tags, and what follows the second.
ParseThink(text) ==
    LET open == Where(text, "<think>")
        close == Where(text, "</think>")
    IN  CASE open = 0  -> [thinking |-> <<>>, response |-> text, done |-> FALSE]
          [] open # 0 /\ close = 0 ->
                [thinking |-> SubSeq(text, open + 1, Len(text)), response |-> <<>>, done |-> FALSE]
          [] OTHER -> [thinking |-> SubSeq(text, open + 1, close - 1),
                       response |-> SubSeq(text, close + 1, Len(text)), done |-> TRUE]

DisplayText == IF streaming THEN streamedText ELSE result
HasOutput == DisplayText # <<>>

\* A text of an answer: its thinking, and the rest of it, or all if it has none.
Shown(text) ==
    LET parsed == ParseThink(text)
    IN  [thinking |-> parsed.thinking,
         response |-> IF parsed.thinking # <<>> THEN parsed.response ELSE text]

Output == Shown(DisplayText)

\* The parts of the panel that are there.
Panes ==
    {pane \in {"error", "waiting", "thinking", "response", "meta", "chat", "empty"} :
        CASE pane = "error"    -> aiError
          [] pane = "waiting"  -> generating /\ ~HasOutput
          [] pane = "thinking" -> HasOutput /\ Output.thinking # <<>>
          [] pane = "response" -> HasOutput /\ Output.response # <<>>
          [] pane = "meta"     -> result # NoResult
          [] pane = "chat"     -> HasOutput
          [] pane = "empty"    -> ~HasOutput /\ ~generating /\ ~aiError}

\* The conversation below the output, and the answer that is being received.
Transcript == IF HasOutput THEN chatMessages ELSE <<>>
Bubble == IF Transcript # <<>> /\ chatStreaming THEN Shown(chatStreamedText) ELSE Shown(<<>>)

\* The Generate button and the input of the conversation.
GenerateEnabled == ~generating /\ available # "down" /\ selected

\* Mutant: a second question may be sent before the first is answered.
ChatEnabledAlways == "chat" \in Panes /\ ~generating

ChatEnabled == "chat" \in Panes /\ ~chatStreaming /\ ~generating

-----------------------------------------------------------------------------
(* What the panel loads and the user chooses.                              *)

HealthArrives ==
    /\ available = "unknown" /\ available' \in {"up", "down"}
    /\ UNCHANGED <<selected, streaming, analysis, conversation, memory, asked, crossed>>

\* The ticker list arrives and the first five are selected; they are again as soon as
\* nothing is, so Deselect All leaves a selection as well.
TickersSelected ==
    /\ ~selected /\ selected' = TRUE
    /\ UNCHANGED <<available, streaming, analysis, conversation, memory, asked, crossed>>

SwitchStreaming ==
    /\ streaming' = ~streaming
    /\ UNCHANGED <<environment, analysis, conversation, memory, asked, crossed>>

-----------------------------------------------------------------------------
(* The analysis.                                                           *)

\* Mutant: the new conversation goes on in the session of the old one.
SameSession == chatSession

\* setChatSessionId(null)
NextSession == NoSession

\* handleGenerate up to its await: a new analysis, an empty conversation.  A chat
\* answer that is being received stays under way.
Generate ==
    /\ GenerateEnabled
    /\ generating' = TRUE /\ streamedText' = <<>> /\ result' = NoResult /\ aiError' = FALSE
    /\ gen' \in {IF streaming THEN Analysis(a) ELSE Plain(a) : a \in Answers}
    /\ chatMessages' = <<>> /\ chatSession' = NextSession /\ chatStreamedText' = <<>>
    /\ crossed' = chatStreaming
    /\ UNCHANGED <<environment, streaming, chatStreaming, chatStreamed, chat, memory, asked>>

\* How far the body of a call may have been read once its next chunk is in.
ReadTo(call, length) == {n \in call.at + 1 .. length : n % Cut = 0 \/ n = length}

\* A chunk: the tokens of its lines are appended, the end marker ends it.
ReadAnalysis ==
    /\ gen.state = "reading"
    /\ \E n \in ReadTo(gen, Len(gen.body)) :
       LET fed == Feed(gen.buffer, SubSeq(gen.body, gen.at + 1, n))
       IN  /\ streamedText' = streamedText \o fed.text
           /\ generating' = ~fed.done
           /\ gen' = IF fed.done THEN NoCall
                                 ELSE [gen EXCEPT !.at = n, !.buffer = fed.buffer]
    /\ UNCHANGED <<environment, streaming, result, aiError, conversation, memory, asked, crossed>>

\* The answer of the call that does not stream.
AnalysisArrives ==
    /\ gen.state = "plain"
    /\ result' = gen.text /\ generating' = FALSE /\ gen' = NoCall
    /\ UNCHANGED <<environment, streaming, streamedText, aiError, conversation, memory, asked, crossed>>

\* Mutant: only the marker ends an analysis.
CutIgnored == UNCHANGED generating

\* onDone is called without the marker as well.
CutMeansDone == generating' = FALSE

\* The body ended without its marker: the same as the end.
AnalysisCut ==
    /\ gen.state = "reading"
    /\ CutMeansDone
    /\ gen' = NoCall
    /\ UNCHANGED <<environment, streaming, streamedText, result, aiError, conversation, memory,
                   asked, crossed>>

\* The call or a read of its body is rejected.
AnalysisFails ==
    /\ gen # NoCall
    /\ aiError' = TRUE /\ generating' = FALSE /\ gen' = NoCall
    /\ UNCHANGED <<environment, streaming, streamedText, result, conversation, memory, asked,
                   crossed>>

-----------------------------------------------------------------------------
(* The conversation.                                                       *)

\* handleSendChat up to its await.
SendChat ==
    /\ ChatEnabled /\ asked < MaxChats
    /\ asked' = asked + 1
    /\ chatMessages' = Append(chatMessages, User(asked'))
    /\ chatStreaming' = TRUE /\ chatStreamedText' = <<>> /\ chatStreamed' = <<>>
    /\ chat' = Question(asked')
    /\ UNCHANGED <<environment, streaming, analysis, chatSession, memory, crossed>>

Fresh == Cardinality({s \in DOMAIN history : history[s] # <<>>}) + 1

\* chat_stream_session: the session asked for, or a new one if the server has it
\* no more, takes the message before the model is asked.
ServerTakesChat ==
    /\ chat.state = "sent"
    /\ \E tokens \in Answers :
       LET s == IF chat.session \in sessions THEN chat.session ELSE Fresh
       IN  /\ s \in DOMAIN history
           /\ history' = [history EXCEPT ![s] = Append(@, User(chat.number))]
           /\ sessions' = sessions \cup {s}
           /\ chat' = [state |-> "reading", number |-> chat.number, session |-> s,
                       body |-> ChatBody[tokens], at |-> 0, buffer |-> <<>>,
                       answered |-> FALSE]
    /\ UNCHANGED <<environment, streaming, analysis, chatMessages, chatSession, bubble, asked,
                   crossed>>

\* The model has said all: the session takes the answer, the end marker follows.
ServerAnswers ==
    /\ chat.state = "reading" /\ ~chat.answered
    /\ history' = [history EXCEPT ![chat.session] = Append(@, Assistant(chat.number, <<>>))]
    /\ chat' = [chat EXCEPT !.answered = TRUE]
    /\ UNCHANGED <<environment, streaming, analysis, chatMessages, chatSession, bubble, sessions,
                   asked, crossed>>

\* Mutant: the message is made of the text in the bubble.
FromBubble(text) == chatStreamedText \o SubSeq(text, Len(chatStreamed) + 1, Len(text))

\* The text of the message: chatStreamedRef, not the state of the bubble.
FinalText(text) == text

\* onDone: the answer joins the conversation that is on screen by now.
EndChat(text) ==
    /\ chatMessages' = Append(chatMessages, Assistant(chat.number, FinalText(text)))
    /\ chatStreaming' = FALSE /\ chatStreamedText' = <<>> /\ chatStreamed' = <<>>
    /\ chat' = NoCall

\* The end marker is written after the session took the answer.
Written(call) == Len(call.body) - IF call.answered THEN 0 ELSE Len(Event(<<Done>>))

\* A chunk: the first payload is the session's id, the others are tokens.
ReadChat ==
    /\ chat.state = "reading"
    /\ \E n \in ReadTo(chat, Written(chat)) :
       LET fed == Feed(chat.buffer, SubSeq(chat.body, chat.at + 1, n))
       IN  /\ chatSession' = (IF fed.named THEN chat.session ELSE chatSession)
           /\ IF fed.done
              THEN EndChat(chatStreamed \o fed.text)
              ELSE /\ chatStreamed' = chatStreamed \o fed.text
                   /\ chatStreamedText' = chatStreamedText \o fed.text
                   /\ chat' = [chat EXCEPT !.at = n, !.buffer = fed.buffer]
                   /\ UNCHANGED <<chatMessages, chatStreaming>>
    /\ UNCHANGED <<environment, streaming, analysis, memory, asked, crossed>>

\* The body ended without its marker.
ChatCut ==
    /\ chat.state = "reading"
    /\ EndChat(chatStreamed)
    /\ UNCHANGED <<environment, streaming, analysis, chatSession, memory, asked, crossed>>

\* The call or a read of its body is rejected.
ChatFails ==
    /\ chat # NoCall
    /\ chatMessages' = Append(chatMessages, Failed(chat.number))
    /\ chatStreaming' = FALSE /\ chatStreamedText' = <<>> /\ chatStreamed' = <<>>
    /\ chat' = NoCall
    /\ UNCHANGED <<environment, streaming, analysis, chatSession, memory, asked, crossed>>

\* The hour of a session is over, or the server restarts.
SessionEnds ==
    /\ \E s \in sessions : sessions' = sessions \ {s}
    /\ UNCHANGED <<environment, streaming, analysis, conversation, history, asked, crossed>>

-----------------------------------------------------------------------------

AnalysisStep == ReadAnalysis \/ AnalysisArrives \/ AnalysisCut \/ AnalysisFails
ChatStep == ServerTakesChat \/ ServerAnswers \/ ReadChat \/ ChatCut \/ ChatFails

AINext ==
    \/ HealthArrives \/ TickersSelected \/ SwitchStreaming \/ Generate
    \/ AnalysisStep \/ SendChat \/ ChatStep \/ SessionEnds

\* A call is answered or fails: the server bounds its wait for the model.
AISpec == AIInit /\ [][AINext]_aiVars /\ WF_aiVars(AnalysisStep) /\ WF_aiVars(ChatStep)

-----------------------------------------------------------------------------
(* Properties.                                                             *)

\* Every part of the panel is well typed, and a flag is set exactly while its call runs.
AITypeOK ==
    /\ available \in {"unknown", "up", "down"}
    /\ {selected, streaming, generating, aiError, chatStreaming, crossed} \subseteq BOOLEAN
    /\ generating <=> gen.state # "none"
    /\ chatStreaming <=> chat.state # "none"
    /\ chatSession \in 0 .. MaxSessions /\ sessions \subseteq 1 .. MaxSessions
    /\ asked \in 0 .. MaxChats
    /\ \A i \in DOMAIN chatMessages : chatMessages[i].role \in {"user", "assistant", "error"}

Untagged(text) == Without(text, {"<think>", "</think>"})

\* Where the part of a text begins that is on screen: what comes before the thinking is
\* not.
ShownFrom(text) == IF ParseThink(text).thinking = <<>> THEN 1 ELSE Where(text, "<think>")

\* The text that is heard in the first pieces of each answer.
HeardBy ==
    [body \in Bodies |-> [n \in 0 .. Len(body) |-> Heard(SubSeq(body, 1, n))]]

\* However the network cuts a stream, the text received is that of the lines received,
\* each once and in order, and the output shows all of it from its thinking on, then the
\* response.
NothingLost ==
    /\ gen.state = "reading" =>
          /\ streamedText = HeardBy[gen.body][gen.at]
          /\ streaming =>
                Untagged(Output.thinking \o Output.response) =
                    Untagged(SubSeq(streamedText, ShownFrom(streamedText), Len(streamedText)))
    /\ chat.state = "reading" => chatStreamed = HeardBy[chat.body][chat.at]

Questions(messages) == {messages[i].number : i \in {j \in DOMAIN messages : messages[j].role = "user"}}

\* Unless an analysis was asked for during a chat answer, the conversation on screen
\* is its own: questions and answers in turn, the last question open exactly while its
\* answer is being received and the bubble shows all of that; and what the
\* server will put before the next question was asked on this screen.
ConversationInTurn ==
    ~crossed =>
        /\ \A i \in DOMAIN chatMessages :
              /\ (chatMessages[i].role = "user") <=> (i % 2 = 1)
              /\ i % 2 = 0 => chatMessages[i].number = chatMessages[i - 1].number
        /\ chatStreaming <=> (Len(chatMessages) % 2 = 1)
        /\ chatStreaming => chatStreamedText = chatStreamed
        /\ chatSession # NoSession => Questions(history[chatSession]) \subseteq Questions(chatMessages)

\* An answer that joins a conversation, be it another one by now, is all that was
\* received of it, up to the marker or to where it was cut, whatever the bubble lost.
AnswerWhole ==
    [][chat.state = "reading" /\ chat' = NoCall /\ Last(chatMessages').role = "assistant" =>
        Last(chatMessages').text \in
            {HeardBy[chat.body][n] : n \in {chat.at, Len(chat.body)}}]_aiVars

\* Every call ends and its button is usable again.
Unlocks == /\ generating ~> ~generating
           /\ chatStreaming ~> ~chatStreaming
=============================================================================
