----------------------------- MODULE ApiFormats -----------------------------
(***************************************************************************)
(* The formats of the two buyer interfaces, in four parts that share no    *)
(* state: the facade of /v1/responses, the validation of a chat request    *)
(* (prefix chat), tool calls in an event stream (prefix tool) and the      *)
(* filter of thinking text (prefix think).                                 *)
(***************************************************************************)
EXTENDS Integers, Sequences, FiniteSets, SequencesExt

-----------------------------------------------------------------------------
(***************************************************************************)
(* The /v1/responses facade: the request becomes a chat completion, and    *)
(* the chat answer, whole or as a stream of chunks, becomes a response of  *)
(* items with their own lifecycle of events.  The chat handler feeds the   *)
(* adapter: after an error frame the proxy drops content, after a plain    *)
(* [DONE] it does not, and a second terminal frame may follow either.      *)
(***************************************************************************)

CONSTANTS ToolIndexes, MaxChunks, Names

VARIABLES
    req,        \* the request as it was sent
    chat,       \* the chat request made of it; "rejected", or "none" before
    status,     \* what the chat handler answered with; 0 before it did
    sent,       \* events written to the buyer
    msg,        \* output index of the message item, or -1
    tool,       \* tool call index -> its output index, for those seen
    held,       \* the think filter holds back text that may start a tag
    reason,     \* last finish reason
    terminal,   \* streamTerminal
    werr,       \* writeErr
    capture,    \* bytes captured for replay: off, whole, over, lost
    feed,       \* chunks fed so far, whether an error frame was among them,
                \* and whether a chunk came after the end of the stream
    finished

vars == <<req, chat, status, sent, msg, tool, held, reason, terminal, werr, capture, feed, finished>>
out == <<msg, tool, held, reason, terminal>>

Ev(e, i) == [e |-> e, out |-> i]
NextOut == Cardinality(DOMAIN tool) + (IF msg = -1 THEN 0 ELSE 1)

Requests ==
    [valid : BOOLEAN, stream : BOOLEAN,
     tools : {<<>>} \union {<<x>> : x \in Names} \union {<<x, y>> : x, y \in Names},
     choice : {"absent", "auto", "required"} \union Names]

Init ==
    /\ req \in Requests /\ chat = "none" /\ status = 0 /\ sent = <<>>
    /\ msg = -1 /\ tool = <<>> /\ held = FALSE /\ reason = "" /\ terminal = FALSE
    /\ werr = FALSE /\ capture \in {"off", "whole"}
    /\ feed = [n |-> 0, over |-> FALSE, late |-> FALSE] /\ finished = FALSE

(* responsesInputToChatMessages, validateResponsesControls and the text      *)
(* format: all or nothing.                                                   *)
Supported(r) == r.valid

(* responsesToolsToChatTools flattens namespaces and refuses a second        *)
(* function of one name.                                                     *)
ChatTools(r) == IF Cardinality(ToSet(r.tools)) = Len(r.tools) THEN ToSet(r.tools) ELSE {"dup"}

(* responsesToolChoiceToChatToolChoice *)
ChoiceOK(r) ==
    \/ r.choice \in {"absent", "auto"}
    \/ r.choice = "required" /\ ChatTools(r) # {}
    \/ r.choice \in ChatTools(r)

(* translateRequest: a refusal is a 400 and nothing is forwarded. *)
TranslateRequest ==
    /\ chat = "none"
    /\ IF Supported(req) /\ "dup" \notin ChatTools(req) /\ ChoiceOK(req)
       THEN chat' = "sent" /\ UNCHANGED status
       ELSE chat' = "rejected" /\ status' = 400
    /\ UNCHANGED <<req, sent, out, werr, capture, feed, finished>>

(* emitResponsesSSE over writeBytes: each write may fail, and after one has, *)
(* nothing more is written; captureDedupeBytes keeps what got through.       *)
Emit(evs) ==
    \E n \in 0..Len(evs) :
      /\ werr => n = 0
      /\ sent' = sent \o SubSeq(evs, 1, n)
      /\ werr' = (werr \/ n < Len(evs))
      /\ capture' \in IF capture # "whole" \/ werr THEN {capture}
                      ELSE IF n < Len(evs) THEN {"lost"} ELSE {"whole", "over"}

(* WriteHeader: the answer's status; a 200 stream starts with its first      *)
(* event.                                                                    *)
WriteHeader ==
    /\ chat = "sent" /\ status = 0
    /\ status' \in {200, 502}
    /\ IF req.stream /\ status' = 200 THEN Emit(<<Ev("created", -1)>>) ELSE UNCHANGED <<sent, werr, capture>>
    /\ UNCHANGED <<req, chat, out, feed, finished>>

Streaming == req.stream /\ status = 200 /\ ~finished

(* emitTextDelta: the message item opens with its first text. *)
TextEvents == IF msg = -1 THEN <<Ev("added", NextOut), Ev("delta", NextOut)>> ELSE <<Ev("delta", msg)>>
MsgAfter == IF msg = -1 THEN NextOut ELSE msg

(* emitToolCallDelta: a tool call opens with its first fragment, whether or  *)
(* not it carries arguments.                                                 *)
ToolEvents(i) ==
    IF i \in DOMAIN tool THEN <<Ev("delta", tool[i])>> ELSE <<Ev("added", NextOut), Ev("delta", NextOut)>>

(* handleChatStreamLine on a chunk; filterThinkContent may let some of the   *)
(* content through, and may hold some back.                                  *)
Chunk ==
    /\ Streaming /\ ~feed.over /\ feed.n < MaxChunks /\ ~werr
    /\ feed' = [feed EXCEPT !.n = @ + 1, !.late = @ \/ terminal]
    /\ \/ /\ \E through \in BOOLEAN :
               IF through THEN msg' = MsgAfter /\ Emit(TextEvents)
               ELSE UNCHANGED <<msg, sent, werr, capture>>
          /\ held' \in BOOLEAN
          /\ UNCHANGED <<tool, reason>>
       \/ \E i \in ToolIndexes :
            /\ Emit(ToolEvents(i))
            /\ tool' = IF i \in DOMAIN tool THEN tool
                       ELSE [j \in DOMAIN tool \union {i} |-> IF j = i THEN NextOut ELSE tool[j]]
            /\ UNCHANGED <<msg, held, reason>>
       \/ reason' \in {"stop", "length"} /\ UNCHANGED <<msg, tool, held, sent, werr, capture>>
    /\ UNCHANGED <<req, chat, status, terminal, finished>>

(* responsesTerminalFromFinishReason *)
TerminalEvent == IF reason \in {"length", "content_filter"} THEN "incomplete" ELSE "completed"

(* The tool calls by their output index, as the sort in emitStreamDone. *)
ToolOuts == SetToSortSeq({tool[i] : i \in DOMAIN tool}, <)

(* emitStreamDone: held text is let out first, then every item is closed,    *)
(* the message before the tool calls, and one terminal event ends the list.  *)
DoneEvents ==
    LET m == IF held THEN MsgAfter ELSE msg IN
    (IF held THEN TextEvents ELSE <<>>) \o (IF m = -1 THEN <<>> ELSE <<Ev("done", m)>>)
      \o [k \in 1..Len(ToolOuts) |-> Ev("done", ToolOuts[k])] \o <<Ev(TerminalEvent, -1)>>

StreamDone ==
    /\ IF terminal THEN UNCHANGED <<sent, werr, capture, msg, held>>
       ELSE Emit(DoneEvents) /\ msg' = (IF held THEN MsgAfter ELSE msg) /\ held' = FALSE
    /\ terminal' = TRUE

(* emitStreamFailed: on an error frame or a chunk that does not parse. *)
StreamFailed ==
    /\ IF terminal THEN UNCHANGED <<sent, werr, capture>> ELSE Emit(<<Ev("failed", -1)>>)
    /\ terminal' = TRUE /\ UNCHANGED <<msg, held>>

TerminalFrame ==
    /\ Streaming /\ ~werr /\ feed.n < MaxChunks
    /\ \/ StreamDone /\ feed' = [feed EXCEPT !.n = @ + 1]
       \/ StreamFailed /\ feed' = [feed EXCEPT !.n = @ + 1, !.over = TRUE]
    /\ UNCHANGED <<req, chat, status, tool, reason, finished>>

(* translateNonStreamingResponse: an answer without a choice or a message is  *)
(* reported as invalid.                                                       *)
WholeAnswer == IF status = 200 THEN {"body", "invalid"} ELSE {"body"}

(* finish, once the chat handler returned: a stream that got no terminal     *)
(* frame is closed, a whole answer is written at once.                       *)
Finish ==
    /\ status # 0 /\ ~finished
    /\ finished' = TRUE
    /\ IF req.stream /\ status = 200 THEN StreamDone
       ELSE (\E b \in WholeAnswer : Emit(<<Ev(b, -1)>>)) /\ UNCHANGED <<msg, held, terminal>>
    /\ UNCHANGED <<req, chat, status, tool, reason, feed>>

Next == TranslateRequest \/ WriteHeader \/ Chunk \/ TerminalFrame \/ Finish

----------------------------------------------------------------------------
Terminals == {"completed", "incomplete", "failed"}

(* A stream has one terminal event, whether the chat handler sent none, one  *)
(* or two terminal frames; and it is the last event, unless the provider     *)
(* went on after its own end.                                                *)
OneTerminalEvent ==
    LET ends == {i \in 1..Len(sent) : sent[i].e \in Terminals}
    IN  Cardinality(ends) <= 1 /\ (~feed.late => ends \subseteq {Len(sent)})

(* Up to the terminal event every item was added once, under an index of its *)
(* own, and got its deltas after that; when the event says completed or      *)
(* incomplete, each was also closed once after its deltas.                   *)
ItemsAreBalanced ==
    LET ends == {i \in 1..Len(sent) : sent[i].e \in Terminals}
        upTo == IF ends = {} THEN Len(sent) ELSE CHOOSE i \in ends : TRUE
        At(e, o) == {i \in 1..upTo : sent[i].e = e /\ sent[i].out = o}
        outs == {sent[i].out : i \in 1..upTo} \ {-1} IN
    /\ outs = 0..(Cardinality(outs) - 1)
    /\ \A o \in outs :
         /\ Cardinality(At("added", o)) = 1
         /\ \A a \in At("added", o), d \in At("delta", o) \union At("done", o) : a < d
         /\ \A d \in At("delta", o), c \in At("done", o) : d < c
         /\ (sent[upTo].e \in {"completed", "incomplete"} => Cardinality(At("done", o)) = 1)

-----------------------------------------------------------------------------
(***************************************************************************)
(* What the coordinator accepts as a chat request: the envelope, the       *)
(* history of messages with its tool calls and tool results, and the       *)
(* strict subset of JSON Schema.  Sizes are counted in units; JSON text    *)
(* that does not parse is one of the shapes a field can have.              *)
(***************************************************************************)

CONSTANTS
    Ids,          \* well-formed tool call ids
    MaxMessages, MaxCalls, MaxArgBytes, MaxResultBytes, MaxDepth,
    MaxLen        \* messages of the histories explored

VARIABLES input, result
chatVars == <<input, result>>

BadId == "bad"
Calls == [id : Ids \cup {BadId}, bytes : 1 .. 2, wellFormed : {TRUE}]
         \cup [id : {CHOOSE i \in Ids : TRUE}, bytes : {1}, wellFormed : {FALSE}]
Messages == [role : {"user"}, content : {"text", "parts", "image", "empty"}]
            \cup [role : {"assistant"}, content : {"text", "null"},
                  calls : {<< >>} \cup {<<c>> : c \in Calls} \cup {<<c, d>> : c, d \in {x \in Calls : x.bytes = 1}}]
            \cup [role : {"tool"}, id : Ids \cup {BadId}, bytes : 1 .. 2]

(* A schema node: its type, whether it has a keyword the strict subset does *)
(* not allow, whether its scalars and bounds fit its type, and its children.*)
Leaf == [typ : {"string", "number", "other"}, odd : BOOLEAN, fits : BOOLEAN, closed : {FALSE},
         props : {{}}, required : {{}}]
Node(child) == [typ : {"object"}, odd : {FALSE}, fits : {TRUE}, closed : BOOLEAN,
                props : {{}, {child}}, required : {{}, {child}}]
               \cup [typ : {"array"}, odd : {FALSE}, fits : {TRUE}, closed : {FALSE}, props : {{}, {child}}, required : {{}}]
Schemas == LET one == UNION {Node(l) : l \in Leaf}
           IN Leaf \cup one \cup UNION {Node(n) : n \in {x \in one : x.props # {}}}

ChatInit ==
    /\ result = "none"
    /\ \/ input \in [kind : {"messages"}, msgs : UNION {[1 .. n -> Messages] : n \in 1 .. 2}]
       \/ input \in [kind : {"messages"},
                     msgs : [1 .. MaxLen -> {m \in Messages :
                              \/ m.role = "user" /\ m.content = "text"
                              \/ m.role = "assistant" /\ m.content = "null" /\ Len(m.calls) = 1
                                 /\ m.calls[1].id # BadId /\ m.calls[1].bytes = 1 /\ m.calls[1].wellFormed
                              \/ m.role = "tool" /\ m.id # BadId /\ m.bytes = 1}]]
       \/ input \in [kind : {"schema"}, schema : Schemas]
       \/ input \in [kind : {"envelope"}, models : 0 .. 2, alias : BOOLEAN, emptyModel : BOOLEAN, messages : BOOLEAN,
                     ranges : BOOLEAN, n : 0 .. 2]

----------------------------------------------------------------------------
(* The checks of validateChatRequest and validateOptionalFields that do not *)
(* look at messages or schema.                                              *)
ValidateEnvelope(i) ==
    CASE i.alias \/ i.models > 1 -> "duplicate model"
      [] i.models = 0 -> "missing model"
      [] i.emptyModel -> "invalid model"
      [] ~i.messages -> "missing messages"
      [] ~i.ranges -> "out of range"
      [] i.n # 1 -> "n must be 1"
      [] OTHER -> "ok"

(* normalizeSystemUserContent: text parts are joined into one string. *)
UserContent(c) == CASE c = "image" -> "unsupported_content_shape"
                    [] c = "empty" -> "invalid_request"
                    [] OTHER -> "ok"

(* parseRequestToolCalls of one message. *)
ParseCalls(cs) == IF \E n \in DOMAIN cs : ~cs[n].wellFormed THEN "invalid_tools" ELSE "ok"

Before(ms, i) == SubSeq(ms, 1, i - 1)
AllCalls(ms) == FlattenSeq([i \in DOMAIN ms |-> IF ms[i].role = "assistant" THEN ms[i].calls ELSE << >>])
SumBytes(s) == FoldSeq(LAMBDA x, n : x.bytes + n, 0, s)
Results(ms) == SelectSeq(ms, LAMBDA m : m.role = "tool")

(* The first pass of validateMessages over message i: shapes, ids and the   *)
(* totals of the tool calls so far.                                         *)
FirstPass(ms, i) ==
    LET m == ms[i]
        upto == AllCalls(SubSeq(ms, 1, i))
    IN CASE m.role = "user" -> UserContent(m.content)
         [] m.role = "tool" -> IF m.id = BadId THEN "invalid_tool_call_id" ELSE "ok"
         [] OTHER ->
              CASE m.content = "null" /\ m.calls = << >> -> "invalid_request"
                [] m.calls # << >> /\ ParseCalls(m.calls) # "ok" -> ParseCalls(m.calls)
                [] m.calls # << >> /\ ParseCalls(m.calls) = "ok" /\ Len(upto) > MaxCalls -> "too_many_tool_calls"
                [] m.calls # << >> /\ (\E n \in DOMAIN m.calls : m.calls[n].id = BadId) -> "invalid_tool_call_id"
                [] m.calls # << >> /\ SumBytes(upto) > MaxArgBytes -> "aggregate_too_large"
                [] OTHER -> "ok"

IdsOf(s) == {s[n].id : n \in DOMAIN s}

(* The second pass: every result answers one earlier call, once. *)
SecondPass(ms, i) ==
    LET m == ms[i]
    IN CASE m.role # "tool" -> "ok"
         [] m.role = "tool" /\ m.id \notin IdsOf(AllCalls(ms)) -> "tool_call_id_not_found"
         [] m.role = "tool" /\ m.id \in IdsOf(AllCalls(ms))
              /\ m.id \notin IdsOf(AllCalls(SubSeq(ms, 1, i))) -> "tool_call_result_out_of_order"
         [] m.role = "tool" /\ m.id \in IdsOf(Results(Before(ms, i))) -> "duplicate_tool_call_id"
         [] m.role = "tool" /\ SumBytes(Results(SubSeq(ms, 1, i))) > MaxResultBytes -> "results_too_large"
         [] OTHER -> "ok"

FirstError(codes) == LET bad == {i \in DOMAIN codes : codes[i] # "ok"}
                     IN IF bad = {} THEN "ok" ELSE codes[CHOOSE i \in bad : \A j \in bad : i <= j]

(* validateMessages. *)
ValidateMessages(ms) ==
    LET first == FirstError([i \in DOMAIN ms |-> FirstPass(ms, i)])
        calls == AllCalls(ms)
        twice == \E a, b \in DOMAIN calls : a # b /\ calls[a].id = calls[b].id
    IN CASE Len(ms) > MaxMessages -> "messages_too_long"
         [] Len(ms) <= MaxMessages /\ first # "ok" -> first
         [] Len(ms) <= MaxMessages /\ first = "ok" /\ twice -> "duplicate_tool_call_id"
         [] OTHER -> FirstError([i \in DOMAIN ms |-> SecondPass(ms, i)])

----------------------------------------------------------------------------
(* validateJSONSchemaRaw without its recursion. *)
ValidateNode(s, depth) ==
    CASE depth > MaxDepth -> "too_deep"
      [] s.odd \/ s.typ = "other" \/ ~s.fits -> "unsupported_keyword"
      [] s.typ = "object" /\ ~s.closed -> "additional_properties"
      [] s.typ = "object" /\ s.required # s.props -> "not_all_required"
      [] s.typ = "array" /\ (s.props = {} \/ s.closed) -> "unsupported_keyword"
      [] OTHER -> "ok"

RECURSIVE ValidateSchema(_, _)
ValidateSchema(s, depth) ==
    IF ValidateNode(s, depth) # "ok" THEN ValidateNode(s, depth)
    ELSE LET below == {ValidateSchema(c, depth + 1) : c \in s.props}
         IN IF below \subseteq {"ok"} THEN "ok" ELSE CHOOSE e \in below : e # "ok"

(* validateChatRequest. *)
Validate ==
    /\ result = "none"
    /\ result' = CASE input.kind = "envelope" -> ValidateEnvelope(input)
                   [] input.kind = "messages" -> ValidateMessages(input.msgs)
                   [] OTHER -> ValidateSchema(input.schema, 1)
    /\ UNCHANGED input

ChatNext == Validate

----------------------------------------------------------------------------
(* An accepted history can be replayed by a provider: the ids of its tool   *)
(* calls are distinct, and every tool result answers a call made earlier,   *)
(* which no other result answers.  Nothing else is refused for its order.   *)
HistoryIsReplayable ==
    result # "none" /\ input.kind = "messages" =>
      LET ms == input.msgs
          calls == AllCalls(ms)
          MadeBefore(i) == \E j \in 1 .. i : ms[j].role = "assistant" /\ ms[i].id \in IdsOf(ms[j].calls)
          Linear == /\ \A a, b \in DOMAIN calls : a # b => calls[a].id # calls[b].id
                    /\ \A i \in DOMAIN ms : ms[i].role = "tool" => MadeBefore(i)
                    /\ \A i, j \in DOMAIN ms : i # j /\ ms[i].role = "tool" /\ ms[j].role = "tool" => ms[i].id # ms[j].id
      IN /\ result = "ok" => Linear
         /\ result \in {"tool_call_id_not_found", "tool_call_result_out_of_order"} => ~Linear

Depth[s \in Schemas] == IF s.props = {} THEN 1 ELSE 1 + Depth[CHOOSE c \in s.props : TRUE]
Inside[s \in Schemas] == {s} \cup UNION {Inside[c] : c \in s.props}

(* An accepted schema is strict at every depth, and no deeper than the      *)
(* limit: each object in it is closed and requires all it declares.         *)
SchemaIsStrict ==
    result = "ok" /\ input.kind = "schema" =>
      /\ Depth[input.schema] <= MaxDepth
      /\ \A s \in Inside[input.schema] :
           s.typ # "other" /\ (s.typ = "object" => s.closed /\ s.required = s.props)

-----------------------------------------------------------------------------
(***************************************************************************)
(* A provider's event stream with tool calls, as the coordinator judges    *)
(* it: which event commits the response, the validator that watches the    *)
(* stream while it is passed on, and the consolidation of a stream that    *)
(* was buffered.  An event is one data line; the arguments of a call are   *)
(* pieces of a JSON object, "{" and "}", complete when they are balanced.  *)
(***************************************************************************)

CONSTANTS Indexes, MaxEvents, MaxArgs, MaxTotal, ToolMaxDepth

VARIABLES
    seen,       \* the events so far
    committed,  \* "no", "yes", "malformed": the first event worth committing to
    opened, args, total, toolFinished, done,   \* streamToolCallFinalValidator
    verdict     \* "ok" or the validator's error
toolVars == <<seen, committed, opened, args, total, toolFinished, done, verdict>>

(* A tool call delta: id and name are present or not, and the type may be   *)
(* missing or another one.  A data line may also be no JSON of the expected *)
(* form, or an error object.                                                *)
Deltas == [kind : {"call"}, idx : Indexes, head : BOOLEAN, typ : {"function", "other", ""},
           arg : {<<"{">>, <<"}">>, <<"{", "}">>}, hasArg : {TRUE}]
          \cup [kind : {"call"}, idx : Indexes, head : BOOLEAN, typ : {"function", "other", ""},
                arg : {<< >>}, hasArg : {FALSE}]
Events == Deltas \cup {[kind |-> k] : k \in {"content", "finish", "usage", "done", "blank", "unreadable", "error"}}

ToolInit ==
    /\ seen = << >> /\ committed = "no"
    /\ opened = {} /\ args = [i \in Indexes |-> << >>] /\ total = 0
    /\ toolFinished = FALSE /\ done = FALSE /\ verdict = "ok"

----------------------------------------------------------------------------
Opening(e) == e.head /\ e.typ = "function" /\ e.hasArg

(* isCommitWorthyToolCallDelta. *)
WorthyCall(e) == Opening(e) /\ Len(e.arg) <= MaxArgs

(* inspectCommitWorthyDataLine. *)
CommitLine(e) == CASE e.kind = "call" -> IF WorthyCall(e) THEN "yes" ELSE "malformed"
                   [] e.kind \in {"content", "finish", "usage"} -> "yes"
                   [] OTHER -> "no"

(* jsonArgumentsDepthWithinLimit over the whole text. *)
DepthOK(s) ==
    LET d[n \in 0 .. Len(s)] == IF n = 0 THEN 0 ELSE d[n - 1] + (IF s[n] = "{" THEN 1 ELSE -1)
    IN s # << >> /\ d[Len(s)] = 0 /\ \A n \in 0 .. Len(s) : d[n] >= 0 /\ d[n] <= ToolMaxDepth

(* validToolCallArgumentsObject: one object and nothing after it.  Of the   *)
(* texts made of these pieces only the empty object is valid JSON.          *)
ValidArguments(s) == Len(s) <= MaxArgs /\ DepthOK(s) /\ s = <<"{", "}">>

(* observeToolCall: the first delta of an index opens the call, later ones  *)
(* add to its arguments; a cap that is exceeded leaves the arguments alone. *)
ObserveToolCall(e) ==
    LET fresh == e.idx \notin opened
        next == args[e.idx] \o e.arg
        sum == total - Len(args[e.idx]) + Len(next)
    IN IF fresh /\ ~Opening(e) THEN verdict' = "opening" /\ UNCHANGED <<opened, args, total>>
       ELSE /\ opened' = opened \cup {e.idx}
            /\ CASE ~e.hasArg -> UNCHANGED <<verdict, args, total>>
                 [] e.hasArg /\ Len(next) > MaxArgs -> verdict' = "byte cap" /\ UNCHANGED <<args, total>>
                 [] e.hasArg /\ Len(next) <= MaxArgs /\ sum > MaxTotal ->
                      verdict' = "response cap" /\ UNCHANGED <<args, total>>
                 [] OTHER -> args' = [args EXCEPT ![e.idx] = next] /\ total' = sum /\ UNCHANGED verdict

(* observeLine, and the commit decision that precedes it. *)
Observe(e) ==
    /\ verdict = "ok" /\ committed # "malformed" /\ Len(seen) < MaxEvents
    /\ seen' = Append(seen, e)
    /\ committed' = IF committed = "no" THEN CommitLine(e) ELSE committed
    /\ CASE committed' = "malformed" -> UNCHANGED <<opened, args, total, toolFinished, done, verdict>>
         [] e.kind = "call" /\ committed' # "malformed" -> ObserveToolCall(e) /\ UNCHANGED <<toolFinished, done>>
         [] e.kind = "content" -> /\ verdict' = IF opened # {} THEN "fell back" ELSE "ok"
                                  /\ UNCHANGED <<opened, args, total, toolFinished, done>>
         [] OTHER -> /\ toolFinished' = (toolFinished \/ e.kind = "finish") /\ done' = (done \/ e.kind = "done")
                     /\ UNCHANGED <<opened, args, total, verdict>>

ToolNext == \E e \in Events : Observe(e)

(* Mutant: the end of the stream is not looked at. *)
FinalCloseOKEarly == \A i \in opened : ValidArguments(args[i])
(* finalCloseOK. *)
FinalCloseOK == opened # {} => toolFinished /\ done /\ \A i \in opened : ValidArguments(args[i])

----------------------------------------------------------------------------
(* collectStreamingToolCalls over the whole stream: the last non-empty      *)
(* value of each field, and the arguments joined in order.                  *)
CallsOf(s, i) == SelectSeq(s, LAMBDA e : e.kind = "call" /\ e.idx = i)
Called(s) == {i \in Indexes : CallsOf(s, i) # << >>}
Some(s, k) == \E n \in DOMAIN s : s[n].kind = k
Arguments(s, i) == FoldLeft(LAMBDA j, e : j \o e.arg, << >>, CallsOf(s, i))
LastType(s, i) == FoldLeft(LAMBDA t, e : IF e.typ = "" THEN t ELSE e.typ, "", CallsOf(s, i))

Collected(s) ==
    LET Good(i) == /\ \E n \in DOMAIN CallsOf(s, i) : CallsOf(s, i)[n].head
                   /\ LastType(s, i) = "function" /\ ValidArguments(Arguments(s, i))
    IN  [ok |-> /\ ~Some(s, "unreadable") /\ ~Some(s, "error")
                /\ Called(s) # {} => Some(s, "finish") /\ Some(s, "done") /\ \A i \in Called(s) : Good(i),
         calls |-> [i \in Called(s) |-> Arguments(s, i)]]

Accepted == committed = "yes" /\ verdict = "ok" /\ FinalCloseOK

----------------------------------------------------------------------------
(* The two modes agree on what a stream calls: one that passes the          *)
(* incremental validator has the same calls and arguments in the buffered   *)
(* mode, and is refused there for three reasons only, which the validator   *)
(* does not look at: a data line it cannot read, an error object, and a     *)
(* later delta that names another type.                                     *)
ModesAgree ==
    LET overlooked == \/ Some(seen, "unreadable") \/ Some(seen, "error")
                      \/ \E i \in opened : LastType(seen, i) # "function"
    IN  Accepted /\ opened # {} =>
            Collected(seen) = [ok |-> ~overlooked, calls |-> [i \in opened |-> args[i]]]

-----------------------------------------------------------------------------
(***************************************************************************)
(* filterThinkContent: the answer arrives in chunks that may cut a tag in  *)
(* two, and text between <think> and </think> is not passed on.  The tags  *)
(* are shortened to two letters with the shared first one kept.            *)
(***************************************************************************)

CONSTANT ThinkMaxLen

Letters == {"<", "t", "/", "x"}
Open == <<"<", "t">>
Close == <<"<", "/">>

VARIABLES
    text,       \* the whole answer
    fed,        \* how much of it has been fed
    pending,    \* thinkPending
    inBlock,    \* thinkInBlock
    shown       \* what was let through

thinkVars == <<text, fed, pending, inBlock, shown>>

ThinkInit ==
    /\ text \in UNION {[1..n -> Letters] : n \in 0..ThinkMaxLen}
    /\ fed = 0 /\ pending = <<>> /\ inBlock = FALSE /\ shown = <<>>

(* strings.Index: the first place of tag in s; 0 when there is none. *)
Index(s, tag) ==
    LET at == {i \in 1..Len(s) : i + Len(tag) - 1 <= Len(s) /\ SubSeq(s, i, i + Len(tag) - 1) = tag}
    IN IF at = {} THEN 0 ELSE CHOOSE i \in at : \A j \in at : i <= j

After(s, n) == SubSeq(s, n + 1, Len(s))

(* longestSuffixThatPrefixes *)
LongestSuffix(s, tag) ==
    LET ns == {n \in 1..(Len(tag) - 1) : n <= Len(s) /\ IsPrefix(After(s, Len(s) - n), tag)}
    IN IF ns = {} THEN <<>> ELSE After(s, Len(s) - CHOOSE n \in ns : \A m \in ns : m <= n)

(* The loop of filterThinkContent over its input, with k turns left. *)
Filter[k \in 0..(ThinkMaxLen + 1), s \in Seq(Letters), b \in BOOLEAN] ==
    LET i == Index(s, IF b THEN Close ELSE Open)
        keep == LongestSuffix(s, IF b THEN Close ELSE Open) IN
    IF s = <<>> \/ k = 0 THEN [out |-> <<>>, pending |-> <<>>, inBlock |-> b]
    ELSE IF i > 0
    THEN LET r == Filter[k - 1, After(s, i + 1), ~b]
         IN [r EXCEPT !.out = (IF b THEN <<>> ELSE SubSeq(s, 1, i - 1)) \o @]
    ELSE [out |-> IF b THEN <<>> ELSE SubSeq(s, 1, Len(s) - Len(keep)), pending |-> keep, inBlock |-> b]

Feed ==
    \E n \in 1..(Len(text) - fed) :
      LET r == Filter[ThinkMaxLen + 1, pending \o SubSeq(text, fed + 1, fed + n), inBlock] IN
      /\ fed' = fed + n
      /\ shown' = shown \o r.out /\ pending' = r.pending /\ inBlock' = r.inBlock
      /\ UNCHANGED text

(* flushThinkRemainder, at the end of the stream *)
Flush == IF inBlock THEN <<>> ELSE pending

ThinkNext == Feed

----------------------------------------------------------------------------
(* However the answer was cut into chunks, what the buyer has seen, and what *)
(* a flush would add, is what one chunk of the same text would have shown.   *)
ChunksDoNotMatter ==
    LET whole == Filter[ThinkMaxLen + 1, SubSeq(text, 1, fed), FALSE] IN
    shown \o Flush = whole.out \o (IF whole.inBlock THEN <<>> ELSE whole.pending)
=============================================================================
