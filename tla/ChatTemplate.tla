---------------------------- MODULE ChatTemplate ----------------------------
(***************************************************************************)
(* The chat template and its inverse: gdn/src/chat.rs renders a            *)
(* conversation, gdn/src/chatparse.rs reads a reply back.                  *)
(*                                                                         *)
(* A text is a sequence of symbols: the markers of the template, a newline *)
(* (NL), other white space (SP, and SEP for U+001C..U+001F) and words.     *)
(* What the code does with strings (find, split, strip, trim) is done on   *)
(* these sequences.                                                        *)
(***************************************************************************)
EXTENDS Integers, Sequences, SequencesExt, FiniteSets, FiniteSetsExt

Spaces == {"NL", "SP"}                 \* char::is_whitespace

PythonSpaces == Spaces \cup {"SEP"}    \* is_python_space

-----------------------------------------------------------------------------
(* Strings.                                                                *)

FirstAt(s, pat) ==
    LET at == {i \in 1 .. Len(s) - Len(pat) + 1 : SubSeq(s, i, i + Len(pat) - 1) = pat}
    IN  IF at = {} THEN 0 ELSE Min(at)

Upto(s, n) == SubSeq(s, 1, n)

After(s, n) == SubSeq(s, n + 1, Len(s))

HasSymbol(s, x) == \E i \in DOMAIN s : s[i] = x

\* What follows the last x: rsplit(x).next()
AfterLast(s, x) == After(s, Max({i \in DOMAIN s : s[i] = x} \cup {0}))

TrimStart(s, set) ==
    LET kept == {i \in DOMAIN s : s[i] \notin set} IN IF kept = {} THEN <<>> ELSE After(s, Min(kept) - 1)

TrimEnd(s, set) ==
    LET kept == {i \in DOMAIN s : s[i] \notin set} IN IF kept = {} THEN <<>> ELSE Upto(s, Max(kept))

Trim(s, set) == TrimEnd(TrimStart(s, set), set)

jinja_trim(s) == Trim(s, PythonSpaces)

-----------------------------------------------------------------------------
(* Messages.  An error is a string, "ok" its absence.                      *)

NoReasoning == <<"none">>              \* Option::None; a text never is this

Message(role, text) ==
    [role |-> role, content |-> [kind |-> "text", text |-> text],
     reasoning |-> NoReasoning, tool_calls |-> <<>>]

\* The first refusal of render_content.
ContentError(c, isSystem) ==
    LET Refused(p) == p = "other" \/ (isSystem /\ p \in {"image", "video"})
    IN  CASE c.kind = "unsupported" -> "ERR_CONTENT_TYPE"
          [] c.kind = "parts" /\ (\E i \in DOMAIN c.parts : Refused(c.parts[i])) ->
                LET first == Min({i \in DOMAIN c.parts : Refused(c.parts[i])})
                IN  IF c.parts[first] = "image" THEN "ERR_SYSTEM_IMAGE"
                    ELSE IF c.parts[first] = "video" THEN "ERR_SYSTEM_VIDEO" ELSE "ERR_ITEM_TYPE"
          [] OTHER -> "ok"

CountOf(parts, p) == Cardinality({i \in DOMAIN parts : parts[i] = p})

\* render_content: `seen` parts of each kind came before (the counters on entry).
ContentText(c, addVisionId, seen) ==
    LET Part(i) ==
            LET p      == c.parts[i]
                number == <<p, seen[p] + CountOf(Upto(c.parts, i), p)>>
            IN  IF p \in {"image", "video"}
                THEN (IF addVisionId THEN <<number>> ELSE <<>>) \o <<"vision_start", p, "vision_end">>
                ELSE <<p>>
    IN  CASE c.kind = "text"  -> c.text
          [] c.kind = "parts" -> FlattenSeq([i \in DOMAIN c.parts |-> Part(i)])
          [] OTHER -> <<>>

-----------------------------------------------------------------------------
(* render.                                                                 *)

NothingSeen == [image |-> 0, video |-> 0]

\* Parts of each kind in the messages before the i-th.
SeenBefore(messages, i) ==
    LET Count(p) == FoldSet(LAMBDA j, n : n + IF messages[j].content.kind = "parts"
                                              THEN CountOf(messages[j].content.parts, p) ELSE 0,
                            0, 1 .. i - 1)
    IN  [image |-> Count("image"), video |-> Count("video")]

IsToolResponse(c) == Len(c) > 0 /\ c[1] = "<response>" /\ Last(c) = "</response>"

\* The users of the backwards scan: up to and including the first real query.
IsQuery(req, i) ==
    /\ req.messages[i].role = "user"
    /\ ~IsToolResponse(jinja_trim(ContentText(req.messages[i].content, req.opts.add_vision_id, NothingSeen)))

Queries(req) == {i \in DOMAIN req.messages : IsQuery(req, i)}

\* A bug to rule out: the last user message, tool responses included.
LastUserIndex(req) == Max({i \in DOMAIN req.messages : req.messages[i].role = "user"})

last_query_index(req) == Max(Queries(req))

\* A bug to rule out: the newlines after </think> stay.
SplitUntrimmed(m, text) ==
    IF m.reasoning # NoReasoning THEN [reasoning |-> jinja_trim(m.reasoning), content |-> text]
    ELSE IF HasSymbol(text, "</think>")
    THEN [reasoning |-> jinja_trim(AfterLast(Upto(text, FirstAt(text, <<"</think>">>) - 1), "<think>")),
          content   |-> AfterLast(text, "</think>")]
    ELSE [reasoning |-> <<>>, content |-> text]

\* reasoning and content of an assistant message, as the template splits them.
AssistantSplit(m, text) ==
    IF m.reasoning # NoReasoning THEN [reasoning |-> jinja_trim(m.reasoning), content |-> text]
    ELSE IF HasSymbol(text, "</think>")
    THEN LET head == TrimEnd(Upto(text, FirstAt(text, <<"</think>">>) - 1), {"NL"})
         IN  [reasoning |-> jinja_trim(TrimStart(AfterLast(head, "<think>"), {"NL"})),
              content   |-> TrimStart(AfterLast(text, "</think>"), {"NL"})]
    ELSE [reasoning |-> <<>>, content |-> text]

CallText(call) ==
    LET Parameter(a) == <<"<parameter=">> \o a[1] \o <<">", "NL">> \o a[2] \o <<"NL", "</parameter>", "NL">>
    IN  <<"<tool_call>", "NL", "<function=">> \o call.name \o <<">", "NL">>
        \o FlattenSeq([i \in DOMAIN call.arguments |-> Parameter(call.arguments[i])])
        \o <<"</function>", "NL", "</tool_call>">>

CallsText(calls, content) ==
    LET Joint(j) == IF j > 1 THEN <<"NL">>
                    ELSE IF jinja_trim(content) # <<>> THEN <<"NL", "NL">> ELSE <<>>
    IN  FlattenSeq([j \in DOMAIN calls |-> Joint(j) \o CallText(calls[j])])

\* What follows "assistant\n" in a turn's block, before <|im_end|>.
AssistantBody(m, text, inCurrentTurn) ==
    LET s == AssistantSplit(m, text)
    IN  (IF inCurrentTurn THEN <<"<think>", "NL">> \o s.reasoning \o <<"NL", "</think>", "NL", "NL">> ELSE <<>>)
        \o s.content \o CallsText(m.tool_calls, s.content)

Block(role, body) == <<"<|im_start|>", role, "NL">> \o body \o <<"<|im_end|>", "NL">>

\* A bug to rule out: every tool result opens a block.
ToolBlockOpens(messages, i, text) ==
    LET IsTool(j) == j \in DOMAIN messages /\ messages[j].role = "tool"
    IN  <<"<|im_start|>", "user", "NL", "<response>", "NL">> \o text \o <<"NL", "</response>">>
        \o (IF ~IsTool(i + 1) THEN <<"<|im_end|>", "NL">> ELSE <<>>)

\* Consecutive tool results share one user block.
ToolBlock(messages, i, text) ==
    LET IsTool(j) == j \in DOMAIN messages /\ messages[j].role = "tool"
    IN  (IF i > 1 /\ ~IsTool(i - 1) THEN <<"<|im_start|>", "user">> ELSE <<>>)
        \o <<"NL", "<response>", "NL">> \o text \o <<"NL", "</response>">>
        \o (IF ~IsTool(i + 1) THEN <<"<|im_end|>", "NL">> ELSE <<>>)

MessageText(req, i) ==
    jinja_trim(ContentText(req.messages[i].content, req.opts.add_vision_id, SeenBefore(req.messages, i)))

MessageBlock(req, i) ==
    LET m    == req.messages[i]
        text == MessageText(req, i)
    IN  CASE m.role = "system"    -> <<>>
          [] m.role = "user"      -> Block("user", text)
          [] m.role = "assistant" -> Block("assistant", AssistantBody(m, text, i > last_query_index(req)))
          [] OTHER                -> ToolBlock(req.messages, i, text)

\* The tool descriptions become the system message; a real one is appended to them.
SystemBlock(req) ==
    LET m    == req.messages[1]
        text == IF m.role = "system" THEN jinja_trim(ContentText(m.content, req.opts.add_vision_id, NothingSeen)) ELSE <<>>
    IN  IF req.tools # <<>>
        THEN Block("system", <<"tools">> \o req.tools \o <<"instructions">>
                             \o (IF text # <<>> THEN <<"NL", "NL">> \o text ELSE <<>>))
        ELSE IF m.role = "system" THEN Block("system", text) ELSE <<>>

GenerationPrompt(opts) ==
    IF ~opts.add_generation_prompt THEN <<>>
    ELSE <<"<|im_start|>", "assistant", "NL", "<think>", "NL">>
         \o (IF opts.enable_thinking THEN <<>> ELSE <<"NL", "</think>", "NL", "NL">>)

\* The error of the first check that refuses, in the order of the checks.
RenderError(req) ==
    LET ms       == req.messages
        sysError == IF ms[1].role = "system" THEN ContentError(ms[1].content, TRUE) ELSE "ok"
        scanned  == {i \in DOMAIN ms : ms[i].role = "user" /\ \A j \in Queries(req) : j <= i}
        badScan  == {i \in scanned : ContentError(ms[i].content, FALSE) # "ok"}
        LoopError(i) ==
            IF ContentError(ms[i].content, FALSE) # "ok" THEN ContentError(ms[i].content, FALSE)
            ELSE IF ms[i].role = "system" /\ i > 1 THEN "ERR_SYSTEM_NOT_FIRST"
            ELSE IF ms[i].role = "other" THEN "ERR_UNEXPECTED_ROLE" ELSE "ok"
        badLoop  == {i \in DOMAIN ms : LoopError(i) # "ok"}
    IN  IF ms = <<>> THEN "ERR_NO_MESSAGES"
        ELSE IF sysError # "ok" THEN sysError
        ELSE IF badScan # {} THEN ContentError(ms[Max(badScan)].content, FALSE)
        ELSE IF Queries(req) = {} THEN "ERR_NO_USER_QUERY"
        ELSE IF badLoop # {} THEN LoopError(Min(badLoop)) ELSE "ok"

\* The text of a render that succeeds.
render(req) ==
    SystemBlock(req) \o FlattenSeq([i \in DOMAIN req.messages |-> MessageBlock(req, i)])
    \o GenerationPrompt(req.opts)

-----------------------------------------------------------------------------
(* Reading a reply back.  A failed parse is the record Failed.             *)

Failed == [ok |-> FALSE]

\* A bug to rule out: a parameter's value is trimmed as the contents are.
ParameterTrimmed(v) == jinja_trim(v)

\* The text between the tag and its end, newlines included.
ParameterValue(v) == v

RECURSIVE Parameters(_, _)
Parameters(rest, found) ==
    IF rest = <<>> THEN [ok |-> TRUE, arguments |-> found]
    ELSE IF rest[1] # "<parameter=" \/ FirstAt(rest, <<">", "NL">>) = 0 THEN Failed
    ELSE LET close  == FirstAt(rest, <<">", "NL">>)
             r      == After(rest, close + 1)
             inner  == FirstAt(r, <<"NL", "</parameter>", "NL">>)
             final  == FirstAt(r, <<"NL", "</parameter>">>)
             end    == IF inner # 0 THEN inner ELSE final
             length == IF inner # 0 THEN 3 ELSE 2
         IN  IF end = 0 THEN Failed
             ELSE Parameters(TrimStart(After(r, end + length - 1), {"NL"}),
                             Append(found, <<SubSeq(rest, 2, close - 1), ParameterValue(Upto(r, end - 1))>>))

parse_one(block) ==
    LET body  == Trim(block, {"NL"})
        close == FirstAt(body, <<">", "NL">>)
        rest  == TrimEnd(After(body, close + 1), {"NL"})
    IN  IF body = <<>> \/ close = 0 THEN Failed
        ELSE IF body[1] # "<function=" \/ close = 2 \/ rest = <<>> THEN Failed
        ELSE IF Last(rest) # "</function>" THEN Failed
        ELSE LET ps == Parameters(Trim(Front(rest), {"NL"}), <<>>)
             IN  IF ps.ok THEN [ok |-> TRUE, call |-> [name |-> SubSeq(body, 2, close - 1), arguments |-> ps.arguments]]
                 ELSE Failed

RECURSIVE parse_tool_calls(_)
parse_tool_calls(text) ==
    LET start == FirstAt(text, <<"<tool_call>">>)
        after == After(text, start)
        end   == FirstAt(after, <<"</tool_call>">>)
    IN  IF start = 0 THEN [ok |-> TRUE, calls |-> <<>>]
        ELSE IF end = 0 THEN Failed
        ELSE LET one  == parse_one(Trim(Upto(after, end - 1), {"NL"}))
                 more == parse_tool_calls(After(after, end))
             IN  IF one.ok /\ more.ok THEN [ok |-> TRUE, calls |-> <<one.call>> \o more.calls] ELSE Failed

\* A bug to rule out: the calls stay in the content they are read from.
ParseUncut(text) ==
    LET think  == FirstAt(text, <<"</think>">>)
        body   == IF think = 0 THEN text ELSE TrimStart(After(text, think), {"NL"})
        parsed == parse_tool_calls(body)
    IN  [reasoning  |-> IF think = 0 THEN NoReasoning
                        ELSE jinja_trim(AfterLast(Upto(text, think - 1), "<think>")),
         content    |-> jinja_trim(body),
         tool_calls |-> IF parsed.ok THEN parsed.calls ELSE <<>>]

parse_assistant(text) ==
    LET think  == FirstAt(text, <<"</think>">>)
        body   == IF think = 0 THEN text ELSE TrimStart(After(text, think), {"NL"})
        parsed == parse_tool_calls(body)
        cut    == FirstAt(body, <<"<tool_call>">>)
    IN  [reasoning  |-> IF think = 0 THEN NoReasoning
                        ELSE jinja_trim(AfterLast(Upto(text, think - 1), "<think>")),
         content    |-> jinja_trim(IF parsed.ok /\ cut # 0 THEN Upto(body, cut - 1) ELSE body),
         tool_calls |-> IF parsed.ok THEN parsed.calls ELSE <<>>]

=============================================================================
