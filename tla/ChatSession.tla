---------------------------- MODULE ChatSession ----------------------------
(***************************************************************************)
(* A conversation: run_chat of gdn/src/bin/qwenrun.rs.  Each turn reads a  *)
(* line (with --repl), renders the whole conversation, lets the model      *)
(* continue it up to a stop token or the step limit, reads the reply back  *)
(* and puts it into the history.                                           *)
(***************************************************************************)
EXTENDS ChatTemplate

CONSTANTS Turns,      \* the conversations the command line may start with
          Tools,      \* the descriptions a --tools file may hold
          Lines,      \* the lines standard input may hold
          Replies(_), \* the continuations the model may write in its n-th turn
          Meant(_, _), \* the turns it may mean there, with or without thinking
          MaxTurns    \* bound: lines of standard input

VARIABLES repl, thinking, tools, messages, phase, prompt, said, meant, lines, exit

\* said and meant are history: what the model wrote last, and the turn it meant by it.
chatVars == <<repl, thinking, tools, messages, phase, prompt, said, meant, lines, exit>>

\* parse_turns and turns_to_messages: the flags in the order written.
turns_to_messages(turns) == [i \in DOMAIN turns |-> Message(turns[i][1], turns[i][2])]

Opts == [add_generation_prompt |-> TRUE, enable_thinking |-> thinking, add_vision_id |-> FALSE]

Conversation == [messages |-> messages, tools |-> tools, opts |-> Opts]

Unmeant == [role |-> "none"]          \* a text the template would not write

ChatInit ==
    /\ repl \in BOOLEAN
    /\ thinking \in BOOLEAN /\ tools \in Tools
    /\ \E turns \in Turns : messages = turns_to_messages(turns) /\ (repl \/ turns # <<>>)
    /\ phase = IF repl THEN "read" ELSE "render"
    /\ prompt = <<>> /\ said = <<>> /\ meant = Unmeant /\ lines = 0 /\ exit = "none"

Exit(code) == phase' = "done" /\ exit' = code

\* End of input or a blank line ends the session.
EndOfInput ==
    /\ phase = "read"
    /\ Exit("success")
    /\ UNCHANGED <<repl, thinking, tools, messages, prompt, said, meant, lines>>

ReadLine(line) ==
    /\ phase = "read" /\ lines < MaxTurns
    /\ lines' = lines + 1
    /\ IF Trim(line, Spaces) = <<>>
       THEN Exit("success") /\ UNCHANGED messages
       ELSE phase' = "render" /\ messages' = Append(messages, Message("user", line)) /\ UNCHANGED exit
    /\ UNCHANGED <<repl, thinking, tools, prompt, said, meant>>

RenderTurn ==
    /\ phase = "render"
    /\ IF RenderError(Conversation) # "ok"
       THEN Exit("failure") /\ UNCHANGED prompt
       ELSE phase' = "decode" /\ prompt' = render(Conversation) /\ UNCHANGED exit
    /\ UNCHANGED <<repl, thinking, tools, messages, said, meant, lines>>

DecodeFails ==
    /\ phase = "decode"
    /\ Exit("failure")
    /\ UNCHANGED <<repl, thinking, tools, messages, prompt, said, meant, lines>>

\* What goes into the history: the parts of the reply, never its text.
AssistantTurn(reply) ==
    [role |-> "assistant", content |-> [kind |-> "text", text |-> reply.content],
     reasoning |-> IF reply.reasoning = NoReasoning THEN <<>> ELSE reply.reasoning,
     tool_calls |-> reply.tool_calls]

\* A stopped reply and one cut at the step limit are read back alike.
FinishTurn(continuation, turn) ==
    /\ phase = "decode"
    /\ meant' = turn
    /\ said' = IF turn = Unmeant THEN <<>> ELSE continuation
    /\ IF repl
       THEN /\ messages' = Append(messages, AssistantTurn(parse_assistant(continuation)))
            /\ phase' = "read" /\ UNCHANGED exit
       ELSE Exit("success") /\ UNCHANGED messages
    /\ UNCHANGED <<repl, thinking, tools, prompt, lines>>

\* The body of a message's block, rendered in the turn it belongs to.
BodyOf(m) == AssistantBody(m, jinja_trim(m.content.text), TRUE)

\* What is left to write of a turn after the generation prompt.
TextOf(m) == After(BodyOf(m), IF thinking THEN 2 ELSE 6)

ChatNext ==
    \/ EndOfInput \/ RenderTurn \/ DecodeFails
    \/ \E line \in Lines : ReadLine(line)
    \/ \E r \in Replies(lines) : FinishTurn(r, Unmeant)
    \/ \E m \in Meant(lines, thinking) : FinishTurn(TextOf(m), m)

-----------------------------------------------------------------------------

Written(i) == messages[i].role = "assistant" /\ messages[i].reasoning # NoReasoning

(***************************************************************************)
(* A turn written the way the template writes it is read back as it was    *)
(* meant: reasoning, content, every call and every parameter, with the     *)
(* newlines inside the values ("a silently dropped tool call is worse than *)
(* a reported one").  The run's values hold newlines, blanks and other     *)
(* tags, but never a newline right before </parameter>: that is the end    *)
(* of the value to parse_one, and such a value cannot be recovered.        *)
(***************************************************************************)
TurnKept == repl /\ phase = "read" /\ meant # Unmeant => Last(messages) = meant

(***************************************************************************)
(* In a tool loop the prompt only grows: answering a call, by a tool       *)
(* message or by a user message that wraps the response, leaves everything *)
(* the model has already read and written in place, think block included.  *)
(* This is about replies in the template's own form; of any other the      *)
(* history keeps the canonical form (ReplyStable), not what was written.   *)
(***************************************************************************)
ToolLoopExtends ==
    repl /\ phase = "read" /\ meant # Unmeant =>
        \A answer \in {Message("tool", <<"x">>), Message("user", <<"<response>", "x", "</response>">>)} :
            IsPrefix(prompt \o said, render([Conversation EXCEPT !.messages = Append(@, answer)]))

(***************************************************************************)
(* "Render then parse then render must be the identity" (chatparse.rs):    *)
(* whatever the model wrote, the turn that run_chat keeps of it, rendered  *)
(* and read back, is that turn again.  No call, parameter or reasoning is  *)
(* lost or changed by going through the history.                           *)
(***************************************************************************)
ReplyStable ==
    \A i \in DOMAIN messages :
        Written(i) => AssistantTurn(parse_assistant(BodyOf(messages[i]))) = messages[i]

(***************************************************************************)
(* The prompt of a turn is a sequence of closed blocks followed by the     *)
(* open block the model is to continue: no marker is missing or nested,    *)
(* whatever tool results, tool-shaped user turns or tools came before.     *)
(* Words are free of the two markers here: render escapes nothing, so a    *)
(* line or reply that spells a marker out puts it into the prompt.         *)
(***************************************************************************)
PromptWellFormed ==
    LET Opens  == {i \in DOMAIN prompt : prompt[i] = "<|im_start|>"}
        Closes == {i \in DOMAIN prompt : prompt[i] = "<|im_end|>"}
    IN  phase = "decode" /\ messages[1].role # "tool" =>
            /\ 1 \in Opens
            /\ \A i \in Opens : prompt[i + 1] \in {"system", "user", "assistant"}
            /\ \A i, j \in Opens : i < j => \E k \in Closes : i < k /\ k < j
            /\ \A i, j \in Closes : i < j => \E k \in Opens : i < k /\ k < j
            /\ \A k \in Closes : \E i, j \in Opens : i < k /\ k < j

(***************************************************************************)
(* --reply, which run_chat prints as the way to answer a tool call, gives  *)
(* the model the same block as the REPL's history does: the turn kept from *)
(* a reply and the same turn given as text (from where the prompt left     *)
(* off) render alike, before and after the next query, unless the answer   *)
(* itself contains </think>.  The text is the turn as the template writes  *)
(* it; a continuation in another form is printed raw (qwenrun.rs:226).     *)
(***************************************************************************)
ReplayAgrees ==
    \A i \in DOMAIN messages :
        LET m    == messages[i]
            body == BodyOf(m)
            text == TextOf(m)
        IN  /\ Written(i)
            /\ thinking \/ m.reasoning = <<>>
            /\ Cardinality({k \in DOMAIN body : body[k] = "</think>"}) = 1
            => \A now \in BOOLEAN :
                   AssistantBody(Message("assistant", text), jinja_trim(text), now)
                       = AssistantBody(m, jinja_trim(m.content.text), now)

=============================================================================
