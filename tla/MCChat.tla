------------------------------- MODULE MCChat -------------------------------
(* Conversations, lines and replies for ChatSession. *)
EXTENDS ChatTemplate

Call == <<"<tool_call>", "NL", "<function=", "f", ">", "NL",
          "<parameter=", "a", ">", "NL", "x", "NL", "</parameter>", "NL",
          "<parameter=", "b", ">", "NL", "NL", "</parameter>", "NL",
          "</function>", "NL", "</tool_call>">>

Bases == {<<"r", "NL", "</think>", "NL", "NL", "y">> \o <<"NL", "NL">> \o Call,
          <<"SEP", "y">>}

Edits == {"<think>", "</think>", "<tool_call>", "</tool_call>", "<function=", "</function>",
          "<parameter=", "</parameter>", ">", "NL", "SEP"}

\* One symbol of a reply replaced, inserted or left out.
Edited(s) ==
    {Upto(s, i - 1) \o <<e>> \o After(s, i) : i \in 1 .. Len(s), e \in Edits}
    \cup {Upto(s, i) \o <<e>> \o After(s, i) : i \in 0 .. Len(s), e \in Edits}
    \cup {Upto(s, i - 1) \o After(s, i) : i \in 1 .. Len(s)}

\* Every edit in the first turn; the second turn only renders the first as history.
MCReplies(n) == IF n <= 1 THEN Bases \cup UNION {Edited(s) : s \in Bases} ELSE {<<"y">>}

Values == {<<>>, <<"x">>, <<"NL", "x", "NL">>, <<"SP">>, <<"x", ">", "NL", "<parameter=", "y">>}

Calls == {<<>>} \cup {<<[name |-> <<"f">>, arguments |-> <<>>], [name |-> <<"g">>, arguments |-> <<<<<<"a">>, v>>>>]>> : v \in Values}
              \cup {<<[name |-> <<"f">>, arguments |-> <<<<<<"a">>, v>>, <<<<"b">>, u>>>>]>> : u, v \in Values}

MCMeant(n, think) ==
    IF n > 1 THEN {} ELSE
    {[role |-> "assistant", content |-> [kind |-> "text", text |-> c], reasoning |-> r, tool_calls |-> calls] :
        c \in {<<>>, <<"y", "NL", "x">>}, r \in {<<>>} \cup (IF think THEN {<<"r", "SEP", "r">>} ELSE {}), calls \in Calls}

MCTools == {<<>>, <<"t">>}

MCLines == {<<"SP">>, <<"SEP", "q", "SEP">>}

MCTurns == {<<>>, <<<<"system", <<"s">>>>, <<"user", <<"q">>>>>>,
            <<<<"user", <<"q">>>>, <<"assistant", Call>>, <<"tool", <<"x">>>>, <<"tool", <<"y">>>>>>,
            <<<<"user", <<"q">>>>, <<"user", <<"<response>", "y", "</response>">>>>>>,
            <<<<"assistant", <<"y">>>>>>, <<<<"user", <<"q">>>>, <<"system", <<"s">>>>>>}
=============================================================================
