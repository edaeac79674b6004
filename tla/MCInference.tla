------------------------------ MODULE MCInference ------------------------------
(***************************************************************************)
(* The components of a chat with the model, in one run: the conversation,  *)
(* its JSON, the tokenizer, decoding with a cache and sampling.  A         *)
(* behaviour belongs to one of them, the variable part says to which, and  *)
(* the variables of the others keep their idle values.  The properties of  *)
(* Generation are that module's own.                                       *)
(***************************************************************************)
EXTENDS Generation

VARIABLES
    part,
    repl, thinking, tools, messages, phase, prompt, said, meant, lines, exit,    \* ChatSession
    tstage, model, tk, text, normalized, at, plain_start, ids,            \* Tokenizer
    jstage, input, value, written, back,                                  \* PyJson
    hw, tokens, cache, logits, fed, generated, decoding                   \* CachedDecoding

chatVars   == <<repl, thinking, tools, messages, phase, prompt, said, meant, lines, exit>>
tokenVars  == <<tstage, model, tk, text, normalized, at, plain_start, ids>>
jsonVars   == <<jstage, input, value, written, back>>
decodeVars == <<hw, tokens, cache, logits, fed, generated, decoding>>
vars == <<part, chatVars, tokenVars, jsonVars, decodeVars, sampleVars>>

-----------------------------------------------------------------------------
ChatInputs == INSTANCE MCChat
MCTurns == ChatInputs!MCTurns
MCLines == ChatInputs!MCLines
MCTools == ChatInputs!MCTools
FirstReplies == ChatInputs!MCReplies(1)
MCReplies(n) == IF n <= 1 THEN FirstReplies ELSE ChatInputs!MCReplies(n)
MCMeant(n, think) == ChatInputs!MCMeant(n, think)
Chat == INSTANCE ChatSession WITH Turns <- MCTurns, Tools <- MCTools, Lines <- MCLines, Replies <- MCReplies, Meant <- MCMeant,
                                  MaxTurns <- 2

TokenInputs == INSTANCE MCTokenizer
MCDirectories == TokenInputs!MCDirectories
MCTexts == TokenInputs!MCTexts
Token == INSTANCE Tokenizer WITH Directories <- MCDirectories, Texts <- MCTexts

JsonInputs == INSTANCE MCJson
MCValues == JsonInputs!MCValues
MCDocuments == JsonInputs!MCDocuments
Json == INSTANCE PyJson WITH IntDigits <- 5, MaxExp <- 308, MinExp <- 324, Values <- MCValues, Documents <- MCDocuments

DecodeInputs == INSTANCE MCCachedDecoding WITH P <- 13
MCConfig == DecodeInputs!MCConfig
MCWeights == DecodeInputs!MCWeights
DecodePrompts == DecodeInputs!MCPrompts
Decode == INSTANCE CachedDecoding WITH P <- 13, WORK_PER_THREAD <- 5, MAX_THREADS <- 4, Config <- MCConfig,
                                       Weights <- MCWeights, Prompts <- DecodePrompts, Steps <- 3, Stop <- {2},
                                       Hardware <- {1, 3, 8}, prompt <- tokens, status <- decoding

SampleInputs == INSTANCE MCGeneration
MCConfigs == SampleInputs!MCConfigs
MCLogits == SampleInputs!MCLogits
SamplePrompts == SampleInputs!MCPrompts

-----------------------------------------------------------------------------
ChatIdle == /\ repl = 0 /\ thinking = 0 /\ tools = 0 /\ messages = 0 /\ phase = 0 /\ prompt = 0 /\ said = 0 /\ meant = 0
            /\ lines = 0 /\ exit = 0
TokenIdle == /\ tstage = 0 /\ model = 0 /\ tk = 0 /\ text = 0 /\ normalized = 0 /\ at = 0 /\ plain_start = 0 /\ ids = 0
JsonIdle == jstage = 0 /\ input = 0 /\ value = 0 /\ written = 0 /\ back = 0
DecodeIdle == /\ hw = 0 /\ tokens = 0 /\ cache = 0 /\ logits = 0 /\ fed = 0 /\ generated = 0 /\ decoding = 0
SampleIdle == cfg = Default /\ history = <<>> /\ start = 0 /\ row = NoLogits /\ sampling = "idle"

Init == \/ part = "chat" /\ Chat!ChatInit /\ TokenIdle /\ JsonIdle /\ DecodeIdle /\ SampleIdle
        \/ part = "token" /\ Token!TokenInit /\ ChatIdle /\ JsonIdle /\ DecodeIdle /\ SampleIdle
        \/ part = "json" /\ Json!JsonInit /\ ChatIdle /\ TokenIdle /\ DecodeIdle /\ SampleIdle
        \/ part = "decode" /\ Decode!Init /\ ChatIdle /\ TokenIdle /\ JsonIdle /\ SampleIdle
        \/ part = "sample" /\ SampleInit /\ ChatIdle /\ TokenIdle /\ JsonIdle /\ DecodeIdle

Next == /\ UNCHANGED part
        /\ \/ part = "chat" /\ Chat!ChatNext /\ UNCHANGED <<tokenVars, jsonVars, decodeVars, sampleVars>>
           \/ part = "token" /\ Token!TokenNext /\ UNCHANGED <<chatVars, jsonVars, decodeVars, sampleVars>>
           \/ part = "json" /\ Json!JsonNext /\ UNCHANGED <<chatVars, tokenVars, decodeVars, sampleVars>>
           \/ part = "decode" /\ Decode!Next /\ UNCHANGED <<chatVars, tokenVars, jsonVars, sampleVars>>
           \/ part = "sample" /\ SampleNext /\ UNCHANGED <<chatVars, tokenVars, jsonVars, decodeVars>>

Spec == Init /\ [][Next]_vars

-----------------------------------------------------------------------------
\* chatparse.rs: a turn written the way the template writes it is read back as it
\* was meant, every call and every parameter, with the newlines inside the values
\* (a newline right before </parameter> ends a value and is in none of them).
TurnKept == part = "chat" => Chat!TurnKept

\* chat.rs: in a tool loop the prompt only grows; answering a call leaves
\* everything the model has read and, in the template's form, written in place.
ToolLoopExtends == part = "chat" => Chat!ToolLoopExtends

\* chatparse.rs, "Render then parse then render must be the identity": whatever the
\* model wrote, the turn kept of it goes through the history unchanged.
ReplyStable == part = "chat" => Chat!ReplyStable

\* chat.rs: a prompt is a sequence of closed blocks and one open block, whatever
\* tools, tool results and tool-shaped user turns came before, unless a text spells
\* a marker out.
PromptWellFormed == part = "chat" => Chat!PromptWellFormed

\* qwenrun.rs, run_chat: a turn given as --reply gives the model the same block as
\* the same turn in the history of the REPL.
ReplayAgrees == part = "chat" => Chat!ReplayAgrees

\* tokenizer.rs: the ids are those of the shipped pipeline, added tokens split out
\* leftmost-longest and the text between them cut by the regex with backtracking.
EncodeIsReference == part = "token" => Token!EncodeIsReference

\* tokenizer.rs: decode(encode(x)) is nfc(x), wherever BPE merged and an added token
\* or a multi-byte character was cut.
RoundTrip == part = "token" => Token!RoundTrip

\* unicode_gc.rs: nfc computes the normal form of UAX #15 and is idempotent.
NfcCanonical == part = "token" => Token!NfcCanonical

\* pyjson.rs: dumps then parse is the identity on every value whose numbers are finite.
JsonRoundTrip == part = "json" => Json!JsonRoundTrip

\* pyjson.rs:770, "dumps then parse must be the identity on every value": not on the
\* infinite number that a text such as 1e400 is read as.
JsonIdentity == part = "json" => Json!JsonIdentity

\* model.rs: however the sequence was cut into chunks and whatever the parallelism,
\* the logits of the cached run are those of one serial forward over all of it.
CacheExact == part = "decode" => Decode!CacheExact

\* model.rs: greedy_cached_stopping generates what greedy does up to the first stop
\* token, and its flag tells a finished turn from a truncated one.
GreedyAgrees == part = "decode" => Decode!GreedyAgrees

\* lib.rs, attention.rs: sequences of one batch never read each other's rows, heads
\* or state, with and without a state carried between chunks.
BatchIndependent == part = "decode" => Decode!BatchIndependent
=============================================================================
