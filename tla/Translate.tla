----------------------------- MODULE Translate -----------------------------
(***************************************************************************)
(* services/translate.py: the conversion of request and response bodies    *)
(* between the protocols, as pure operators on bodies.                     *)
(*                                                                         *)
(* A text is a sequence of atoms, so joining texts is concatenation and    *)
(* the empty text is << >>.  The content of a message is a sequence of     *)
(* blocks, whichever field a protocol keeps them in: a string is one text  *)
(* block, the tool_calls of an OpenAI message are call blocks behind its   *)
(* text and images, a role "tool" message is one result block.  Where a    *)
(* protocol has no call ids a call's id is the name of its function.       *)
(***************************************************************************)
EXTENDS Naturals, SequencesExt

Dumped == << 0, "dumped" >>         \* the quotes and braces of a dumped Python value
Malformed == << 0, "malformed" >>   \* arguments that are no JSON

(* A tool_choice that Cohere is told of (none, or a function of OpenAI's   *)
(* form), or another.                                                      *)
Parameters == {"temperature", "top_p", "max_tokens", "tools", "stream", "stop", "tool_choice", "other_choice"}

(* An answer is in the body of a response, the rest in that of a request.  *)
Empty == [system |-> << >>, messages |-> << >>, params |-> {}, answer |-> << >>]

(* The names a provider may be registered under.                           *)
Normalize(protocol) ==
  CASE protocol \in {"google", "vertex"} -> "gemini"
    [] protocol \in {"azure", "mistral", "xai", "groq", "together", "deepseek"} -> "openai"
    [] OTHER -> protocol

----------------------------------------------------------------------------
(* Blocks and messages.                                                    *)

NoId == << 0, "" >>
Block(kind, id, of) == [kind |-> kind, id |-> id, of |-> of]
Message(role, content) == [role |-> role, content |-> content]

FlatMap(s, Op(_)) == FlattenSeq([i \in 1 .. Len(s) |-> Op(s[i])])

(* SelectSeq, as FlatMap has it: the elements that pass the test.          *)
Keep(s, Test(_)) == FlatMap(s, LAMBDA x : IF Test(x) THEN << x >> ELSE << >>)

Only(content, kinds) == Keep(content, LAMBDA b : b.kind \in kinds)
Has(m, kind) == Only(m.content, {kind}) # << >>

(* The joined text of a list of blocks, and a block for it if there is any.*)
TextOf(content) == FlatMap(Only(content, {"text"}), LAMBDA b : b.of)
TextBlock(text) == IF text = << >> THEN << >> ELSE << Block("text", NoId, text) >>
Joined(content) == TextBlock(TextOf(content))

Named(calls) == [i \in 1 .. Len(calls) |-> [calls[i] EXCEPT !.id = Head(calls[i].of)]]
Dump(text) == << Dumped >> \o text

UserOrAssistant(role) == IF role = "assistant" THEN "assistant" ELSE "user"
UserOrModel(role) == IF role = "user" THEN "user" ELSE "model"

IsSystem(m) == m.role = "system"
SystemText(messages) == FlatMap(Keep(messages, IsSystem), LAMBDA m : TextOf(m.content))
Others(messages) == Keep(messages, LAMBDA m : ~ IsSystem(m))

(* Variant: the text of a message with calls is forgotten.                 *)
CallsAlone(m) == Message("assistant", Only(m.content, {"call"}))

(* Both directions of Anthropic keep the joined text in front of the calls.*)
WithCalls(m) == Message("assistant", Joined(m.content) \o Only(m.content, {"call"}))

----------------------------------------------------------------------------
(* From the OpenAI form.                                                   *)

ToAnthropicMessage(m) ==
  CASE m.role = "tool" -> Message("user", m.content)
    [] m.role = "assistant" /\ Has(m, "call") -> WithCalls(m)
    [] m.role # "tool" /\ ~ Has(m, "call") /\ Has(m, "image") ->
         Message(UserOrAssistant(m.role), Only(m.content, {"text", "image"}))
    [] OTHER -> Message(UserOrAssistant(m.role), Joined(m.content))

OpenAIToAnthropic(body) ==
  [Empty EXCEPT
     !.system = SystemText(body.messages),
     !.messages = LET kept == Others(body.messages) IN [i \in DOMAIN kept |-> ToAnthropicMessage(kept[i])],
     !.params = body.params \cup {"max_tokens"}]

(* Variant: whoever is not the user is taken for the assistant.            *)
ToGeminiMessageByRole(m) ==
  IF Has(m, "call")
  THEN Message("model", Joined(m.content) \o Named(Only(m.content, {"call"})))
  ELSE Message(UserOrModel(m.role), m.content)

ToGeminiMessage(m) ==
  CASE m.role = "tool" -> Message("user", m.content)
    [] m.role = "assistant" /\ Has(m, "call") ->
         Message("model", Joined(m.content) \o Named(Only(m.content, {"call"})))
    [] OTHER -> Message(UserOrModel(m.role), Only(m.content, {"text", "image"}))

OpenAIToGemini(body) ==
  [Empty EXCEPT
     !.system = SystemText(body.messages),
     !.messages = LET kept == Others(body.messages) IN [i \in DOMAIN kept |-> ToGeminiMessage(kept[i])],
     !.params = body.params \cap {"temperature", "top_p", "max_tokens", "tools", "stream"}]

(* Cohere's tool_choice is NONE or REQUIRED.                               *)
OpenAIToCohere(body) ==
  [Empty EXCEPT !.messages = body.messages, !.params = body.params \ {"other_choice"}]

(* Images move from the content into a list of their own.                  *)
ToOllamaMessage(m) ==
  Message(m.role, Joined(m.content) \o Only(m.content, {"image"}) \o Only(m.content, {"call", "result"}))

OpenAIToOllama(body) ==
  [Empty EXCEPT
     !.messages = [i \in DOMAIN body.messages |-> ToOllamaMessage(body.messages[i])],
     !.params = body.params \cap {"temperature", "top_p", "max_tokens", "tools", "stream"}]

FromOpenAI(to, body) ==
  CASE to = "anthropic" -> OpenAIToAnthropic(body)
    [] to = "gemini" -> OpenAIToGemini(body)
    [] to = "cohere" -> OpenAIToCohere(body)
    [] to = "ollama" -> OpenAIToOllama(body)
    [] OTHER -> body

(* The arguments of calls are parsed on the way to Anthropic and Gemini:   *)
(* json.loads raises.                                                      *)
Raises(to, body) ==
  /\ to \in {"anthropic", "gemini"}
  /\ \E i \in DOMAIN body.messages : \E j \in DOMAIN body.messages[i].content :
       LET b == body.messages[i].content[j] IN b.kind = "call" /\ \E k \in DOMAIN b.of : b.of[k] = Malformed

----------------------------------------------------------------------------
(* To the OpenAI form.                                                     *)

(* Variant: the text beside results is kept, in front of them.             *)
FromAnthropicTextFirst(m) ==
  (IF Joined(m.content) = << >> THEN << >> ELSE << Message(UserOrAssistant(m.role), Joined(m.content)) >>)
  \o FlatMap(Only(m.content, {"call", "result"}),
             LAMBDA b : << Message(IF b.kind = "call" THEN "assistant" ELSE "tool", << b >>) >>)

(* What stands beside the results of a user message is left behind.        *)
FromAnthropicMessage(m) ==
  CASE m.role = "assistant" /\ Has(m, "call") -> << WithCalls(m) >>
    [] m.role = "user" /\ Has(m, "result") ->
         FlatMap(Only(m.content, {"result"}), LAMBDA b : << Message("tool", << b >>) >>)
    [] ~ Has(m, "call") /\ ~ Has(m, "result") /\ Has(m, "image") ->
         << Message(m.role, Only(m.content, {"text", "image"})) >>
    [] OTHER -> << Message(UserOrAssistant(m.role), Joined(m.content)) >>

SystemMessage(text) == IF text = << >> THEN << >> ELSE << Message("system", TextBlock(text)) >>

AnthropicToOpenAI(body) ==
  [Empty EXCEPT
     !.messages = SystemMessage(body.system) \o FlatMap(body.messages, FromAnthropicMessage),
     !.params = {IF p = "tool_choice" THEN "other_choice" ELSE p : p \in body.params}]

(* Variant: a call that Gemini gives no id has none.                       *)
FromGeminiPartUnnamed(b) ==
  IF b.kind = "call"
  THEN << Message("assistant", << [b EXCEPT !.id = NoId] >>) >>
  ELSE << Message("tool", << b >>) >>

(* Every call and every result of a content becomes a message of its own,  *)
(* in front of the text and the images of that content.                    *)
FromGeminiPart(b) ==
  IF b.kind = "call"
  THEN << Message("assistant", Named(<< b >>)) >>
  ELSE << Message("tool", << [b EXCEPT !.of = Dump(@)] >>) >>

FromGeminiContent(c) ==
  LET said == Joined(c.content) \o Only(c.content, {"image"})
  IN  FlatMap(Only(c.content, {"call", "result"}), FromGeminiPart)
      \o (IF said = << >> THEN << >> ELSE << Message(IF c.role = "user" THEN "user" ELSE "assistant", said) >>)

(* _text_of of the systemInstruction object is the dump of the object.     *)
GeminiToOpenAI(body) ==
  [Empty EXCEPT
     !.messages = (IF body.system = << >> THEN << >> ELSE SystemMessage(Dump(body.system)))
                  \o FlatMap(body.messages, FromGeminiContent),
     !.params = body.params \cap {"temperature", "top_p", "max_tokens", "tools", "stream"}]

ToOpenAI(from, body) ==
  CASE from = "anthropic" -> AnthropicToOpenAI(body)
    [] from = "gemini" -> GeminiToOpenAI(body)
    [] OTHER -> body

(* translate_request, for the protocols that clients speak.                *)
TranslateRequest(from, to, body) ==
  IF Normalize(from) = Normalize(to) THEN body ELSE FromOpenAI(Normalize(to), ToOpenAI(Normalize(from), body))

----------------------------------------------------------------------------
(* Responses.                                                              *)

(* Variant: a model that calls a function says nothing.                    *)
CanonicalCallsOnly(from, answer) ==
  LET calls == Only(answer, {"call"}) IN IF calls = << >> THEN Joined(answer) ELSE calls

(* One text, then the calls, under their ids (Cohere, Anthropic) or, where *)
(* there are none, under the names of their functions (Ollama, Gemini).    *)
WithIds(answer) == Joined(answer) \o Only(answer, {"call"})
WithNames(answer) == Joined(answer) \o Named(Only(answer, {"call"}))

(* The answer of a provider as a chat.completion.                          *)
Canonical(from, answer) == IF from \in {"gemini", "ollama"} THEN WithNames(answer) ELSE WithIds(answer)

(* To a client that does not speak OpenAI the canonical answer is passed   *)
(* through the converter of requests, which reads `messages` and writes    *)
(* `messages`: neither is where an answer stands.                          *)
TranslateResponse(from, to, body) ==
  LET canonical == IF Normalize(from) = "openai" THEN body
                   ELSE [body EXCEPT !.answer = Canonical(Normalize(from), @)]
  IN  IF Normalize(from) = Normalize(to) THEN body ELSE FromOpenAI(Normalize(to), canonical)
=============================================================================
