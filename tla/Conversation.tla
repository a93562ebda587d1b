--------------------------- MODULE Conversation ---------------------------
(***************************************************************************)
(* An agent's conversation through the panel: a client asks, the model     *)
(* answers with text and calls of functions, the client appends the        *)
(* answer and the results to its history and sends the whole history       *)
(* again.  Each request goes through chat_completion or                    *)
(* chat_completion_stream: the cache, translate_request, the provider,     *)
(* translate_response.  Between requests the model may be re-pointed to a  *)
(* provider of another protocol.                                           *)
(*                                                                         *)
(* One client and one answer at a time: what concurrent requests do to     *)
(* the cache is in ResponseCache and Dispatch.  An atom of the history is  *)
(* << n, what >>, with n odd for the client and even for the model,        *)
(* growing from request to request; atoms with n = 0 are no content.       *)
(***************************************************************************)
EXTENDS Translate, FiniteSets

CONSTANTS
  Clients,      \* the protocols of the routes: "openai", "anthropic", "gemini"
  Providers,    \* the protocols a model's provider may have
  ParamSets,    \* the parameters a client may send
  PromptLimit,  \* how much of the prompt the cache key holds (8000 characters)
  MaxRequests,  \* bound on the requests of a behaviour
  MaxReroutes   \* bound on the changes of the provider

ASSUME ConversationAssumption ==
  /\ Clients \subseteq {"openai", "anthropic", "gemini"}
  /\ {Normalize(p) : p \in Providers} \subseteq {"openai", "anthropic", "gemini", "cohere", "ollama"}
  /\ ParamSets \subseteq SUBSET Parameters
  /\ {PromptLimit, MaxRequests, MaxReroutes} \subseteq Nat

VARIABLES
  client,    \* the protocol of the client's route
  params,    \* what it sends besides messages
  history,   \* its messages, in its own protocol
  provider,  \* the protocol of the provider the model belongs to
  upstream,  \* the request the provider works on: [to, body], or Idle
  reply,     \* what the last request came back with
  cache,     \* the answers kept: [key, answer, asked]
  requests,  \* requests sent
  reroutes   \* changes of the provider

vars == << client, params, history, provider, upstream, reply, cache, requests, reroutes >>

Idle == [to |-> "nobody", body |-> Empty]
NoReply == [status |-> "none", via |-> "nobody", given |-> << >>, answer |-> << >>, asked |-> << >>]

System == << << 0, "system" >> >>

(* The request as the client sends it; OpenAI's system text is a message.  *)
ClientBody ==
  IF client = "openai"
  THEN [Empty EXCEPT !.messages = SystemMessage(System) \o history, !.params = params]
  ELSE [Empty EXCEPT !.system = System, !.messages = history, !.params = params]

Streamed == "stream" \in params

----------------------------------------------------------------------------
(* The cache, by what its key depends on.                                  *)

(* Variant: results are no part of the prompt of any client.               *)
ShownOfText(m) == TextOf(m.content)

(* _extract_prompt: what messages[].content shows of its text; the results *)
(* of an Anthropic message are under `content`, not `text`, and a Gemini   *)
(* body has no messages.  The key holds the beginning.                     *)
ShownOf(m) == IF m.role = "tool" THEN m.content[1].of ELSE TextOf(m.content)
Shown == IF client = "gemini" THEN << >> ELSE FlatMap(ClientBody.messages, ShownOf)
Prompt == SubSeq(Shown, 1, IF Len(Shown) < PromptLimit THEN Len(Shown) ELSE PromptLimit)

(* Without a temperature, or with 0, at the top of the body: Gemini keeps  *)
(* it elsewhere.  Streams are kept for the OpenAI route only.              *)
Cacheable == (client = "gemini" \/ "temperature" \notin params) /\ (Streamed => client = "openai")

Hits == {c \in cache : Cacheable /\ c.key = Prompt}

Kept(entry) == IF Cacheable THEN {c \in cache : c.key # entry.key} \cup {entry} ELSE cache

----------------------------------------------------------------------------
(* The client.                                                             *)

Now == 2 * requests + 1   \* the number of what the client says next

ClientRole == IF client = "gemini" THEN "model" ELSE "assistant"
LastIs(role) == history # << >> /\ history[Len(history)].role = role
OpenCalls == IF LastIs(ClientRole) THEN Only(history[Len(history)].content, {"call"}) ELSE << >>

Said(what) == Block("text", NoId, << << Now, what >> >>)
Image == Block("image", NoId, << << Now, "image" >> >>)
Questions == { << Said("question") >>, << Said("question"), Image >> }

(* A question, when nothing is left to be answered.                        *)
Say ==
  /\ upstream = Idle /\ requests < MaxRequests
  /\ history = << >> \/ LastIs(ClientRole)
  /\ OpenCalls = << >>
  /\ \E question \in Questions : history' = Append(history, Message("user", question))
  /\ UNCHANGED << client, params, provider, upstream, reply, cache, requests, reroutes >>

Result(i) == Block("result", OpenCalls[i].id, << << Now, IF i = 1 THEN "result" ELSE "result 2" >> >>)

(* The results of all calls: OpenAI has a message for each, the others one *)
(* message for all, to which an Anthropic client may add a text.           *)
GiveResults ==
  LET results == [i \in 1 .. Len(OpenCalls) |-> Result(i)]
  IN  /\ upstream = Idle /\ requests < MaxRequests
      /\ OpenCalls # << >>
      /\ \/ /\ client = "openai"
            /\ history' = history \o [i \in 1 .. Len(OpenCalls) |-> Message("tool", << Result(i) >>)]
         \/ client # "openai" /\ history' = Append(history, Message("user", results))
         \/ client = "anthropic" /\ history' = Append(history, Message("user", Append(results, Said("reminder"))))
      /\ UNCHANGED << client, params, provider, upstream, reply, cache, requests, reroutes >>

(* What the client reads of a response: it appends the answer, or has      *)
(* nothing to append and may send the same history again.                  *)
Receive(r) ==
  /\ reply' = r
  /\ history' = IF r.status = "ok" /\ r.answer # << >> THEN Append(history, Message(ClientRole, r.answer)) ELSE history

----------------------------------------------------------------------------
(* The panel.                                                              *)

MaySend == upstream = Idle /\ requests < MaxRequests /\ history # << >> /\ ~ LastIs(ClientRole)

(* The cache has an answer under the key: it is served as it was stored.   *)
ServeHit ==
  /\ MaySend
  /\ \E hit \in Hits :
       Receive([status |-> "ok", via |-> "cache", given |-> hit.answer, answer |-> hit.answer, asked |-> hit.asked])
  /\ requests' = requests + 1
  /\ UNCHANGED << client, params, provider, upstream, cache, reroutes >>

(* The request is translated and goes upstream, or json.loads raises.      *)
Send ==
  LET own == ToOpenAI(client, ClientBody)
      to == Normalize(provider)
  IN  /\ MaySend /\ Hits = {}
      /\ requests' = requests + 1
      /\ IF client # to /\ Raises(to, own)
         THEN Receive([NoReply EXCEPT !.status = "error"]) /\ UNCHANGED upstream
         ELSE /\ upstream' = [to |-> to, body |-> TranslateRequest(client, provider, ClientBody)]
              /\ UNCHANGED << reply, history >>
      /\ UNCHANGED << client, params, provider, cache, reroutes >>

(* What a model may answer: a text, a call, two calls of one function, a   *)
(* text and a call, or a call whose arguments broke off.                   *)
Answers ==
  LET tag == 2 * requests
      Id(i) == IF upstream.to \in {"gemini", "ollama"} THEN << 0, "f" >> ELSE << tag, i >>
      Call(i, args) == Block("call", Id(i), << << 0, "f" >>, << tag, i >>, args >>)
      text == Block("text", NoId, << << tag, "says" >> >>)
      whole == << 0, "args" >>
  IN  { << text >>, << Call("a", whole), Call("b", whole) >>, << text, Call("a", whole) >> }
      \cup (IF upstream.to \in {"openai", "cohere"} THEN { << Call("a", Malformed) >> } ELSE { << Call("a", whole) >> })

(* The answer arrives.  A stream of the OpenAI route is passed on (and     *)
(* kept) chunk by chunk as the provider sends it, which its client can     *)
(* read if the provider speaks OpenAI.  The other routes wait for one JSON *)
(* document whatever the body asks for: resp.json() of a stream raises.    *)
Answer ==
  \E given \in Answers :
    LET raw == [Empty EXCEPT !.answer = given]
        answer == IF Streamed THEN given ELSE TranslateResponse(upstream.to, client, raw).answer
        readable == ~ Streamed \/ upstream.to = "openai"
        failed == Streamed /\ client # "openai"
        read == IF readable THEN answer ELSE << >>
        r == [status |-> "ok", via |-> upstream.to, given |-> given, answer |-> read, asked |-> history]
    IN  /\ upstream # Idle
        /\ upstream' = Idle
        /\ IF failed
           THEN Receive([r EXCEPT !.status = "error", !.answer = << >>]) /\ UNCHANGED cache
           ELSE Receive(r) /\ cache' = Kept([key |-> Prompt, answer |-> read, asked |-> history])
        /\ UNCHANGED << client, params, provider, requests, reroutes >>

(* The entries expire.                                                     *)
Expire ==
  /\ upstream = Idle /\ cache # {}
  /\ cache' = {}
  /\ UNCHANGED << client, params, history, provider, upstream, reply, requests, reroutes >>

(* An administrator points the model to another provider.                  *)
Reroute ==
  /\ upstream = Idle /\ reroutes < MaxReroutes
  /\ provider' \in Providers \ {provider}
  /\ reroutes' = reroutes + 1
  /\ UNCHANGED << client, params, history, upstream, reply, cache, requests >>

Init ==
  /\ client \in Clients /\ params \in ParamSets /\ provider \in Providers
  /\ history = << >> /\ upstream = Idle /\ reply = NoReply /\ cache = {}
  /\ requests = 0 /\ reroutes = 0

Next == Say \/ GiveResults \/ ServeHit \/ Send \/ Answer \/ Expire \/ Reroute

Spec == Init /\ [][Next]_vars

----------------------------------------------------------------------------
(* Properties.                                                             *)

Blocks(messages) == FlatMap(messages, LAMBDA m : m.content)
ContentOf(b) == Keep(b.of, LAMBDA a : a[1] > 0)
Contents(messages) == FlatMap(Blocks(messages), ContentOf)
Atoms(messages) == ToSet(Contents(messages))
SystemIn(body) == body.system \o SystemText(body.messages)

RolesOf ==
  [anthropic |-> {"user", "assistant"}, gemini |-> {"user", "model"},
   openai |-> {"system", "user", "assistant", "tool"},
   cohere |-> {"system", "user", "assistant", "tool"}, ollama |-> {"system", "user", "assistant", "tool"}]

ClientSide == {"user", "tool"}

(* Every request is well formed in the provider's protocol: its roles, the *)
(* places of calls and results, and no message without content.            *)
WellFormed(to, body) ==
  \A i \in DOMAIN body.messages :
    LET m == body.messages[i]
    IN  /\ m.role \in RolesOf[to]
        /\ m.content # << >>
        /\ Has(m, "call") => m.role \in {"assistant", "model"}
        /\ Has(m, "result") => m.role = (IF "tool" \in RolesOf[to] THEN "tool" ELSE "user")

(* Types, and the form of what goes upstream (translate.py 124-605).       *)
TypeOK ==
  /\ client \in Clients /\ params \in ParamSets /\ provider \in Providers
  /\ requests \in 0 .. MaxRequests /\ reroutes \in 0 .. MaxReroutes
  /\ reply.status \in {"none", "ok", "error"}
  /\ Cardinality({c.key : c \in cache}) = Cardinality(cache)
  /\ upstream # Idle => upstream.to \in DOMAIN RolesOf /\ WellFormed(upstream.to, upstream.body)

(* What an Anthropic client says in one message with results.              *)
BesideResults ==
  UNION {Atoms(<< Message("user", Only(history[i].content, {"text", "image"})) >>) :
           i \in {j \in DOMAIN history : Has(history[j], "result")}}

(* The provider gets the conversation the client holds, through one        *)
(* conversion or two (translate.py 640-690), and so does the next provider *)
(* of another protocol: every text, image, call and result once, in order, *)
(* from the side that said it, with the system text and the parameters all *)
(* protocols have.  One thing is lost when the protocol changes: a text in *)
(* the same Anthropic message as results.                                  *)
RequestArrives ==
  upstream # Idle =>
    LET messages == upstream.body.messages
        arrived == Contents(messages)
        lost == IF client = "anthropic" /\ upstream.to # "anthropic" THEN BesideResults ELSE {}
        held == Keep(Contents(history), LAMBDA a : a \notin lost)
    IN  /\ ToSet(arrived) = ToSet(held)
        /\ Len(arrived) = Len(held) /\ \A i \in DOMAIN held : arrived[i][1] = held[i][1]
        /\ \A i \in DOMAIN messages : \A a \in Atoms(<< messages[i] >>) :
             messages[i].role \in ClientSide <=> a[1] % 2 = 1
        /\ ToSet(SystemIn(upstream.body)) \ {Dumped} = ToSet(System)
        /\ params \cap {"temperature", "top_p", "max_tokens", "tools", "stream"} \subseteq upstream.body.params

CallIds(messages) == {b.id : b \in ToSet(Only(Blocks(messages), {"call"}))}
ResultIds(messages) == {b.id : b \in ToSet(Only(Blocks(messages), {"result"}))}

(* A result in a request names a call made before it.  Only a conversation *)
(* that Gemini takes over from a provider with call ids cannot keep this:  *)
(* its calls have no ids and the results keep theirs (translate.py 321).   *)
ResultsNameCalls ==
  upstream # Idle =>
    LET messages == upstream.body.messages
        TakenOver == upstream.to = "gemini" /\ \E id \in CallIds(history) : id # << 0, "f" >>
    IN  TakenOver \/ \A i \in DOMAIN messages :
          ResultIds(<< messages[i] >>) \subseteq CallIds(SubSeq(messages, 1, i - 1))

(* Providers want the results of all calls of a message directly behind    *)
(* it.  They are, unless a Gemini content with several calls, or a text    *)
(* and a call, was taken apart for another protocol (translate.py 417-455).*)
CallsAnsweredAtOnce ==
  upstream # Idle =>
    LET messages == upstream.body.messages
        TakenApart == client = "gemini" /\ upstream.to # "gemini"
                      /\ \E i \in DOMAIN history : Has(history[i], "call") /\ Len(history[i].content) > 1
        AllResults(i, k) == \A j \in i + 1 .. k : Has(messages[j], "result")
        Renamed == upstream.to = "gemini" /\ \E id \in CallIds(history) : id # << 0, "f" >>
    IN  TakenApart \/ \A i \in DOMAIN messages : Has(messages[i], "call") =>
          \E k \in i + 1 .. Len(messages) :
            /\ AllResults(i, k)
            /\ Renamed \/ CallIds(<< messages[i] >>) \subseteq ResultIds(SubSeq(messages, i + 1, k))

(* A client that reads the form of its answer gets all of it: an OpenAI    *)
(* client of any provider without streaming, any client of its own         *)
(* protocol, a stream of OpenAI (dispatch.py 263-270, 494-496).            *)
AnswersArrive ==
  LET whole == client = reply.via \/ (client = "openai" /\ ~ Streamed)
      reads == client = "openai" \/ ~ Streamed
      Of(answer) == << TextOf(answer), [i \in DOMAIN Only(answer, {"call"}) |-> Only(answer, {"call"})[i].of] >>
  IN  (reply.status = "ok" /\ reply.via # "cache" /\ whole /\ reads) => Of(reply.answer) = Of(reply.given)

PlainText == \A i \in DOMAIN history : ~ Has(history[i], "image")

(* An OpenAI client whose conversation has no images and fits the cache    *)
(* key is never answered with what was said to another history of its own: *)
(* repeating a request is answered from the cache, going on is not.        *)
AnswersOwnHistory ==
  [][(ServeHit /\ client = "openai" /\ PlainText /\ Len(Shown) <= PromptLimit) => reply'.asked = history]_vars

(* cache.py 3: the key of an entry holds the prompt.  So an answer from    *)
(* the cache was given to the history that asks for it.                    *)
AnswersTheHistory == [][ServeHit => reply'.asked = history]_vars
=============================================================================
