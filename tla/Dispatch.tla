------------------------------ MODULE Dispatch ------------------------------
(***************************************************************************)
(* The life of a client request: the routes of api/v1/routes.py and        *)
(* chat_completion, chat_completion_stream, image_generation and           *)
(* _record_db_usage of services/dispatch.py, over the response cache       *)
(* (ResponseCache), the connections of the httpx client (services/pool.py) *)
(* and the usage rows of the database.                                     *)
(*                                                                         *)
(* A step runs from one await that may suspend to the next; the cache's    *)
(* own awaits never do.  Which key a call uses and how often _do_request   *)
(* repeats it is the business of KeyPool: here the calls of one request    *)
(* are one.  No code installs a guardrail rule, so the two guardrail calls *)
(* let everything pass and are left out.                                   *)
(***************************************************************************)
EXTENDS ResponseCache, FiniteSets

CONSTANTS
  Request,      \* the requests of a behaviour
  Prompt,       \* what a client can ask
  NoPrompt,     \* the empty string that _extract_prompt finds without messages
  Asks,         \* the requests a client may send
  Connections,  \* max_connections of the client (64)
  MaxChunks,    \* bound on the chunks of an upstream stream
  MaxCrashes    \* bound on the number of crashes

Routes == {"chat", "messages", "gemini", "images", "stream"}

Ask == [route : Routes, prompt : Prompt, cacheable : BOOLEAN]

ASSUME DispatchAssumption ==
  /\ NoPrompt \notin Prompt
  /\ Asks \subseteq Ask
  /\ Connections \in Nat \ {0}
  /\ MaxChunks \in Nat
  /\ MaxCrashes \in Nat
  /\ Slot = [kind : {"json", "stream"}, prompt : Prompt \cup {NoPrompt}]
  /\ Text = [route : Routes, prompt : Prompt, whole : BOOLEAN]

VARIABLES
  pc,       \* where each request stands
  ask,      \* what it asks
  reply,    \* the text it answers with
  conn,     \* the requests that hold an upstream connection
  got,      \* chunks a stream has received and passed on
  locked,   \* attempts to write the usage row that met a locked database
  rows,     \* usage rows written for each request
  image,    \* what is left of a generated image: "none", "file" or "row" (and file)
  \* history and bounds
  via,      \* where the answer came from: "none", "upstream", "cache" or "replay"
  dropped,  \* the requests whose usage row was given up
  crashes

requestVars == << pc, ask, reply, conn, got, locked, rows, image, via, dropped >>
vars == << cacheVars, requestVars, crashes >>

(* The ways a request ends: answered; refused before or by the upstream;   *)
(* cut short after the headers were sent; ended by an exception no handler *)
(* was meant for; left by its client; killed with the process.             *)
Terminal == {"ok", "notfound", "failed", "broken", "unread", "gone", "lost"}

Active == {"opening", "waiting", "calling", "streaming", "closing", "leaving",
           "recording", "recordingCut", "saving", "filing"}

DispatchTypeOK ==
  /\ TypeOK
  /\ pc \in [Request -> {"idle"} \cup Active \cup Terminal]
  /\ ask \in [Request -> Ask \cup {Nothing}]
  /\ reply \in [Request -> Text \cup {Nothing}]
  /\ conn \subseteq Request
  /\ Cardinality(conn) <= Connections
  /\ got \in [Request -> 0 .. MaxChunks]
  /\ locked \in [Request -> 0 .. 4]
  /\ rows \in [Request -> Nat]
  /\ image \in [Request -> {"none", "file", "row"}]
  /\ via \in [Request -> {"none", "upstream", "cache", "replay"}]
  /\ dropped \subseteq Request
  /\ crashes \in 0 .. MaxCrashes

Goto(r, where) == pc' = [pc EXCEPT ![r] = where]

IsStream(a) == a.route = "stream"

(* The text that a call or a stream made for r ends up with: all of the    *)
(* upstream's answer, or its beginning.                                    *)
TextFor(r, whole) == [route |-> ask[r].route, prompt |-> ask[r].prompt, whole |-> whole]

-----------------------------------------------------------------------------
(* The cache key *)

(* _extract_prompt looks at the messages; a Gemini body has contents.      *)
PromptInKey(a) == IF a.route = "gemini" THEN NoPrompt ELSE a.prompt

(* Variant: a key without the stream's suffix.                             *)
OneSlot(a) == [kind |-> "json", prompt |-> PromptInKey(a)]

SlotOf(a) ==
  [kind   |-> IF IsStream(a) THEN "stream" ELSE "json",
   prompt |-> PromptInKey(a)]

(* Images are generated anew for every request.                            *)
Cacheable(a) == a.cacheable /\ a.route # "images"

Lookup(a) == IF Cacheable(a) THEN Get(SlotOf(a)) ELSE UNCHANGED cacheVars

IsHit(a) == Cacheable(a) /\ answer' # Nothing

Store(r, whole) ==
  IF Cacheable(ask[r]) THEN Set(SlotOf(ask[r]), TextFor(r, whole)) ELSE UNCHANGED cacheVars

-----------------------------------------------------------------------------
(* Arrival *)

(* The model is not in the registry: resolve gives None.  A stream's route *)
(* goes on all the same, to fail in the generator.                         *)
Unknown(r, a) ==
  /\ pc[r] = "idle"
  /\ ask' = [ask EXCEPT ![r] = a]
  /\ Goto(r, IF IsStream(a) THEN "opening" ELSE "notfound")
  /\ UNCHANGED << cacheVars, reply, conn, got, locked, rows, image, via, dropped, crashes >>

(* chat_completion up to its first call, or image_generation.  A hit goes  *)
(* on to its usage row.                                                    *)
Arrive(r, a) ==
  /\ pc[r] = "idle"
  /\ ~ IsStream(a)
  /\ ask' = [ask EXCEPT ![r] = a]
  /\ Lookup(a)
  /\ IF IsHit(a)
       THEN /\ Goto(r, "recording")
            /\ reply' = [reply EXCEPT ![r] = answer']
            /\ via' = [via EXCEPT ![r] = "cache"]
       ELSE /\ Goto(r, "waiting")
            /\ UNCHANGED << reply, image, via >>
  /\ UNCHANGED << conn, got, locked, rows, image, dropped, crashes >>

(* The route of a stream: resolve_stream_cache, whose hit is replayed, and *)
(* otherwise the response that will run chat_completion_stream.            *)
ArriveStream(r, a) ==
  /\ pc[r] = "idle"
  /\ IsStream(a)
  /\ ask' = [ask EXCEPT ![r] = a]
  /\ Lookup(a)
  /\ IF IsHit(a)
       THEN /\ Goto(r, "ok")
            /\ reply' = [reply EXCEPT ![r] = answer']
            /\ via' = [via EXCEPT ![r] = "replay"]
       ELSE /\ Goto(r, "opening")
            /\ UNCHANGED << reply, image, via >>
  /\ UNCHANGED << conn, got, locked, rows, image, dropped, crashes >>

(* The generator starts after the response's headers have been sent.  It   *)
(* resolves the model and asks the cache again.                            *)
Open(r) ==
  /\ pc[r] = "opening"
  /\ Lookup(ask[r])
  /\ IF IsHit(ask[r])
       THEN /\ Goto(r, "recording")
            /\ reply' = [reply EXCEPT ![r] = answer']
            /\ via' = [via EXCEPT ![r] = "cache"]
       ELSE /\ Goto(r, "waiting")
            /\ UNCHANGED << reply, image, via >>
  /\ UNCHANGED << ask, conn, got, locked, rows, image, dropped, crashes >>

OpenUnknown(r) ==
  /\ pc[r] = "opening"
  /\ Goto(r, "broken")
  /\ UNCHANGED << cacheVars, ask, reply, conn, got, locked, rows, image, via, dropped, crashes >>

-----------------------------------------------------------------------------
(* The upstream call *)

(* How an exception ends a request: a stream's headers are out already.    *)
Abort(r) == IF IsStream(ask[r]) THEN "broken" ELSE "failed"

Connect(r) ==
  /\ pc[r] = "waiting"
  /\ Cardinality(conn) < Connections
  /\ conn' = conn \cup {r}
  /\ Goto(r, "calling")
  /\ UNCHANGED << cacheVars, ask, reply, got, locked, rows, image, via, dropped, crashes >>

(* No connection became free within the client's timeout.                  *)
PoolTimeout(r) ==
  /\ pc[r] = "waiting"
  /\ Cardinality(conn) = Connections
  /\ Goto(r, Abort(r))
  /\ UNCHANGED << cacheVars, ask, reply, conn, got, locked, rows, image, via, dropped, crashes >>

(* The call times out, the connection fails or the body is not JSON.       *)
Fault(r) ==
  /\ pc[r] = "calling"
  /\ conn' = conn \ {r}
  /\ Goto(r, Abort(r))
  /\ UNCHANGED << cacheVars, ask, reply, got, locked, rows, image, via, dropped, crashes >>

(* Variant: the body of a refusal is kept like an answer.                  *)
RefuseAndStore(r) ==
  /\ pc[r] = "calling"
  /\ ~ IsStream(ask[r])
  /\ conn' = conn \ {r}
  /\ Store(r, TRUE)
  /\ Goto(r, "failed")
  /\ UNCHANGED << ask, reply, got, locked, rows, image, via, dropped, crashes >>

(* A status of 400 or more that _do_request does not retry.                *)
Refuse(r) ==
  /\ pc[r] = "calling"
  /\ ~ IsStream(ask[r])
  /\ conn' = conn \ {r}
  /\ Goto(r, "failed")
  /\ UNCHANGED << cacheVars, ask, reply, got, locked, rows, image, via, dropped, crashes >>

(* The same for a stream: resp.text raises ResponseNotRead, as nothing has *)
(* read the body of a streamed response, and aclose is never reached.      *)
RefuseStream(r) ==
  /\ pc[r] = "calling"
  /\ IsStream(ask[r])
  /\ Goto(r, "unread")
  /\ UNCHANGED << cacheVars, ask, reply, conn, got, locked, rows, image, via, dropped, crashes >>

(* A complete answer: cached, then accounted for.                          *)
Reply(r) ==
  /\ pc[r] = "calling"
  /\ ~ IsStream(ask[r])
  /\ conn' = conn \ {r}
  /\ Store(r, TRUE)
  /\ reply' = [reply EXCEPT ![r] = TextFor(r, TRUE)]
  /\ via' = [via EXCEPT ![r] = "upstream"]
  /\ Goto(r, "recording")
  /\ UNCHANGED << ask, got, locked, rows, image, dropped, crashes >>

-----------------------------------------------------------------------------
(* The stream *)

Headers(r) ==
  /\ pc[r] = "calling"
  /\ IsStream(ask[r])
  /\ Goto(r, "streaming")
  /\ via' = [via EXCEPT ![r] = "upstream"]
  /\ UNCHANGED << cacheVars, ask, reply, conn, got, locked, rows, image, dropped, crashes >>

Chunk(r) ==
  /\ pc[r] = "streaming"
  /\ got[r] < MaxChunks
  /\ got' = [got EXCEPT ![r] = @ + 1]
  /\ UNCHANGED << cacheVars, pc, ask, reply, conn, locked, rows, image, via, dropped, crashes >>

(* The loop is over, normally or by an exception of the upstream, or the   *)
(* client has gone: on to the finally clause, which closes the response.   *)
LeaveLoop(r) ==
  /\ pc[r] = "streaming"
  /\ \/ Goto(r, "closing") /\ reply' = [reply EXCEPT ![r] = TextFor(r, TRUE)]
     \/ Goto(r, "closing") /\ UNCHANGED reply
     \/ Goto(r, "leaving") /\ UNCHANGED reply
  /\ UNCHANGED << cacheVars, ask, conn, got, locked, rows, image, via, dropped, crashes >>

(* Variant: no aclose for a client that has left.                          *)
LeaveUnclosed(r) ==
  /\ pc[r] \in {"closing", "leaving"}
  /\ IF got[r] > 0 THEN Store(r, reply[r] # Nothing) ELSE UNCHANGED cacheVars
  /\ Goto(r, IF pc[r] = "closing" /\ reply[r] # Nothing THEN "recording" ELSE "recordingCut")
  /\ conn' = IF pc[r] = "leaving" THEN conn ELSE conn \ {r}
  /\ UNCHANGED << ask, reply, got, locked, rows, image, via, dropped, crashes >>

(* The response is closed; what has been received is cached if it is not   *)
(* nothing, whether or not it is all.                                      *)
Close(r) ==
  /\ pc[r] \in {"closing", "leaving"}
  /\ IF got[r] > 0 THEN Store(r, reply[r] # Nothing) ELSE UNCHANGED cacheVars
  /\ Goto(r, IF pc[r] = "closing" /\ reply[r] # Nothing THEN "recording" ELSE "recordingCut")
  /\ conn' = conn \ {r}
  /\ UNCHANGED << ask, reply, got, locked, rows, image, via, dropped, crashes >>

(* The server cancels the rest of the clause with the request.  Closing    *)
(* the connection is shielded from that, what follows is not.              *)
CancelClose(r) ==
  /\ pc[r] = "leaving"
  /\ conn' = conn \ {r}
  /\ Goto(r, "gone")
  /\ UNCHANGED << cacheVars, ask, reply, got, locked, rows, image, via, dropped, crashes >>

-----------------------------------------------------------------------------
(* The usage row *)

Recording(r) == pc[r] \in {"recording", "recordingCut"}

(* Where a request goes from there.                                        *)
Done(r) ==
  CASE pc[r] = "recordingCut"                              -> "broken"
    [] pc[r] = "recording" /\ ask[r].route = "images"      -> "saving"
    [] pc[r] = "recording" /\ ask[r].route # "images"      -> "ok"

(* Variant: a row is written, and the attempt repeated.                    *)
WriteRowAgain(r) ==
  /\ Recording(r)
  /\ rows[r] < 2
  /\ rows' = [rows EXCEPT ![r] = @ + 1]
  /\ UNCHANGED << pc, cacheVars, ask, reply, conn, got, locked, image, via, dropped, crashes >>

WriteRow(r) ==
  /\ Recording(r)
  /\ rows' = [rows EXCEPT ![r] = @ + 1]
  /\ Goto(r, Done(r))
  /\ UNCHANGED << cacheVars, ask, reply, conn, got, locked, image, via, dropped, crashes >>

(* Variant: one attempt too many.                                          *)
RetryOnceMore(r) ==
  /\ Recording(r)
  /\ locked' = [locked EXCEPT ![r] = @ + 1]
  /\ IF locked[r] <= 3
       THEN UNCHANGED << pc, dropped >>
       ELSE Goto(r, Done(r)) /\ dropped' = dropped \cup {r}
  /\ UNCHANGED << cacheVars, ask, reply, conn, got, rows, image, via, crashes >>

(* Variant: attempts without an end.                                       *)
RetryWithoutLimit(r) ==
  /\ Recording(r)
  /\ locked' = [locked EXCEPT ![r] = (@ + 1) % 4]
  /\ UNCHANGED << pc, dropped >>
  /\ UNCHANGED << cacheVars, ask, reply, conn, got, rows, image, via, crashes >>

(* "database is locked": three more attempts, then the row is given up.    *)
RowLocked(r) ==
  /\ Recording(r)
  /\ locked' = [locked EXCEPT ![r] = @ + 1]
  /\ IF locked[r] < 3
       THEN UNCHANGED << pc, dropped >>
       ELSE Goto(r, Done(r)) /\ dropped' = dropped \cup {r}
  /\ UNCHANGED << cacheVars, ask, reply, conn, got, rows, image, via, crashes >>

(* Any other error of the database.                                        *)
RowFails(r) ==
  /\ Recording(r)
  /\ dropped' = dropped \cup {r}
  /\ Goto(r, Done(r))
  /\ UNCHANGED << cacheVars, ask, reply, conn, got, locked, rows, image, via, crashes >>

(* A stream that records is left by its client, and cancelled; the commit  *)
(* may have been made by then.                                             *)
CancelRow(r) ==
  /\ Recording(r)
  /\ IsStream(ask[r])
  /\ rows' \in {rows, [rows EXCEPT ![r] = @ + 1]}
  /\ Goto(r, "gone")
  /\ UNCHANGED << cacheVars, ask, reply, conn, got, locked, image, via, dropped, crashes >>

-----------------------------------------------------------------------------
(* The generated image *)

(* There is nothing to keep (the upstream gave a URL), the file cannot be  *)
(* written, or it is, and its row comes next.                              *)
SaveImage(r) ==
  /\ pc[r] = "saving"
  /\ \/ Goto(r, "ok") /\ UNCHANGED image
     \/ Goto(r, "filing") /\ image' = [image EXCEPT ![r] = "file"]
  /\ UNCHANGED << cacheVars, ask, reply, conn, got, locked, rows, via, dropped, crashes >>

(* The directory cannot be made: the exception leaves the request.         *)
SaveFails(r) ==
  /\ pc[r] = "saving"
  /\ Goto(r, "failed")
  /\ UNCHANGED << cacheVars, ask, reply, conn, got, locked, rows, image, via, dropped, crashes >>

(* The image's row is committed, or an error of the database is logged.    *)
FileImage(r) ==
  /\ pc[r] = "filing"
  /\ image' \in {image, [image EXCEPT ![r] = "row"]}
  /\ Goto(r, "ok")
  /\ UNCHANGED << cacheVars, ask, reply, conn, got, locked, rows, via, dropped, crashes >>

-----------------------------------------------------------------------------
(* The process dies: cache, connections and open requests are lost; rows   *)
(* are in the database.                                                    *)
Crash ==
  /\ crashes < MaxCrashes
  /\ crashes' = crashes + 1
  /\ order' = << >>
  /\ entry' = [s \in Slot |-> Nothing]
  /\ answer' = Nothing
  /\ older' = {}
  /\ conn' = {}
  /\ pc' = [r \in Request |-> IF pc[r] \in Active THEN "lost" ELSE pc[r]]
  /\ UNCHANGED << ask, reply, got, locked, rows, image, via, dropped >>

Tick == Age /\ UNCHANGED << requestVars, crashes >>

DispatchInit ==
  /\ Init
  /\ pc = [r \in Request |-> "idle"]
  /\ ask = [r \in Request |-> Nothing]
  /\ reply = [r \in Request |-> Nothing]
  /\ conn = {}
  /\ got = [r \in Request |-> 0]
  /\ locked = [r \in Request |-> 0]
  /\ rows = [r \in Request |-> 0]
  /\ image = [r \in Request |-> "none"]
  /\ via = [r \in Request |-> "none"]
  /\ dropped = {}
  /\ crashes = 0

(* What goes on with a request once it has arrived.                        *)
Proceed(r) ==
  \/ Open(r) \/ OpenUnknown(r)
  \/ Connect(r) \/ PoolTimeout(r)
  \/ Fault(r) \/ Refuse(r) \/ RefuseStream(r) \/ Reply(r)
  \/ Headers(r) \/ Chunk(r) \/ LeaveLoop(r) \/ Close(r) \/ CancelClose(r)
  \/ WriteRow(r) \/ RowLocked(r) \/ RowFails(r) \/ CancelRow(r)
  \/ SaveImage(r) \/ SaveFails(r) \/ FileImage(r)

DispatchNext ==
  \/ \E r \in Request :
       \/ \E a \in Asks : Unknown(r, a) \/ Arrive(r, a) \/ ArriveStream(r, a)
       \/ Proceed(r)
  \/ Crash
  \/ Tick

DispatchSpec == DispatchInit /\ [][DispatchNext]_vars

(* Every await ends: the client's timeouts bound the wait for a connection *)
(* and for each chunk, the database's busy_timeout the wait for its lock.  *)
(* An upstream sends finitely many chunks.                                 *)
FairDispatch == DispatchSpec /\ \A r \in Request : WF_vars(Proceed(r))

-----------------------------------------------------------------------------
(* Properties *)

(* Each answer is accounted for once: by one row, or given up after four   *)
(* attempts or an error; only the replay of a cached stream by its route   *)
(* leaves none.  What was refused before an answer has no row (an image can*)
(* fail after its row), and nothing has two, also when the client leaves   *)
(* while the row is written or the process dies.                           *)
UsageAccounted ==
  \A r \in Request :
    /\ rows[r] + (IF r \in dropped THEN 1 ELSE 0) <= 1
    /\ pc[r] = "ok" => \/ via[r] = "replay" /\ rows[r] = 0
                       \/ rows[r] = 1
                       \/ r \in dropped
    /\ pc[r] \in {"notfound", "failed", "unread"} =>
         rows[r] = 0 \/ (pc[r] = "failed" /\ ask[r].route = "images")

(* The client's connections are all accounted for: one is held only while  *)
(* its request is at work with the upstream, however that ends, or for     *)
(* good by a stream whose upstream refused it.                             *)
ConnectionsReturned ==
  \A r \in conn : pc[r] \in {"calling", "streaming", "closing", "leaving", "unread"}

(* A request other than Gemini's is answered with a text made for its own  *)
(* prompt, and a stream with the text of a stream, whatever is cached,     *)
(* evicted or overwritten meanwhile.  What is answered is whole, but for a *)
(* stream that is served from the cache: a stream that broke off, or whose *)
(* client left, is kept as if it were complete (dispatch.py 497-502).      *)
AnswersKeptApart ==
  \A r \in Request :
    pc[r] = "ok" =>
      /\ ask[r].route # "gemini" => reply[r].prompt = ask[r].prompt
      /\ IsStream(ask[r]) <=> reply[r].route = "stream"
      /\ reply[r].whole \/ (IsStream(ask[r]) /\ via[r] \in {"cache", "replay"})

(* The service that clients see: see Service.                              *)
StageOf(place) ==
  CASE place = "idle"                          -> "new"
    [] place \in Active                        -> "open"
    [] place = "ok"                            -> "answered"
    [] place \in {"notfound", "failed"}        -> "refused"
    [] place \in {"broken", "unread", "gone"}  -> "cut"
    [] place = "lost"                          -> "lost"

WrittenFor(from, text) ==
  IF from # "upstream" THEN "nothing" ELSE IF text = Nothing THEN "part" ELSE "all"

Stage == [r \in Request |-> StageOf(pc[r])]
Written == [r \in Request |-> WrittenFor(via[r], reply[r])]

Contract ==
  INSTANCE Service WITH stage <- Stage, question <- ask, said <- reply,
                        written <- Written, charges <- rows, waived <- dropped

(* Through hits and misses, evictions, exhausted connections, locked       *)
(* databases, clients that leave and crashes, the routes keep the promise  *)
(* of Service: what answers a request was written by a provider, for it or *)
(* for one like it, a refusal or a fault never being kept as an answer;    *)
(* it is charged once and for something; and it ends once.                 *)
ImplementsService == Contract!Spec

(* Every request that has arrived comes to an end, also when the pool is   *)
(* exhausted or the database stays locked.                                 *)
EveryRequestEnds ==
  \A r \in Request : pc[r] \in Active ~> pc[r] \in Terminal

(* dispatch.py:5-6, "errors are AppError/UpstreamError values, never       *)
(* panics": a refused call is reported as an error and gives its           *)
(* connection back, so that a full pool is never full of ended requests.   *)
RefusalsAreHandled ==
  Cardinality(conn) = Connections => \E r \in conn : pc[r] \notin Terminal
=============================================================================
