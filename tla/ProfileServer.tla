---------------------------- MODULE ProfileServer -------------------------------
(***************************************************************************)
(* The read-only profile server (mcp-profile-server/src/server.ts) and its *)
(* HTTP front (http-server.ts): sessions over SSE that each have a server  *)
(* of the knowledge loaded when they began, requests that take what is     *)
(* loaded now, and clients that read a document chunk by chunk while the   *)
(* knowledge is loaded anew. Version v of the document has v characters.   *)
(* And what the profile server answers over HTTP (mcp-profile-server/src/  *)
(* http-server.ts): its start, the check of the bearer, the methods of     *)
(* POST /mcp; and what a session reads as a resource (server.ts), with the *)
(* screening of its text by a firewall that may not answer (core/src/      *)
(* privacy/waf.ts). A path is a sequence of segments; the heuristics of    *)
(* the firewall are a set of the documents that they flag.                 *)
(***************************************************************************)
EXTENDS Naturals, Sequences, FiniteSets, FiniteSetsExt, SequencesExt

CONSTANTS
  Clients,
  Limits,        \* chunk sizes that clients use
  MaxVersion     \* a bound: how often the knowledge is loaded

VARIABLES
  ir,           \* the version that options.ir yields, 0 for none
  connections,         \* connections whose response has not closed
  transports,   \* the map of the sessions
  server,       \* the version that the session's AKCPProfileServer was made of
  reading,      \* what each client reads
  called        \* the last call of a capability and what became of it
sessionVars == <<ir, connections, transports, server, reading, called>>

Body(v) == [i \in 1 .. v |-> <<v, i>>]
\* Front matter and boundaries around the body , as one character each.
FullText(v) == <<<<v, "front">>, <<v, "begin">>>> \o Body(v) \o <<<<v, "end">>>>

\* text.slice(offset, offset + limit)
Slice(text, offset, limit) ==
  SubSeq(text, offset + 1, IF offset + limit < Len(text) THEN offset + limit ELSE Len(text))

\* A client that does not read, and one that begins.
NotReading == [kind |-> "none", limit |-> 0, offset |-> 0, text |-> <<>>, from |-> {}, done |-> FALSE]
Start(kind, limit) == [NotReading EXCEPT !.kind = kind, !.limit = limit]

SideEffects == 
  {"none", "local-read", "local-write", "external-read", "external-write", "external-submit"}
\* isReadOnly, which a local reading is not.
ReadOnly(s) == s \in {"none", "external-read"}

\* The side effect that the gateway is told of.
Mapped(s) ==
  CASE s \in {"local-write", "external-write"} -> "write"
    [] s = "external-submit" -> "submit"
    [] OTHER -> "read"

SessionInit ==
  /\ ir = 0 /\ connections = {} /\ transports = {}
  /\ server = [c \in Clients |-> 0]
  /\ reading = [c \in Clients |-> NotReading]
  /\ called = [effect |-> "none", told |-> "read", status |-> "none"]

Load ==
  /\ ir < MaxVersion /\ ir' = ir + 1
  /\ UNCHANGED <<connections, transports, server, reading, called>>

\* GET /mcp/sse: the session is in the map before the knowledge is looked at; without
\* any, 503 is answered and no server is made.
Connect(c) ==
  /\ c \notin connections
  /\ connections' = connections \cup {c} /\ transports' = transports \cup {c}
  /\ server' = [server EXCEPT ![c] = ir]
  /\ UNCHANGED <<ir, reading, called>>

\* The response closes, by the client or after a 503.
Close(c) ==
  /\ c \in connections
  /\ connections' = connections \ {c} /\ transports' = transports \ {c}
  /\ reading' = [reading EXCEPT ![c] = NotReading]
  /\ server' = [server EXCEPT ![c] = 0]
  /\ UNCHANGED <<ir, called>>

Begin(c) ==
  /\ reading[c] = NotReading
  /\ \E limit \in Limits, kind \in {"session", "request"} :
       reading' = [reading EXCEPT ![c] = Start(kind, limit)]
  /\ UNCHANGED <<ir, connections, transports, server, called>>

\* POST /mcp/messages with read_document_chunk: the client goes on while there is more.
ReadDocumentChunk(c) ==
  LET r == reading[c]
      full == FullText(server[c])
  IN /\ c \in transports /\ server[c] > 0 /\ r.kind = "session" /\ ~r.done
     /\ reading' = [reading EXCEPT ![c] =
          [r EXCEPT !.text = @ \o Slice(full, r.offset, r.limit), !.offset = @ + r.limit,
                    !.from = @ \cup {server[c]}, !.done = r.offset + r.limit >= Len(full)]]
     /\ UNCHANGED <<ir, connections, transports, server, called>>

\* POST /mcp: the body without boundaries and without a word of whether there is more; the
\* client stops at a chunk that is not full.
PostChunk(c) ==
  LET r == reading[c]
      chunk == Slice(Body(ir), r.offset, r.limit)
  IN /\ ir > 0 /\ r.kind = "request" /\ ~r.done
     /\ reading' = [reading EXCEPT ![c] =
          [r EXCEPT !.text = @ \o chunk, !.offset = @ + r.limit,
                    !.from = @ \cup {ir}, !.done = Len(chunk) < r.limit]]
     /\ UNCHANGED <<ir, connections, transports, server, called>>

\* A tool made of a capability: the firewall, the gateway, and then nothing is done but
\* for those that only read.
CallTool(effect) ==
  /\ called' \in [effect : {effect}, told : {Mapped(effect)},
                  status : {"SECURITY_BLOCK", "INTERNAL_ERROR",
                            IF ReadOnly(effect) THEN "ok" ELSE "not_implemented"}]
  /\ UNCHANGED <<ir, connections, transports, server, reading>>

SessionNext ==
  \/ Load
  \/ \E c \in Clients : Connect(c) \/ Close(c) \/ Begin(c) \/ ReadDocumentChunk(c) \/ PostChunk(c)
  \/ \E s \in SideEffects : CallTool(s)

-----------------------------------------------------------------------------
(* Properties *)

\* What a session has read to the end is the document of one version, the one that was
\* loaded when the session began, whatever is loaded meanwhile; what requests have read is
\* if nothing was.
ReadIsWhole ==
  \A c \in Clients :
    LET r == reading[c] IN r.done =>
      /\ r.kind = "session" => r.text = FullText(server[c])
      /\ r.kind = "request" => \A v \in r.from : r.from = {v} => r.text = Body(v)

\* The map has the open connections, whether they got a server or not.
SessionsAreOpen == transports = connections /\ \A c \in Clients : server[c] > 0 => c \in connections

\* Nothing is done that is not told to the gateway as a reading, and no write is.
OnlyReadingsAreDone ==
  /\ called.status = "ok" => called.told = "read"
  /\ called.told = "read" <=> called.effect \in {"none", "local-read", "external-read"}

-----------------------------------------------------------------------------
CONSTANTS
  Bundles,     \* what may be loaded: sequences of the ids of concepts
  Suspects,    \* ids of the concepts whose text the heuristics flag
  Uris         \* that are asked for: of the bundle and the id

ProfileAssumption ==
  /\ Limits \subseteq Nat \ {0}
  /\ Bundles \subseteq Seq(Seq(STRING)) /\ Uris \subseteq Seq(STRING)

VARIABLES
  config,     \* how the server is started
  running,
  concepts,         \* the concepts that are loaded, if any
  session,    \* the concepts that a session was made of, if any
  answer      \* the last one, and to what
requestVars == <<config, running, concepts, session, answer>>

Configs ==
  [main : BOOLEAN,         \* by itself, or as part of another program
   auth : BOOLEAN,         \* AKCP_JWT_SECRET or AKCP_JWKS_URI
   insecure : BOOLEAN,     \* AKCP_ALLOW_INSECURE_DEV
   test : BOOLEAN,         \* NODE_ENV
   forged : BOOLEAN,       \* there is an attestation whose signature is wrong
   scan : BOOLEAN,         \* AKCP_ENABLE_RESOURCE_WAF
   key : BOOLEAN,          \* LAKERA_API_KEY
   failClosed : BOOLEAN]   \* failClosedOnGatewayError
Bearers == {"none", "wrong", "valid"}
Methods == {"initialize", "resources/list", "tools/list", "tools/call", "other"}
NoAnswer == [status |-> 0, bearer |-> "none", asked |-> <<>>, given |-> <<>>, risk |-> "possible", outage |-> FALSE]
Answer(status, bearer) == [NoAnswer EXCEPT !.status = status, !.bearer = bearer]

Uri(id) == <<"bundle">> \o id
Concepts == Range(concepts[1])

RequestInit ==
  /\ config \in Configs /\ running = FALSE
  /\ concepts = <<>> /\ session = <<>> /\ answer = NoAnswer

\* main refuses to run open by accident; createProfileHttpApp throws at a wrong signature.
Launch ==
  /\ ~running
  /\ running' = ((config.main => config.auth \/ config.insecure) /\ ~config.forged)
  /\ answer' = IF running' THEN NoAnswer ELSE Answer(1, "none")
  /\ UNCHANGED <<config, concepts, session>>

LoadBundle ==
  /\ concepts' \in {<<b>> : b \in Bundles}
  /\ answer' = NoAnswer
  /\ UNCHANGED <<config, running, session>>

\* The middleware: fails closed if nothing is configured, but for tests.
Entry(bearer) ==
  IF ~config.auth THEN (IF config.insecure \/ config.test THEN 200 ELSE 500)
  ELSE IF bearer = "valid" THEN 200 ELSE 401

\* GET /healthz and GET /readyz, which stand before the middleware.
Health == running /\ answer' = Answer(200, "none") /\ UNCHANGED <<config, running, concepts, session>>
Ready ==
  /\ running
  /\ answer' = Answer(IF concepts = <<>> THEN 503 ELSE 200, "none")
  /\ UNCHANGED <<config, running, concepts, session>>

\* The other methods of POST /mcp: they name documents and give none.
Post(bearer, method) ==
  /\ running
  /\ answer' = Answer(IF Entry(bearer) # 200 THEN Entry(bearer)
                      ELSE IF concepts = <<>> THEN 503
                      ELSE IF method \in {"tools/call", "other"} THEN 400 ELSE 200, bearer)
  /\ UNCHANGED <<config, running, concepts, session>>

\* resources/read: the first concept whose path the uri is, or ends in.
PostRead(bearer, uri) ==
  /\ running
  /\ answer' =
       LET hits == {i \in DOMAIN concepts[1] : IsSuffix(concepts[1][i], uri)}
           found == concepts # <<>> /\ hits # {}
       IN [Answer(IF Entry(bearer) # 200 THEN Entry(bearer)
                  ELSE IF concepts = <<>> THEN 503 ELSE IF found THEN 200 ELSE 404, bearer)
             EXCEPT !.asked = uri,
                    !.given = IF Entry(bearer) = 200 /\ found THEN concepts[1][Min(hits)] ELSE <<>>]
  /\ UNCHANGED <<config, running, concepts, session>>

\* GET /mcp/sse: a server is made of what is loaded, if anything is.
OpenSession(bearer) ==
  /\ running
  /\ session' = IF Entry(bearer) = 200 THEN concepts ELSE session
  /\ answer' = Answer(IF Entry(bearer) # 200 THEN Entry(bearer) ELSE IF concepts = <<>> THEN 503 ELSE 200, bearer)
  /\ UNCHANGED <<config, running, concepts>>

\* LakeraGateway.checkPrompt: by the service if there is a key for it; if that fails, all
\* or what the heuristics flag.
Flagged(id, reply) ==
  IF ~config.key THEN id \in Suspects
  ELSE IF reply = "error" THEN config.failClosed \/ id \in Suspects
  ELSE reply = "flagged"

\* A path with a step upwards is not registered as a resource.
Registered == {id \in Range(session[1]) : ".." \notin Range(id)}

\* The document, marked as the firewall says where resources are screened.
Screened(id, reply) ==
  [Answer(200, "session") EXCEPT
     !.asked = Uri(id), !.given = id, !.outage = ~config.key \/ reply = "error",
     !.risk = IF config.scan /\ Flagged(id, reply) THEN "high" ELSE "possible"]

\* A session reads a resource by the uri it is registered with.
SessionRead(uri) ==
  /\ session # <<>>
  /\ \E id \in Registered, reply \in {"flagged", "clean", "error"} :
       uri = Uri(id) /\ answer' = Screened(id, reply)
  /\ UNCHANGED <<config, running, concepts, session>>

RequestNext ==
  \/ Launch \/ LoadBundle \/ Health \/ Ready
  \/ \E b \in Bearers : OpenSession(b) \/ (\E m \in Methods : Post(b, m)) \/ (\E u \in Uris : PostRead(b, u))
  \/ \E u \in Uris : SessionRead(u)

-----------------------------------------------------------------------------
(* Properties *)

Open == ~config.auth /\ (config.insecure \/ config.test)
\* A document, or a session, is had with a valid bearer only, unless the server is open on
\* purpose; of a server that was started by itself, the tests' exception is none; and never
\* from one whose attestation is forged.
NothingWithoutBearer ==
  answer.given # <<>> \/ session # <<>> =>
    /\ running /\ ~config.forged
    /\ config.auth \/ Open
    /\ config.main /\ ~config.auth => config.insecure
    /\ answer.bearer \in {"none", "wrong"} /\ answer.given # <<>> => Open

\* A request is given a loaded document whose path ends its uri, and the one it asks for
\* unless the path of another one ends that uri too; a session is given the one it asks for,
\* and never one whose path goes upwards.
GivenIsAsked ==
  answer.given # <<>> =>
    /\ IsSuffix(answer.given, answer.asked)
    /\ answer.bearer = "session" => answer.asked = Uri(answer.given) /\ ".." \notin Range(answer.given)
    /\ answer.bearer # "session" => answer.given \in Concepts
    /\ answer.bearer # "session" /\ (\E id \in Concepts : Uri(id) = answer.asked) =>
         \/ Uri(answer.given) = answer.asked
         \/ \E id, other \in Concepts : id # other /\ Uri(id) = answer.asked /\ IsSuffix(other, answer.asked)

\* A document that is screened is marked when the heuristics flag it, if the service is not
\* there to judge; and if the server fails closed and the service fails, in any case.
OutageIsNoPass ==
  answer.bearer = "session" /\ answer.outage /\ config.scan /\ answer.given # <<>> =>
    /\ answer.given \in Suspects => answer.risk = "high"
    /\ config.failClosed /\ config.key => answer.risk = "high"

=================================================================================
