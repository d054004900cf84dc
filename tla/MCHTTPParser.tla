---------------------------- MODULE MCHTTPParser ----------------------------
(***************************************************************************)
(* Streams of requests and of responses, for TLC.                          *)
(***************************************************************************)
EXTENDS HTTPParser

MCKeyOf ==
  [h \in {"cl0", "cl2"} |-> "Content-Length"]
    @@ [h \in {"chunked", "gzip"} |-> "Transfer-Encoding"]
    @@ [h \in {"trailer"} |-> "Trailer"]
    @@ [h \in {"multipart"} |-> "Content-Type"]
    @@ [h \in {"other"} |-> "X"]
MCLengthOf == [cl0 |-> 0, cl2 |-> 2]
MCChunkSizeOf == [s0 |-> 0, s1 |-> 1, s3 |-> 3]

Message(request, first, headers, body, length) ==
  [request |-> request, first |-> first, headers |-> headers, body |-> body, length |-> length]

\* Requests, the last three of which are not supported.
RequestMessages ==
  { Message("none", "GET", <<"other">>, <<>>, "known"),
    Message("none", "POST", <<"cl2">>, <<"a", "b">>, "known"),
    Message("none", "POST", <<"cl0">>, <<>>, "known"),
    Message("none", "POST", <<"other">>, <<"a">>, "unsupported"),
    Message("none", "PUT", <<"cl0">>, <<>>, "unsupported"),
    Message("none", "HEAD", <<"nocolon">>, <<>>, "unsupported") }

\* A body with CRLF in a chunk, a chunk extension being part of its header.
Chunks == <<"s3", "cr", "lf", "cr", "lf", "a", "cr", "lf", "s1", "cr", "lf", "b", "cr", "lf", "s0", "cr", "lf">>

FramedResponses ==
  { Message("GET", "200", <<"cl2">>, <<"cr", "lf">>, "known"),
    Message("HEAD", "200", <<"cl2">>, <<>>, "known"),
    Message("GET", "304", <<"chunked">>, <<>>, "known"),
    Message("POST", "200", <<"cl2", "chunked">>, Chunks \o CRLF, "chunked"),
    Message("GET", "200", <<"chunked", "trailer">>, Chunks \o <<"t">> \o CRLF \o CRLF, "chunked") }

LastResponses ==
  { Message("GET", "200", <<"other">>, <<"a", "cr", "lf", "b">>, "until_eof"),
    Message("GET", "200", <<"gzip", "cl2">>, <<"a", "b", "a">>, "until_eof"),
    Message("GET", "200", <<"multipart">>, <<"a">>, "unsupported"),
    Message("GET", "short", <<"cl0">>, <<>>, "unsupported") }

MCScripts ==
  {[kind |-> "requests", messages |-> ms] : ms \in RequestMessages \X RequestMessages}
    \union {[kind |-> "responses", messages |-> ms] :
              ms \in FramedResponses \X (FramedResponses \union LastResponses)}
=============================================================================
