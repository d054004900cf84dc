----------------------------- MODULE HTTPParser -----------------------------
(***************************************************************************)
(* HTTPMessageSequence::parse, the incremental parser of the proxies, with *)
(* the two kinds of message it is instantiated for, HTTPRequest and        *)
(* HTTPResponse, and the parser of chunked bodies.                         *)
(*                                                                         *)
(* A stream is a sequence of tokens: "cr", "lf" and words.  A word is a    *)
(* first line, a header, a chunk header or a byte of a body.  What it is   *)
(* made of is left out, so a read may end before and after it, and between *)
(* CR and LF.  What the peer sends, and when it stops, is external.        *)
(***************************************************************************)
EXTENDS Integers, Sequences, SequencesExt

CONSTANTS
  Scripts,           \* bound on the streams: a set of [kind, messages]
  KeyOf,             \* for each header with a colon, its key
  LengthOf,          \* for each Content-Length header, the number
  ChunkedHeaders,    \* Transfer-Encoding headers whose last coding is "chunked"
  MultipartHeaders,  \* Content-Type headers of multipart/byteranges
  ChunkSizeOf        \* for each chunk header, the size (below 2^32 - 2)

ASSUME HTTPAssumption ==
  /\ \A s \in Scripts : s.kind \in {"requests", "responses"}
  /\ \A h \in DOMAIN LengthOf : KeyOf[h] = "Content-Length" /\ LengthOf[h] \in Nat
  /\ \A c \in DOMAIN ChunkSizeOf : ChunkSizeOf[c] \in Nat

CRLF == <<"cr", "lf">>

VARIABLES
  script,    \* external: the stream of this connection
  asked,     \* how many requests new_request_arrived was told of
  taken,     \* how many tokens of the stream parse() was given
  closed,    \* whether parse() was told of EOF
  requests,  \* requests_: the methods of the requests not yet matched up
  buffer,    \* buffer_: what has not been parsed yet
  message,   \* message_in_progress_
  chunked,   \* its ChunkedBodyParser
  complete,  \* complete_messages_, with those that were popped
  pc         \* "idle" between calls, "parsing", "chunks" in ChunkedBodyParser::read;
             \* at the end "threw" or "aborted"

vars == <<script, asked, taken, closed, requests, buffer, message, chunked, complete, pc>>
stream == <<script, asked, taken, closed>>

NewMessage ==
  [state |-> "first_line", first |-> <<>>, headers |-> <<>>, body |-> <<>>,
   request |-> "", known |-> FALSE, size |-> -1, parser |-> "none"]

NewChunkedBodyParser(trailers) ==
  [state |-> "header", buffer |-> <<>>, size |-> 0, acked |-> 0, parsed |-> 0, trailers |-> trailers]

-----------------------------------------------------------------------------
(***************************************************************************)
(* What the peer sends.                                                    *)
(***************************************************************************)
HeadOf(m) == <<m.first>> \o CRLF \o FlattenSeq([i \in DOMAIN m.headers |-> <<m.headers[i]>> \o CRLF]) \o CRLF
Wire(m) == HeadOf(m) \o m.body
WireOfFirst(n) == FlattenSeq([i \in 1 .. n |-> Wire(script.messages[i])])

\* The requests that the responses answer, one each: a server sends no interim response.
Requests == [i \in DOMAIN script.messages |-> script.messages[i].request]

\* A server answers only what it was asked.
Answerable(n) == script.kind = "requests" \/ n - 1 < asked
Sent == WireOfFirst(Max({0} \union {n \in DOMAIN script.messages : Answerable(n)}))

-----------------------------------------------------------------------------
Init ==
  /\ script \in Scripts
  /\ asked = 0
  /\ taken = 0
  /\ closed = FALSE
  /\ requests = <<>>
  /\ buffer = <<>>
  /\ message = NewMessage
  /\ chunked = NewChunkedBodyParser(FALSE)
  /\ complete = <<>>
  /\ pc = "idle"

\* HTTPResponseParser::new_request_arrived
NewRequestArrived ==
  /\ pc = "idle" /\ ~closed
  /\ script.kind = "responses"
  /\ asked < Len(Requests)
  /\ asked' = asked + 1
  /\ requests' = Append(requests, Requests[asked + 1])
  /\ UNCHANGED <<script, taken, closed, buffer, message, chunked, complete, pc>>

\* parse() with what a read returned: any part of what was sent.
Parse ==
  /\ pc = "idle" /\ ~closed
  /\ \E n \in taken + 1 .. Len(Sent) :
       /\ taken' = n
       /\ buffer' = buffer \o SubSeq(Sent, taken + 1, n)
  /\ pc' = "parsing"
  /\ UNCHANGED <<script, asked, closed, requests, message, chunked, complete>>

\* An eof() that minds the end of a stream between two messages.
EOFIsFatalAnywhere ==
  \/ message.state \in {"first_line", "headers"}
  \/ message.state = "body" /\ message.parser = "none"

\* HTTPMessage::eof with eof_in_body throws in the headers, in a body of known
\* length and in the body of a request.
EOFIsFatal ==
  \/ message.state = "headers"
  \/ message.state = "body" /\ message.parser = "none"

\* parse() with an empty string.
ParseEOF ==
  /\ pc = "idle" /\ ~closed
  /\ closed' = TRUE
  /\ IF EOFIsFatal
       THEN pc' = "threw" /\ UNCHANGED message
       ELSE /\ pc' = "parsing"
            /\ message' = IF message.state = "body" THEN [message EXCEPT !.state = "complete"]
                                                    ELSE message
  /\ UNCHANGED <<script, asked, taken, requests, buffer, chunked, complete>>

-----------------------------------------------------------------------------
(***************************************************************************)
(* Lines.  Find is std::string::find, with 0 for npos.                     *)
(***************************************************************************)
Find(s, t) ==
  LET places == {i \in 1 .. Len(s) - Len(t) + 1 : SubSeq(s, i, i + Len(t) - 1) = t}
  IN IF places = {} THEN 0 ELSE Min(places)

\* std::string::substr, which stops at the end of the string.
Substr(s, pos, n) == SubSeq(s, pos + 1, Min({pos + n, Len(s)}))

HaveCompleteLine == Find(buffer, CRLF) # 0
Line == SubSeq(buffer, 1, Find(buffer, CRLF) - 1)
PopBytes(s, n) == SubSeq(s, n + 1, Len(s))
BufferAfterLine == PopBytes(buffer, Find(buffer, CRLF) + 1)

HasHeader(m, key) == \E i \in DOMAIN m.headers : KeyOf[m.headers[i]] = key
GetHeader(m, key) == m.headers[Min({i \in DOMAIN m.headers : KeyOf[m.headers[i]] = key})]

-----------------------------------------------------------------------------
(***************************************************************************)
(* calculate_expected_body_size.                                           *)
(***************************************************************************)
RequestBody(m) ==
  CASE m.first \in {<<"GET">>, <<"HEAD">>} -> "none"
    [] m.first = <<"POST">> /\ HasHeader(m, "Content-Length") -> "length"
    [] OTHER -> "unsupported"

StatusLines == {"100", "200", "204", "304"}
Bodiless == {"100", "204", "304"}

\* The five rules in their order; a status line must have three parts.
ResponseBody(m) ==
  LET encoded == HasHeader(m, "Transfer-Encoding") IN
  IF m.first \notin {<<s>> : s \in StatusLines} THEN "unsupported"
  ELSE IF m.first \in {<<s>> : s \in Bodiless} \/ m.request = "HEAD" THEN "none"
  ELSE IF encoded /\ GetHeader(m, "Transfer-Encoding") \in ChunkedHeaders THEN "chunked"
  ELSE IF ~encoded /\ HasHeader(m, "Content-Length") THEN "length"
  ELSE IF HasHeader(m, "Content-Type") /\ GetHeader(m, "Content-Type") \in MultipartHeaders
    THEN "unsupported"
  ELSE "until_eof"

RuleFor(kind, m) == IF kind = "requests" THEN RequestBody(m) ELSE ResponseBody(m)
BodyRule(m) == RuleFor(script.kind, m)

SizeGiven(m) ==
  CASE BodyRule(m) = "none" -> 0
    [] BodyRule(m) = "length" -> LengthOf[GetHeader(m, "Content-Length")]
    [] OTHER -> -1

-----------------------------------------------------------------------------
(***************************************************************************)
(* What the streams are made of: a message is framed the way its length    *)
(* says.  Nothing but EOF ends a message of "until_eof", so it is the last *)
(* one.                                                                    *)
(***************************************************************************)
Words == STRING \ {"cr", "lf"}
Tokens == Words \union {"cr", "lf"}

\* From each start a chunk leads to the next, and the one of size 0 to the trailer.
IsChunked(body, trailers) ==
  LET end == IF trailers THEN CRLF \o CRLF ELSE CRLF IN
  \E starts \in SUBSET {p \in 0 .. Len(body) - 3 : body[p + 1] \in DOMAIN ChunkSizeOf} :
    /\ 0 \in starts
    /\ \A p \in starts :
         LET size == ChunkSizeOf[body[p + 1]]
             rest == PopBytes(body, p + 3)
         IN /\ SubSeq(body, p + 2, p + 3) = CRLF
            /\ IF size = 0
                 THEN Find(rest, end) # 0 /\ Find(rest, end) + Len(end) - 1 = Len(rest)
                 ELSE Substr(rest, size, 2) = CRLF /\ p + size + 5 \in starts

IsFramed(kind, m) ==
  LET head == [first |-> <<m.first>>, headers |-> m.headers, request |-> m.request]
      rule == RuleFor(kind, head)
      colons == Range(m.headers) \subseteq DOMAIN KeyOf
  IN
  /\ m.first \in Words /\ m.headers \in Seq(Words) /\ m.body \in Seq(Tokens)
  /\ \/ m.length = "known" /\ colons /\ rule = "none" /\ m.body = <<>>
     \/ m.length = "known" /\ colons /\ rule = "length"
        /\ Len(m.body) = LengthOf[GetHeader(head, "Content-Length")]
     \/ m.length = "chunked" /\ colons /\ rule = "chunked"
        /\ IsChunked(m.body, HasHeader(head, "Trailer"))
     \/ m.length = "until_eof" /\ colons /\ rule = "until_eof"
     \/ m.length = "unsupported" /\ (colons => rule = "unsupported")

StreamsAreFramed ==
  \A s \in Scripts :
    /\ s.messages \in Seq(Range(s.messages))
    /\ \A n \in DOMAIN s.messages :
         /\ IsFramed(s.kind, s.messages[n])
         /\ s.messages[n].length = "until_eof" => n = Len(s.messages)

ASSUME StreamsAssumption == StreamsAreFramed /\ DOMAIN ChunkSizeOf \subseteq Words

-----------------------------------------------------------------------------
(***************************************************************************)
(* parsing_step.                                                           *)
(***************************************************************************)
NeedMoreLines ==
  /\ pc = "parsing"
  /\ message.state \in {"first_line", "headers"}
  /\ ~HaveCompleteLine
  /\ pc' = "idle"
  /\ UNCHANGED <<stream, requests, buffer, message, chunked, complete>>

\* A queue of requests whose front is looked at and left there.
KeepFront(q) == q

PopFront(q) == IF q = <<>> THEN <<>> ELSE Tail(q)

\* initialize_new_message does nothing for a request.
FirstLine ==
  /\ pc = "parsing"
  /\ message.state = "first_line"
  /\ HaveCompleteLine
  /\ IF script.kind = "responses" /\ requests = <<>>
       THEN /\ pc' = "threw"
            /\ UNCHANGED <<requests, buffer, message>>
       ELSE /\ message' = [message EXCEPT !.state = "headers", !.first = Line,
                             !.request = IF requests = <<>> THEN "" ELSE Head(requests)]
            /\ requests' = PopFront(requests)
            /\ buffer' = BufferAfterLine
            /\ UNCHANGED pc
  /\ UNCHANGED <<stream, chunked, complete>>

\* HTTPHeader's constructor wants a colon.
HasColon(line) == line \in {<<h>> : h \in DOMAIN KeyOf}

AddHeader ==
  /\ pc = "parsing"
  /\ message.state = "headers"
  /\ HaveCompleteLine
  /\ Line # <<>>
  /\ IF HasColon(Line)
       THEN message' = [message EXCEPT !.headers = @ \o Line] /\ UNCHANGED pc
       ELSE pc' = "threw" /\ UNCHANGED message
  /\ buffer' = BufferAfterLine
  /\ UNCHANGED <<stream, requests, chunked, complete>>

\* A blank line: done_with_headers.
DoneWithHeaders ==
  LET rule == BodyRule(message) IN
  /\ pc = "parsing"
  /\ message.state = "headers"
  /\ HaveCompleteLine
  /\ Line = <<>>
  /\ buffer' = BufferAfterLine
  /\ message' = [message EXCEPT !.state = "body",
                   !.known = rule \in {"none", "length"},
                   !.size = SizeGiven(message),
                   !.parser = IF rule \in {"chunked", "until_eof"} THEN rule ELSE "none"]
  /\ chunked' = NewChunkedBodyParser(HasHeader(message, "Trailer"))
  /\ pc' = IF rule = "unsupported" THEN "threw" ELSE pc
  /\ UNCHANGED <<stream, requests, complete>>

\* How much of the buffer belongs to a body of known size.
AmountToAppend ==
  IF message.size - Len(message.body) < Len(buffer)
    THEN message.size - Len(message.body)
    ELSE Len(buffer)

ReadKnownBody ==
  /\ pc = "parsing"
  /\ message.state = "body" /\ message.known
  /\ LET body == message.body \o SubSeq(buffer, 1, AmountToAppend) IN
     IF Len(message.body) > message.size
       THEN pc' = "aborted" /\ UNCHANGED <<message, buffer>>
       ELSE /\ message' = [message EXCEPT !.body = body,
                             !.state = IF Len(body) = message.size THEN "complete" ELSE @]
            /\ buffer' = PopBytes(buffer, AmountToAppend)
            /\ pc' = IF Len(body) = message.size THEN pc ELSE "idle"
  /\ UNCHANGED <<stream, requests, chunked, complete>>

\* Rule5BodyParser: everything up to EOF is the body.
ReadUntilEOF ==
  /\ pc = "parsing"
  /\ message.state = "body" /\ message.parser = "until_eof"
  /\ message' = [message EXCEPT !.body = @ \o buffer]
  /\ buffer' = <<>>
  /\ pc' = "idle"
  /\ UNCHANGED <<stream, requests, chunked, complete>>

CompleteMessage ==
  /\ pc = "parsing"
  /\ message.state = "complete"
  /\ complete' = Append(complete, message)
  /\ message' = NewMessage
  /\ UNCHANGED <<stream, requests, buffer, chunked, pc>>

-----------------------------------------------------------------------------
(***************************************************************************)
(* ChunkedBodyParser::read.  It keeps a buffer of its own, while its       *)
(* caller needs to know how much of this call's input is of the body:      *)
(* acked counts what earlier calls took, parsed what is understood.        *)
(***************************************************************************)
StartReadChunked ==
  /\ pc = "parsing"
  /\ message.state = "body" /\ message.parser = "chunked"
  /\ chunked' = [chunked EXCEPT !.buffer = @ \o buffer]
  /\ pc' = "chunks"
  /\ UNCHANGED <<stream, requests, buffer, message, complete>>

ChunkIsHere == Len(chunked.buffer) >= chunked.size + 2

\* A trailer that ends with one CRLF in any case.
OneCRLF == CRLF

EndOfTrailer == IF chunked.trailers THEN CRLF \o CRLF ELSE CRLF

\* The part of the parser's own buffer its state needs is not there yet.
Incomplete ==
  \/ chunked.buffer = <<>>
  \/ chunked.state = "header" /\ Find(chunked.buffer, CRLF) = 0
  \/ chunked.state = "chunk" /\ ~ChunkIsHere
  \/ chunked.state = "trailer" /\ Find(chunked.buffer, EndOfTrailer) = 0

\* The next n tokens of the parser's own buffer are understood.
Understood(n, state) ==
  [chunked EXCEPT !.state = state, !.parsed = @ + n, !.buffer = PopBytes(@, n)]

\* get_chunk_size: no size for what is not a hexadecimal number.
ChunkSizes(header) == {ChunkSizeOf[c] : c \in {d \in DOMAIN ChunkSizeOf : header = <<d>>}}

ChunkHeader ==
  LET it == Find(chunked.buffer, CRLF)
      sizes == ChunkSizes(SubSeq(chunked.buffer, 1, it - 1))
  IN
  /\ pc = "chunks" /\ ~Incomplete
  /\ chunked.state = "header"
  /\ IF sizes = {}
       THEN pc' = "threw" /\ UNCHANGED chunked
       ELSE /\ \E size \in sizes :
                 chunked' = [Understood(it + 1, IF size = 0 THEN "trailer" ELSE "chunk")
                               EXCEPT !.size = size]
            /\ UNCHANGED pc
  /\ UNCHANGED <<stream, requests, buffer, message, complete>>

Chunk ==
  /\ pc = "chunks" /\ ~Incomplete
  /\ chunked.state = "chunk"
  /\ IF Substr(chunked.buffer, chunked.size, 2) # CRLF
       THEN pc' = "aborted" /\ UNCHANGED chunked
       ELSE chunked' = Understood(chunked.size + 2, "header") /\ UNCHANGED pc
  /\ UNCHANGED <<stream, requests, buffer, message, complete>>

\* read() returns npos: all of the input belongs to the body.
NeedMoreOfBody ==
  /\ pc = "chunks" /\ Incomplete
  /\ chunked' = [chunked EXCEPT !.acked = @ + Len(buffer)]
  /\ message' = [message EXCEPT !.body = @ \o buffer]
  /\ buffer' = <<>>
  /\ pc' = "idle"
  /\ UNCHANGED <<stream, requests, complete>>

\* read() returns how much of the input is of the body, which is complete now.
TrailerOver ==
  LET parsed == chunked.parsed + Find(chunked.buffer, EndOfTrailer) + Len(EndOfTrailer) - 1
      amount == parsed - chunked.acked
  IN
  /\ pc = "chunks" /\ ~Incomplete
  /\ chunked.state = "trailer"
  /\ IF amount <= 0 \/ amount > Len(buffer)
       THEN pc' = "aborted" /\ UNCHANGED <<message, buffer>>
       ELSE /\ message' = [message EXCEPT !.state = "complete",
                             !.body = @ \o SubSeq(buffer, 1, amount)]
            /\ buffer' = PopBytes(buffer, amount)
            /\ pc' = "parsing"
  /\ UNCHANGED <<stream, requests, chunked, complete>>

ParsingStep ==
  \/ NeedMoreLines \/ FirstLine \/ AddHeader \/ DoneWithHeaders
  \/ ReadKnownBody \/ ReadUntilEOF \/ CompleteMessage
  \/ StartReadChunked \/ ChunkHeader \/ Chunk \/ NeedMoreOfBody \/ TrailerOver

Next == NewRequestArrived \/ Parse \/ ParseEOF \/ ParsingStep

Spec == Init /\ [][Next]_vars

-----------------------------------------------------------------------------
\* The messages of the script that were sent completely: those that one can tell
\* the end of without EOF, up to the first one the parser does not support.
Whole ==
  {n \in DOMAIN script.messages :
     /\ Len(WireOfFirst(n)) <= taken
     /\ \A i \in 1 .. n : script.messages[i].length \in {"known", "chunked"}}

NumWhole == Max({0} \union Whole)
Started == taken - Len(WireOfFirst(NumWhole))
Current == script.messages[NumWhole + 1]

\* The body that EOF completes, whatever is missing of it.
EndedByEOF ==
  /\ closed
  /\ NumWhole < Len(script.messages)
  /\ Current.length \in {"chunked", "until_eof"}
  /\ Started >= Len(HeadOf(Current))

Delivered(m, body) == [first |-> <<m.first>>, headers |-> m.headers, body |-> body]

Expected ==
  [i \in 1 .. NumWhole |-> Delivered(script.messages[i], script.messages[i].body)]
    \o IF EndedByEOF
         THEN <<Delivered(Current, SubSeq(Current.body, 1, Started - Len(HeadOf(Current))))>>
         ELSE <<>>

\* However the stream is split, after every call the complete messages are the ones
\* sent so far: none is early, late, lost, or has a byte of its neighbour.  That is
\* with "Trailer" exactly when there are trailers.
MessagesAreAsSent ==
  pc = "idle" =>
    [i \in DOMAIN complete |->
       [first |-> complete[i].first, headers |-> complete[i].headers, body |-> complete[i].body]]
      = Expected

\* Each response is read, and stored, with the request it answers.
Matched ==
  script.kind = "responses" =>
    \A i \in DOMAIN complete : complete[i].request = Requests[i]

\* parse() "must accept all of buf" (http_message_sequence.hh:56): it throws only
\* upon what it does not support, or when the stream ends where it must not, and
\* no assertion of read_in_body, of the chunks' ends or of pop_bytes fails.
RefusesOnlyMalformed ==
  pc \in {"threw", "aborted"} =>
    /\ pc = "threw"
    /\ NumWhole < Len(script.messages)
    /\ \/ Current.length = "unsupported"
       \/ /\ closed /\ Started > 0
          /\ Started < Len(HeadOf(Current)) \/ Current.length = "known"
=============================================================================
