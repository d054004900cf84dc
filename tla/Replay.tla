------------------------------- MODULE Replay ------------------------------
(***************************************************************************)
(* What mm-webreplay and its CGI programs make of a directory of recorded  *)
(* files: replayshell reads every one before it serves, and replayserver,  *)
(* or replayserver_delay, reads every one again for each request.          *)
(*                                                                         *)
(* A file holds a "whole" message, is "empty" or is neither ("broken");    *)
(* its path, directory included, has "save" in it or not.  A record holds  *)
(* the scheme, the request, and the response.  A request has a first line, *)
(* whose words and "?" are told apart and no more, and its Host and        *)
(* User-Agent headers, or NoHeader.                                        *)
(***************************************************************************)
EXTENDS Naturals, Sequences, SequencesExt

NoHeader == "no header"

\* list_directory_contents, and the filter on the path.
AllFiles(files) == files
Recorded(files) == {f \in files : f.save}

\* ParseFromFileDescriptor: all fields are optional, so an empty file is a record.
Parses(file) == file.content # "broken"

\* replayshell: no record without an IP address or a Host header can be served.
Servable(file) == file.content = "whole" /\ file.request.host # NoHeader

Loads(files) == \A f \in Recorded(files) : Parses(f) /\ Servable(f)

-----------------------------------------------------------------------------
StripQuery(line) ==
  IF Contains(line, "?") THEN SubSeq(line, 1, SelectInSeq(line, LAMBDA w : w = "?") - 1) ELSE line

CommonPrefix(a, b) == Len(LongestCommonPrefix({a, b}))

\* A match that does not look at the query.
MatchOfPath(file, request) ==
  IF /\ file.content = "whole"
     /\ file.secure = request.secure
     /\ file.request.host = request.host
     /\ file.request.agent = request.agent
     /\ StripQuery(file.request.line) = StripQuery(request.line)
    THEN Len(StripQuery(request.line)) ELSE 0

\* match_score.  An empty record has the scheme HTTP, and no first line.
MatchScore(file, request) ==
  IF /\ file.content = "whole"
     /\ file.secure = request.secure
     /\ file.request.host = request.host
     /\ file.request.agent = request.agent
     /\ StripQuery(file.request.line) = StripQuery(request.line)
    THEN CommonPrefix(file.request.line, request.line) ELSE 0

\* The directory is read in no particular order and the first of the best is kept.
BestMatches(files, request) ==
  {f \in Recorded(files) :
    /\ MatchScore(f, request) > 0
    /\ \A g \in Recorded(files) : MatchScore(g, request) <= MatchScore(f, request)}

-----------------------------------------------------------------------------
(***************************************************************************)
(* replayserver_delay: a row of the delay file has a method, a URL and a   *)
(* delay; the first row that names the request recorded counts.  Without a *)
(* file there is no answer.  The server is [delays, file, rows].           *)
(***************************************************************************)
Method(line) == Head(line)
Target(line) == SubSeq(line, 2, Len(line) - 1)

RowsFor(rows, line) ==
  SelectSeq(rows, LAMBDA r : r.method = Method(line) /\ r.target = Target(line))

GetServerDelay(rows, line) ==
  IF RowsFor(rows, line) = <<>> THEN 0 ELSE Max({0, Head(RowsFor(rows, line)).delay})

Reply(status, response, delay) == [status |-> status, response |-> response, delay |-> delay]

None == "none"

\* The replies a request can get.
Replies(files, server, request) ==
  IF \E f \in Recorded(files) : ~Parses(f) THEN {Reply(500, None, 0)}
  ELSE IF BestMatches(files, request) = {} THEN {Reply(404, None, 0)}
  ELSE IF server.delays /\ ~server.file THEN {Reply(500, None, 0)}
  ELSE {Reply(200, f.response,
              IF server.delays THEN GetServerDelay(server.rows, f.request.line) ELSE 0) :
          f \in BestMatches(files, request)}
=============================================================================
