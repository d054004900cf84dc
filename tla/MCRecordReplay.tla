--------------------------- MODULE MCRecordReplay --------------------------
EXTENDS RecordReplay

Request(line, host) == [line |-> line, host |-> host, agent |-> "agent"]
PageA == Request(<<"GET", "/a", "HTTP/1.1">>, "host")
PageX == Request(<<"GET", "/b", "?", "x", "HTTP/1.1">>, "host")
PageY == Request(<<"GET", "/b", "?", "y", "HTTP/1.1">>, "host")
Hostless == Request(<<"GET", "/a", "HTTP/1.1">>, NoHeader)

Connection(address, requests) ==
  [address |-> address, secure |-> address = "https", requests |-> requests, recorded |-> TRUE,
   ends |-> {}, resets |-> {}, diskFills |-> FALSE]

\* One page twice from one server; two pages that differ in their query, one of them
\* from a server or to a client that may end or reset; TLS and a disk that fills;
\* mm-proxyshell.
MCScripts == {
  <<Connection("http", <<PageA>>), Connection("http", <<PageA>>)>>,
  <<[Connection("http", <<PageX, PageY>>) EXCEPT !.ends = {"client", "server"},
                                                 !.resets = {"client", "server"}]>>,
  <<Connection("http", <<PageY, PageX>>), Connection("https", <<PageA>>)>>,
  <<[Connection("https", <<PageA>>) EXCEPT !.diskFills = TRUE], Connection("http", <<Hostless>>)>>,
  <<[Connection("http", <<PageX, PageX>>) EXCEPT !.recorded = FALSE]>> }

MCReplayed == {Asked(PageX, FALSE), Asked(PageY, FALSE), Asked(PageA, TRUE)}

Rows == <<[method |-> "GET", target |-> <<"/b", "?", "x">>, delay |-> 3],
          [method |-> "GET", target |-> <<"/a">>, delay |-> 0 - 1]>>
Server(delays, file) == [delays |-> delays, file |-> file, rows |-> Rows]
MCServers == {Server(FALSE, FALSE), Server(TRUE, FALSE), Server(TRUE, TRUE)}
=============================================================================
