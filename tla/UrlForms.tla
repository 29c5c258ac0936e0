------------------------------- MODULE UrlForms -------------------------------
(***************************************************************************)
(* What the library makes of the url parameter: the host and port that the   *)
(* stub probes (parse_host_port, tcp_probe) and the endpoint that the real    *)
(* client is given (normalize_ws_url; the Rust worker has the same function). *)
(* A url is a sequence of the pieces that these functions tell apart.         *)
(***************************************************************************)
EXTENDS Naturals, Sequences, SequencesExt

\* The pieces: separators, blanks, scheme names, hosts, and texts of a port.
Scheme == {"ws", "wss", "http", "https"}
Host == {"ip4", "name", "ip6"}
Digits == {"8000", "9000", "70000"}
PortNumber == [d \in {"8000", "9000"} |-> IF d = "8000" THEN 8000 ELSE 9000]

At(piece, s) == SelectInSeq(s, LAMBDA x : x = piece)   \* 0 if there is none
Before(piece, s) == IF At(piece, s) = 0 THEN s ELSE SubSeq(s, 1, At(piece, s) - 1)
After(i, s) == SubSeq(s, i + 1, Len(s))

NoAddress == [host |-> <<>>, port |-> 0]

AlwaysHttp(scheme) == IF scheme = <<>> THEN 8000 ELSE 80 \* fault: no TLS port
DefaultPort(scheme) ==
  IF scheme \in {<<"wss">>, <<"https">>} THEN 443
  ELSE IF scheme \in {<<"ws">>, <<"http">>} THEN 80
  ELSE 8000

\* parse::<u16>: anything but a number that fits falls back to the default port.
PortOf(text, scheme) ==
  IF Len(text) = 1 /\ text[1] \in DOMAIN PortNumber THEN PortNumber[text[1]]
  ELSE DefaultPort(scheme)

\* [ip6] or [ip6]:port
Bracketed(hostport, scheme) ==
  LET end == At("]", hostport)
      tail == After(end, hostport)
  IN IF end = 0 THEN NoAddress
     ELSE [host |-> SubSeq(hostport, 2, end - 1),
           port |-> IF At(":", tail) = 0 THEN DefaultPort(scheme)
                    ELSE PortOf(After(At(":", tail), tail), scheme)]

\* host or host:port
Plain(hostport, scheme) ==
  LET host == Before(":", hostport)
  IN IF host = <<>> THEN NoAddress
     ELSE [host |-> host,
           port |-> IF At(":", hostport) = 0 THEN DefaultPort(scheme)
                    ELSE PortOf(After(At(":", hostport), hostport), scheme)]

\* The path goes first, then the port is looked for.
ParseHostPort(url) ==
  LET sep == At("://", url)
      scheme == IF sep = 0 THEN <<>> ELSE SubSeq(url, 1, sep - 1)
      hostport == Before("/", After(sep, url))
  IN IF hostport = <<>> THEN NoAddress
     ELSE IF Head(hostport) = "[" THEN Bracketed(hostport, scheme)
     ELSE Plain(hostport, scheme)

\* addr.parse() takes the address of a socket: "name:80" is none, and neither is the
\* address of version 6 that has lost its brackets.
IsSocketAddress(a) == a # NoAddress /\ a.host = <<"ip4">>

\* The first of the prefixes that fits is removed, once; blanks around are not part of it.
Trim(url) ==
  LET kept == { i \in 1 .. Len(url) : url[i] # " " }
  IN IF kept = {} THEN <<>>
     ELSE SubSeq(url, CHOOSE i \in kept : \A j \in kept : i <= j,
                      CHOOSE i \in kept : \A j \in kept : j <= i)

StripWs(u) ==                                           \* fault: two of the prefixes
  IF Len(u) > 1 /\ u[1] \in {"ws", "wss"} /\ u[2] = "://" THEN After(2, u) ELSE u
StripScheme(u) ==
  IF Len(u) > 1 /\ u[1] \in Scheme /\ u[2] = "://" THEN After(2, u) ELSE u

NormalizeWsUrl(url) == StripScheme(Trim(url))
-----------------------------------------------------------------------------
(* The forms that urls are written in, and the address that each names.      *)

Form == [scheme : Scheme \cup {"none"}, host : Host, port : Digits \cup {"none"},
         path : BOOLEAN]

Written(f) ==
  (IF f.scheme = "none" THEN <<>> ELSE <<f.scheme, "://">>) \o
  (IF f.host = "ip6" THEN <<"[", ":", ":", "1", "]">> ELSE <<f.host>>) \o
  (IF f.port = "none" THEN <<>> ELSE <<":", f.port>>) \o
  (IF f.path THEN <<"/", "rpc">> ELSE <<>>)

\* An address of version 6 stands in brackets in a url.
AsWritten(host) == IF host = <<":", ":", "1">> THEN <<"[">> \o host \o <<"]">> ELSE host

Named(f) ==
  [host |-> IF f.host = "ip6" THEN <<":", ":", "1">> ELSE <<f.host>>,
   port |-> IF f.port \in DOMAIN PortNumber THEN PortNumber[f.port]
            ELSE CASE f.scheme \in {"wss", "https"} -> 443
                   [] f.scheme \in {"ws", "http"} -> 80
                   [] f.scheme = "none" -> 8000]
=============================================================================
