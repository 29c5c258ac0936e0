---------------------------- MODULE UrlFormsProofs ----------------------------
(* Theorems about the operators of UrlForms: what they find in a url in each of  *)
(* the forms that urls are written in.                                           *)
EXTENDS UrlForms, SequenceTheorems, TLAPS

\* What urls are made of; no separator of a scheme or a path and no blank is among the
\* pieces of a host and port.
HostPiece == Host \cup Digits \cup {"[", "]", ":", "1"}
Blank == " "
PathPiece == {"/", "rpc"}
Piece == Scheme \cup HostPiece \cup PathPiece \cup {"://", Blank}

Text == Seq(Piece)

LEMMA MadeOf ==
  ASSUME NEW S, S \subseteq Piece, NEW s \in Seq(S)
  PROVE  s \in Text /\ Len(s) \in Nat /\ \A i \in 1 .. Len(s) : s[i] \in S
<1>1. Len(s) \in Nat /\ s = [i \in 1 .. Len(s) |-> s[i]] /\ \A i \in 1 .. Len(s) : s[i] \in S
  OBVIOUS
<1>2. \A i \in 1 .. Len(s) : s[i] \in Piece
  BY <1>1
<1>3. s \in Seq(Piece)
  BY <1>1, <1>2
<1> QED
  BY <1>1, <1>3 DEF Text

\* Two texts with the same pieces are the same.
LEMMA SameText ==
  ASSUME NEW s \in Text, NEW t \in Text, Len(s) = Len(t), \A i \in 1 .. Len(s) : s[i] = t[i]
  PROVE  s = t
BY SeqEqual DEF Text

LEMMA Joined ==
  ASSUME NEW s \in Text, NEW t \in Text
  PROVE  /\ s \o t \in Text /\ Len(s) \in Nat /\ Len(t) \in Nat
         /\ Len(s \o t) = Len(s) + Len(t)
         /\ \A i \in 1 .. Len(s) : (s \o t)[i] = s[i]
         /\ \A i \in 1 .. Len(t) : (s \o t)[Len(s) + i] = t[i]
         /\ s \o <<>> = s /\ <<>> \o s = s
         /\ Len(s) > 0 => Head(s) = s[1] /\ s # <<>>
BY DEF Text

\* A joined text has the pieces that its parts have.
LEMMA JoinedOf ==
  ASSUME NEW s \in Text, NEW t \in Text, NEW S,
         \A i \in 1 .. Len(s) : s[i] \in S, \A i \in 1 .. Len(t) : t[i] \in S
  PROVE  \A i \in 1 .. Len(s \o t) : (s \o t)[i] \in S
<1> DEFINE u == s \o t
           m == Len(s)
           n == Len(t)
<1>1. /\ m \in Nat /\ n \in Nat /\ Len(u) = m + n
      /\ \A i \in 1 .. m : u[i] = s[i] /\ s[i] \in S
      /\ \A i \in 1 .. n : u[m + i] = t[i] /\ t[i] \in S
  BY Joined
<1> HIDE DEF u, m, n
<1>2. ASSUME NEW i \in 1 .. Len(u) PROVE u[i] \in S
  <2>1. CASE i <= m
    BY <1>1, <2>1
  <2>2. CASE i > m
    <3>1. i - m \in 1 .. n /\ m + (i - m) = i
      BY <1>1, <2>2
    <3> QED
      BY <1>1, <3>1
  <2> QED
    BY <1>1, <2>1, <2>2
<1> QED
  BY <1>2 DEF u

\* At finds the first place of a piece, and 0 where there is none.
LEMMA AtFirst ==
  ASSUME NEW s \in Text, NEW p, NEW i \in 1 .. Len(s), s[i] = p,
         \A j \in 1 .. Len(s) : s[j] = p => i <= j
  PROVE  At(p, s) = i
<1> DEFINE I == { k \in 1 .. Len(s) : s[k] = p }
<1>1. i \in I /\ \A y \in I : i <= y
  OBVIOUS
<1>2. I \subseteq Int
  OBVIOUS
<1>3. At(p, s) = IF I # {} THEN Min(I) ELSE 0
  BY DEF At, SelectInSeq
<1> HIDE DEF I
<1>4. Min(I) \in I /\ \A y \in I : Min(I) <= y
  <2>1. \E x \in I : \A y \in I : x <= y
    BY <1>1
  <2> QED
    BY <2>1, Zenon DEF Min
<1>5. Min(I) = i
  <2>1. i <= Min(I) /\ Min(I) <= i /\ i \in Int /\ Min(I) \in Int
    BY <1>1, <1>2, <1>4
  <2> QED
    BY <2>1
<1> QED
  BY <1>1, <1>3, <1>5

LEMMA AtNone ==
  ASSUME NEW s \in Text, NEW p, \A j \in 1 .. Len(s) : s[j] # p
  PROVE  At(p, s) = 0 /\ Before(p, s) = s
BY DEF At, SelectInSeq, Before

\* A text is cut before and behind the first of its pieces that is looked for.
LEMMA Cut ==
  ASSUME NEW s \in Text, NEW t \in Text, t # <<>>, NEW p, Head(t) = p,
         \A j \in 1 .. Len(s) : s[j] # p
  PROVE  /\ At(p, s \o t) = Len(s) + 1
         /\ Before(p, s \o t) = s
         /\ After(Len(s) + 1, s \o t) = Tail(t)
<1> DEFINE u == s \o t
<1>1. /\ u \in Text /\ Len(u) = Len(s) + Len(t) /\ Len(s) \in Nat /\ Len(t) \in Nat \ {0}
      /\ \A i \in 1 .. Len(s) : u[i] = s[i]
      /\ \A i \in 1 .. Len(t) : u[Len(s) + i] = t[i]
      /\ t[1] = p
  BY DEF Text
<1> HIDE DEF u
<1>2. /\ Len(s) + 1 \in 1 .. Len(u) /\ u[Len(s) + 1] = p
      /\ \A j \in 1 .. Len(u) : u[j] = p => Len(s) + 1 <= j
  BY <1>1
<1>3. At(p, u) = Len(s) + 1
  <2> DEFINE k == Len(s) + 1
  <2>1. k \in 1 .. Len(u) /\ u[k] = p /\ \A j \in 1 .. Len(u) : u[j] = p => k <= j
    BY <1>2
  <2> HIDE DEF k
  <2>2. At(p, u) = k
    BY <1>1, <2>1, AtFirst
  <2> QED
    BY <2>2 DEF k
<1>4. SubSeq(u, 1, Len(s)) = s
  BY <1>1, SameText DEF Text
<1>5. Before(p, u) = s
  BY <1>1, <1>3, <1>4 DEF Before
<1>6. After(Len(s) + 1, u) = Tail(t)
  <2>1. s \in Seq(Piece) /\ t \in Seq(Piece)
    BY DEF Text
  <2> QED
    BY <2>1 DEF After, u
<1> QED
  BY <1>3, <1>5, <1>6 DEF u
-----------------------------------------------------------------------------
\* The parts of a url in one of the forms.
SchemeText(f) == IF f.scheme = "none" THEN <<>> ELSE <<f.scheme>>
HostText(f) == IF f.host = "ip6" THEN <<"[", ":", ":", "1", "]">> ELSE <<f.host>>
PortText(f) == IF f.port = "none" THEN <<>> ELSE <<":", f.port>>
PathText(f) == IF f.path THEN <<"/", "rpc">> ELSE <<>>
HostPort(f) == HostText(f) \o PortText(f)
NoScheme(f) == [f EXCEPT !.scheme = "none"]

LEMMA SomePieces ==
  /\ HostPiece \subseteq Piece /\ PathPiece \subseteq Piece /\ Scheme \subseteq Piece
  /\ "://" \in Piece /\ Blank \in Piece
  /\ HostPiece \cap (PathPiece \cup Scheme \cup {"://", Blank}) = {}
  /\ PathPiece \cap (Scheme \cup {"://", Blank}) = {}
BY DEF Piece, HostPiece, PathPiece, Host, Digits, Scheme, Blank

LEMMA PartsOfWritten ==
  ASSUME NEW f \in Form
  PROVE  /\ HostText(f) \in Seq(HostPiece) /\ Len(HostText(f)) > 0
         /\ PortText(f) \in Seq(HostPiece)
         /\ HostPort(f) \in Seq(HostPiece) /\ Len(HostPort(f)) > 0
         /\ PathText(f) \in Seq(PathPiece)
<1>1. f.host \in Host /\ f.port \in Digits \cup {"none"} /\ f.path \in BOOLEAN
  BY DEF Form
<1>2. HostText(f) \in Seq(HostPiece) /\ Len(HostText(f)) > 0
  <2>1. CASE f.host = "ip6"
    <3>1. {"[", "]", ":", "1"} \subseteq HostPiece
      BY DEF HostPiece
    <3>2. <<"[", ":", ":", "1", "]">> \in Seq(HostPiece) /\ Len(<<"[", ":", ":", "1", "]">>) = 5
      BY <3>1
    <3> QED
      BY <2>1, <3>2 DEF HostText
  <2>2. CASE f.host # "ip6"
    BY <1>1, <2>2 DEF HostText, HostPiece
  <2> QED
    BY <2>1, <2>2
<1>3. PortText(f) \in Seq(HostPiece)
  <2>1. CASE f.port = "none"
    BY <2>1 DEF PortText
  <2>2. CASE f.port # "none"
    <3>1. ":" \in HostPiece /\ f.port \in HostPiece
      BY <1>1, <2>2 DEF HostPiece
    <3>2. <<":", f.port>> \in Seq(HostPiece)
      BY <3>1
    <3> QED
      BY <2>2, <3>2 DEF PortText
  <2> QED
    BY <2>1, <2>2
<1>4. PathText(f) \in Seq(PathPiece)
  <2>1. "/" \in PathPiece /\ "rpc" \in PathPiece
    BY DEF PathPiece
  <2>2. <<"/", "rpc">> \in Seq(PathPiece) /\ <<>> \in Seq(PathPiece)
    BY <2>1
  <2> QED
    BY <2>2 DEF PathText
<1>5. HostPort(f) \in Seq(HostPiece) /\ Len(HostPort(f)) > 0
  BY <1>2, <1>3 DEF HostPort
<1> QED
  BY <1>2, <1>3, <1>4, <1>5

\* A url without a scheme is its host, port and path; the scheme stands before them.
LEMMA WrittenParts ==
  ASSUME NEW f \in Form
  PROVE  /\ Written(NoScheme(f)) = HostPort(f) \o PathText(f)
         /\ f.scheme # "none" => Written(f) = <<f.scheme, "://">> \o (HostPort(f) \o PathText(f))
         /\ f.scheme = "none" => Written(f) = HostPort(f) \o PathText(f)
<1>1. /\ HostText(f) \in Seq(Piece) /\ PortText(f) \in Seq(Piece) /\ PathText(f) \in Seq(Piece)
  BY PartsOfWritten, SomePieces, MadeOf DEF Text
<1>2. NoScheme(f) \in Form /\ NoScheme(f).scheme = "none" /\ NoScheme(f).host = f.host
      /\ NoScheme(f).port = f.port /\ NoScheme(f).path = f.path
  BY DEF Form, NoScheme
<1>3. ASSUME NEW g \in Form
      PROVE  Written(g) = (((IF g.scheme = "none" THEN <<>> ELSE <<g.scheme, "://">>)
                              \o HostText(g)) \o PortText(g)) \o PathText(g)
  BY DEF Written, HostText, PortText, PathText
<1>4. /\ HostText(NoScheme(f)) = HostText(f) /\ PortText(NoScheme(f)) = PortText(f)
      /\ PathText(NoScheme(f)) = PathText(f)
  BY <1>2 DEF HostText, PortText, PathText
<1>5. ASSUME NEW r \in Seq(Piece), NEW a \in Seq(Piece), NEW b \in Seq(Piece), NEW c \in Seq(Piece)
      PROVE  /\ ((r \o a) \o b) \o c = r \o ((a \o b) \o c)
             /\ <<>> \o a = a
  OBVIOUS
<1>6. Written(NoScheme(f)) = HostPort(f) \o PathText(f)
  <2>1. Written(NoScheme(f)) = ((<<>> \o HostText(f)) \o PortText(f)) \o PathText(f)
    BY <1>2, <1>3, <1>4
  <2> QED
    BY <1>1, <1>5, <2>1 DEF HostPort
<1>7. CASE f.scheme = "none"
  <2>1. Written(f) = ((<<>> \o HostText(f)) \o PortText(f)) \o PathText(f)
    BY <1>3, <1>7
  <2> QED
    BY <1>1, <1>5, <1>6, <1>7, <2>1 DEF HostPort
<1>8. CASE f.scheme # "none"
  <2> DEFINE r == <<f.scheme, "://">>
  <2>1. Written(f) = ((r \o HostText(f)) \o PortText(f)) \o PathText(f)
    BY <1>3, <1>8
  <2>2. f.scheme \in Piece /\ "://" \in Piece
    BY <1>8, SomePieces DEF Form
  <2>3. r \in Seq(Piece)
    BY <2>2
  <2> HIDE DEF r
  <2>4. Written(f) = r \o (HostPort(f) \o PathText(f))
    <3> DEFINE a == HostText(f)
               b == PortText(f)
               c == PathText(f)
    <3>1. a \in Seq(Piece) /\ b \in Seq(Piece) /\ c \in Seq(Piece)
      BY <1>1
    <3> HIDE DEF a, b, c
    <3>2. ((r \o a) \o b) \o c = r \o ((a \o b) \o c)
      BY <2>3, <3>1
    <3> QED
      BY <2>1, <3>2, Zenon DEF HostPort, a, b, c
  <2>5. Written(f) = <<f.scheme, "://">> \o (HostPort(f) \o PathText(f))
    BY <2>4, Zenon DEF r
  <2> QED
    BY <1>6, <1>8, <2>5
<1> QED
  BY <1>6, <1>7, <1>8

\* What follows the scheme has no separator of one, and its path is cut off.
LEMMA BodyOfWritten ==
  ASSUME NEW f \in Form
  PROVE  LET body == HostPort(f) \o PathText(f)
         IN /\ body \in Text /\ Len(body) > 0 /\ Head(body) = Head(HostText(f))
            /\ \A i \in 1 .. Len(body) : body[i] \notin {"://", Blank}
            /\ Before("/", body) = HostPort(f)
<1> DEFINE h == HostPort(f)
           t == PathText(f)
<1>1. /\ h \in Text /\ Len(h) \in Nat /\ Len(h) > 0
      /\ \A i \in 1 .. Len(h) : h[i] \notin PathPiece \cup {"://", Blank}
  BY PartsOfWritten, SomePieces, MadeOf
<1>2. /\ t \in Text /\ Len(t) \in Nat
      /\ \A i \in 1 .. Len(t) : t[i] \notin {"://", Blank}
  BY PartsOfWritten, SomePieces, MadeOf
<1>3. /\ h \o t \in Text /\ Len(h \o t) > 0 /\ Head(h \o t) = h[1]
      /\ \A i \in 1 .. Len(h \o t) : (h \o t)[i] \notin {"://", Blank}
  <2> DEFINE P == Piece \ {"://", Blank}
  <2>1. /\ \A i \in 1 .. Len(h) : h[i] \in P
        /\ \A i \in 1 .. Len(t) : t[i] \in P
    <3>1. h \in Seq(Piece) /\ t \in Seq(Piece)
      BY <1>1, <1>2 DEF Text
    <3> HIDE DEF h, t
    <3>2. (\A i \in 1 .. Len(h) : h[i] \in Piece) /\ \A i \in 1 .. Len(t) : t[i] \in Piece
      BY <3>1
    <3> QED
      BY <1>1, <1>2, <3>2
  <2> HIDE DEF h, t
  <2>2. h \in Text /\ t \in Text /\ Len(h) > 0
    BY <1>1, <1>2
  <2>3. h \o t \in Text /\ Len(h \o t) > 0 /\ (h \o t)[1] = h[1]
    <3>1. 1 \in 1 .. Len(h) /\ Len(h) + Len(t) > 0
      BY <1>1, <1>2
    <3> QED
      BY <2>2, <3>1, Joined
  <2>4. Head(h \o t) = (h \o t)[1]
    BY <2>3, Joined
  <2>5. \A i \in 1 .. Len(h \o t) : (h \o t)[i] \in P
    <3> HIDE DEF P
    <3> QED
      BY <2>1, <2>2, JoinedOf
  <2> QED
    BY <2>3, <2>4, <2>5
<1>4. h[1] = Head(HostText(f))
  <2> DEFINE a == HostText(f)
             b == PortText(f)
  <2>1. a \in Seq(HostPiece) /\ b \in Seq(HostPiece) /\ Len(a) > 0
    BY PartsOfWritten
  <2> HIDE DEF a, b
  <2>2. (a \o b)[1] = Head(a)
    BY <2>1
  <2> QED
    BY <2>2 DEF a, b, HostPort
<1>5. Before("/", h \o t) = h
  <2>1. \A i \in 1 .. Len(h) : h[i] # "/"
    BY <1>1 DEF PathPiece
  <2>2. CASE f.path
    <3>1. t # <<>> /\ Head(t) = "/"
      BY <2>2 DEF PathText
    <3> HIDE DEF h, t
    <3> QED
      BY <1>1, <1>2, <2>1, <3>1, Cut
  <2>3. CASE ~f.path
    <3>1. t = <<>>
      BY <2>3 DEF PathText
    <3> HIDE DEF h, t
    <3>2. h \o <<>> = h
      BY <1>1, Joined
    <3> QED
      BY <1>1, <2>1, <3>1, <3>2, AtNone
  <2> QED
    BY <2>2, <2>3
<1> QED
  BY <1>3, <1>4, <1>5

\* A text of one piece is cut at the port that follows, if one does.
LEMMA PortCut ==
  ASSUME NEW f \in Form, f.port # "none"
  PROVE  /\ At(":", PortText(f)) = 1 /\ After(1, PortText(f)) = <<f.port>>
         /\ \A h \in Host : /\ At(":", <<h>> \o PortText(f)) = 2
                            /\ Before(":", <<h>> \o PortText(f)) = <<h>>
                            /\ After(2, <<h>> \o PortText(f)) = <<f.port>>
<1> DEFINE t == PortText(f)
<1>1. t \in Text
  BY PartsOfWritten, SomePieces, MadeOf
<1>2. t # <<>> /\ Head(t) = ":" /\ Tail(t) = <<f.port>>
  BY DEF PortText
<1>3. \A h \in Host : h # ":" /\ h \in Piece
  BY DEF Host, Piece, HostPiece
<1> HIDE DEF t
<1>4. At(":", t) = 1 /\ After(1, t) = <<f.port>>
  <2>1. <<>> \in Text /\ Len(<<>>) = 0 /\ <<>> \o t = t
    BY <1>1 DEF Text
  <2>2. \A j \in 1 .. Len(<<>>) : <<>>[j] # ":"
    BY <2>1
  <2>3. At(":", <<>> \o t) = Len(<<>>) + 1 /\ After(Len(<<>>) + 1, <<>> \o t) = Tail(t)
    BY <1>1, <1>2, <2>1, <2>2, Cut
  <2>4. Len(<<>>) + 1 = 1
    BY <2>1
  <2> QED
    BY <1>2, <2>1, <2>3, <2>4, Zenon
<1>5. ASSUME NEW h \in Host
      PROVE  /\ At(":", <<h>> \o t) = 2 /\ Before(":", <<h>> \o t) = <<h>>
             /\ After(2, <<h>> \o t) = <<f.port>>
  <2> DEFINE s == <<h>>
  <2>1. s \in Text /\ Len(s) = 1 /\ \A j \in 1 .. Len(s) : s[j] # ":"
    BY <1>3 DEF Text
  <2> HIDE DEF s
  <2>2. /\ At(":", s \o t) = Len(s) + 1 /\ Before(":", s \o t) = s
        /\ After(Len(s) + 1, s \o t) = Tail(t)
    BY <1>1, <1>2, <2>1, Cut
  <2>3. Len(s) + 1 = 2
    BY <2>1
  <2>4. At(":", s \o t) = 2 /\ Before(":", s \o t) = s /\ After(2, s \o t) = <<f.port>>
    BY <1>2, <2>2, <2>3, Zenon
  <2> QED
    BY <2>4 DEF s
<1> QED
  BY <1>4, <1>5 DEF t

\* The port of a form under a scheme, as the parsers find it.
PortUnder(f, scheme) ==
  IF f.port = "none" THEN DefaultPort(scheme) ELSE PortOf(<<f.port>>, scheme)

LEMMA PlainParsed ==
  ASSUME NEW f \in Form, f.host # "ip6", NEW scheme
  PROVE  Plain(HostPort(f), scheme) = [host |-> <<f.host>>, port |-> PortUnder(f, scheme)]
<1> DEFINE s == <<f.host>>
           u == HostPort(f)
<1>1. f.host \in Host /\ u = s \o PortText(f) /\ s # <<>>
  BY DEF Form, HostPort, HostText
<1>2. CASE f.port = "none"
  <2>1. s \in Text /\ \A j \in 1 .. Len(s) : s[j] # ":"
    <3>1. f.host # ":" /\ f.host \in Piece
      BY <1>1 DEF Host, Piece, HostPiece
    <3> QED
      BY <3>1 DEF Text
  <2>2. PortText(f) = <<>>
    BY <1>2 DEF PortText
  <2>3. At(":", s) = 0 /\ Before(":", s) = s
    <3> HIDE DEF s
    <3> QED
      BY <2>1, AtNone
  <2>4. u = s
    <3> HIDE DEF s, u
    <3>1. s \o <<>> = s
      BY <2>1, Joined
    <3> QED
      BY <1>1, <2>2, <3>1
  <2> HIDE DEF s, u
  <2>5. Plain(u, scheme) = [host |-> s, port |-> PortUnder(f, scheme)]
    BY <1>1, <1>2, <2>3, <2>4 DEF Plain, PortUnder
  <2> QED
    BY <2>5 DEF s, u
<1>3. CASE f.port # "none"
  <2>1. At(":", u) = 2 /\ Before(":", u) = s /\ After(2, u) = <<f.port>>
    BY <1>1, <1>3, PortCut, Zenon
  <2> HIDE DEF s, u
  <2>2. Plain(u, scheme) = [host |-> s, port |-> PortUnder(f, scheme)]
    BY <1>1, <1>3, <2>1 DEF Plain, PortUnder
  <2> QED
    BY <2>2 DEF s, u
<1> QED
  BY <1>2, <1>3

LEMMA BracketedParsed ==
  ASSUME NEW f \in Form, f.host = "ip6", NEW scheme
  PROVE  Bracketed(HostPort(f), scheme)
           = [host |-> <<":", ":", "1">>, port |-> PortUnder(f, scheme)]
<1> DEFINE s == <<"[", ":", ":", "1">>
           t == <<"]">> \o PortText(f)
           u == HostPort(f)
           p == PortText(f)
<1>1. p \in Text
  BY PartsOfWritten, SomePieces, MadeOf
<1>2. s \in Text /\ Len(s) = 4 /\ \A j \in 1 .. Len(s) : s[j] # "]"
  <2>1. "[" \in Piece /\ ":" \in Piece /\ "1" \in Piece
    BY DEF Piece, HostPiece
  <2> QED
    BY <2>1 DEF Text
<1>3. t \in Text /\ t # <<>> /\ Head(t) = "]" /\ Tail(t) = p
  <2>1. "]" \in Piece
    BY DEF Piece, HostPiece
  <2> HIDE DEF p
  <2>2. <<"]">> \o p \in Seq(Piece) /\ <<"]">> \o p # <<>> /\ Head(<<"]">> \o p) = "]"
        /\ Tail(<<"]">> \o p) = p
    BY <1>1, <2>1 DEF Text
  <2> QED
    BY <2>2 DEF Text, p
<1>4. u = s \o t
  <2>1. u = <<"[", ":", ":", "1", "]">> \o p
    BY DEF HostPort, HostText
  <2> HIDE DEF p, u
  <2>2. <<"[", ":", ":", "1", "]">> \o p = s \o (<<"]">> \o p)
    BY <1>1 DEF Text
  <2> QED
    BY <2>1, <2>2 DEF p
<1>5. At("]", u) = 5 /\ After(5, u) = p
  <2> HIDE DEF s, t, u, p
  <2>1. At("]", s \o t) = Len(s) + 1 /\ After(Len(s) + 1, s \o t) = Tail(t)
    BY <1>2, <1>3, Cut
  <2>2. Len(s) + 1 = 5
    BY <1>2
  <2> QED
    BY <1>3, <1>4, <2>1, <2>2, Zenon
<1>6. SubSeq(u, 2, 4) = <<":", ":", "1">>
  <2> DEFINE w == <<":", ":", "1">>
             v == SubSeq(u, 2, 4)
  <2>1. ":" \in Piece /\ "1" \in Piece /\ "[" \in Piece
    BY DEF Piece, HostPiece
  <2>2. w \in Text /\ Len(w) = 3 /\ w[1] = ":" /\ w[2] = ":" /\ w[3] = "1"
    BY <2>1 DEF Text
  <2>3. v \in Text /\ Len(v) = 3 /\ v[1] = ":" /\ v[2] = ":" /\ v[3] = "1"
    <3>1. u = s \o t /\ t \in Seq(Piece)
      BY <1>3, <1>4 DEF Text
    <3> HIDE DEF t, u
    <3> QED
      BY <2>1, <3>1 DEF Text
  <2> HIDE DEF v, w
  <2>4. v = w
    BY <2>2, <2>3, SameText
  <2> QED
    BY <2>4 DEF v, w
<1>7. (IF At(":", p) = 0 THEN DefaultPort(scheme) ELSE PortOf(After(At(":", p), p), scheme))
        = PortUnder(f, scheme)
  <2>1. CASE f.port = "none"
    <3>1. p = <<>>
      BY <2>1 DEF PortText
    <3>2. At(":", p) = 0
      BY <1>1, <3>1, AtNone
    <3> QED
      BY <2>1, <3>2 DEF PortUnder
  <2>2. CASE f.port # "none"
    <3>1. At(":", p) = 1 /\ After(1, p) = <<f.port>>
      BY <2>2, PortCut
    <3> HIDE DEF p
    <3> QED
      BY <2>2, <3>1 DEF PortUnder
  <2> QED
    BY <2>1, <2>2
<1> HIDE DEF u, p
<1>8. Bracketed(u, scheme) = [host |-> <<":", ":", "1">>, port |-> PortUnder(f, scheme)]
  <2>1. 5 - 1 = 4 /\ 5 # 0
    OBVIOUS
  <2> QED
    BY <1>5, <1>6, <1>7, <2>1, Zenon DEF Bracketed
<1> QED
  BY <1>8 DEF u

LEMMA PortNamed ==
  ASSUME NEW f \in Form
  PROVE  PortUnder(f, SchemeText(f)) = Named(f).port
<1>1. f.scheme \in Scheme \cup {"none"} /\ f.port \in Digits \cup {"none"}
  BY DEF Form
<1> DEFINE d == CASE f.scheme \in {"wss", "https"} -> 443
                  [] f.scheme \in {"ws", "http"} -> 80
                  [] f.scheme = "none" -> 8000
<1>2. DefaultPort(SchemeText(f)) = d
  <2>1. CASE f.scheme = "none"
    <3>1. SchemeText(f) = <<>>
      BY <2>1 DEF SchemeText
    <3>2. <<>> \notin {<<"wss">>, <<"https">>, <<"ws">>, <<"http">>}
      OBVIOUS
    <3> QED
      BY <2>1, <3>1, <3>2 DEF DefaultPort
  <2>2. CASE f.scheme # "none"
    <3>1. SchemeText(f) = <<f.scheme>>
      BY <2>2 DEF SchemeText
    <3>2. ASSUME NEW x PROVE <<f.scheme>> = <<x>> <=> f.scheme = x
      OBVIOUS
    <3>3. DefaultPort(<<f.scheme>>) = IF f.scheme \in {"wss", "https"} THEN 443
                                     ELSE IF f.scheme \in {"ws", "http"} THEN 80 ELSE 8000
      BY <3>2 DEF DefaultPort
    <3> QED
      BY <1>1, <2>2, <3>1, <3>3 DEF Scheme
  <2> HIDE DEF d
  <2> QED
    BY <2>1, <2>2
<1>3. PortUnder(f, SchemeText(f)) = IF f.port \in DOMAIN PortNumber THEN PortNumber[f.port]
                                    ELSE DefaultPort(SchemeText(f))
  <2>1. "none" \notin DOMAIN PortNumber
    BY DEF PortNumber
  <2>2. Len(<<f.port>>) = 1 /\ <<f.port>>[1] = f.port
    OBVIOUS
  <2> QED
    BY <2>1, <2>2 DEF PortUnder, PortOf
<1> QED
  BY <1>2, <1>3 DEF Named

\* The host of an address of version 6 is named without its brackets.
LEMMA HostNamed ==
  ASSUME NEW f \in Form
  PROVE  Named(f).host = IF f.host = "ip6" THEN <<":", ":", "1">> ELSE <<f.host>>
<1> DEFINE h == IF f.host = "ip6" THEN <<":", ":", "1">> ELSE <<f.host>>
<1>1. PICK p : Named(f) = [host |-> h, port |-> p]
  BY Zenon DEF Named
<1> HIDE DEF h
<1>2. Named(f).host = h
  BY <1>1
<1> QED
  BY <1>2 DEF h

\* The host and port of an address without its scheme, whatever the scheme was.
LEMMA HostPortParsed ==
  ASSUME NEW f \in Form
  PROVE  LET scheme == SchemeText(f)
         IN (IF Head(HostPort(f)) = "[" THEN Bracketed(HostPort(f), scheme)
             ELSE Plain(HostPort(f), scheme)) = Named(f)
<1>1. Head(HostPort(f)) = Head(HostText(f))
  <2> DEFINE a == HostText(f)
             b == PortText(f)
  <2>1. a \in Seq(HostPiece) /\ b \in Seq(HostPiece) /\ Len(a) > 0
    BY PartsOfWritten
  <2> HIDE DEF a, b
  <2>2. Head(a \o b) = Head(a)
    BY <2>1
  <2> QED
    BY <2>2 DEF a, b, HostPort
<1>2. CASE f.host = "ip6"
  <2>1. Head(HostText(f)) = "["
    BY <1>2 DEF HostText
  <2>2. Named(f) = [host |-> <<":", ":", "1">>, port |-> Named(f).port]
    <3>1. PICK p : Named(f) = [host |-> <<":", ":", "1">>, port |-> p]
      BY <1>2, Zenon DEF Named
    <3>2. Named(f).port = p
      BY <3>1
    <3> QED
      BY <3>1, <3>2, Zenon
  <2> QED
    BY <1>1, <1>2, <2>1, <2>2, PortNamed, BracketedParsed, Zenon
<1>3. CASE f.host # "ip6"
  <2>1. Head(HostText(f)) # "["
    BY <1>3 DEF HostText, Form, Host
  <2>2. Named(f) = [host |-> <<f.host>>, port |-> Named(f).port]
    <3>1. PICK p : Named(f) = [host |-> <<f.host>>, port |-> p]
      BY <1>3, Zenon DEF Named
    <3>2. Named(f).port = p
      BY <3>1
    <3> QED
      BY <3>1, <3>2, Zenon
  <2> QED
    BY <1>1, <1>3, <2>1, <2>2, PortNamed, PlainParsed, Zenon
<1> QED
  BY <1>2, <1>3

\* parse_host_port finds the host and the port that a url names, in every form that has
\* a scheme or none, an address of version 6 or another host, a port that fits 16 bits,
\* one that does not (the default is taken) or none, a path or none.
THEOREM ParsesWhatIsNamed ==
  ASSUME NEW f \in Form
  PROVE  ParseHostPort(Written(f)) = Named(f)
<1> DEFINE body == HostPort(f) \o PathText(f)
           url == Written(f)
           sep == At("://", url)
<1>1. /\ body \in Text /\ Len(body) > 0 /\ \A i \in 1 .. Len(body) : body[i] # "://"
      /\ Before("/", body) = HostPort(f) /\ HostPort(f) # <<>>
  <2>1. HostPort(f) # <<>>
    BY PartsOfWritten
  <2> QED
    BY <2>1, BodyOfWritten
<1>2. After(sep, url) = body /\ (IF sep = 0 THEN <<>> ELSE SubSeq(url, 1, sep - 1)) = SchemeText(f)
  <2>1. CASE f.scheme = "none"
    <3>1. url = body
      BY <2>1, WrittenParts
    <3> HIDE DEF body, url
    <3>2. sep = 0
      BY <1>1, <3>1, AtNone
    <3>3. After(0, body) = body
      BY <1>1, SameText DEF After, Text
    <3> QED
      BY <2>1, <3>1, <3>2, <3>3 DEF SchemeText
  <2>2. CASE f.scheme # "none"
    <3> DEFINE s == <<f.scheme>>
               t == <<"://">> \o body
    <3>1. f.scheme \in Piece /\ "://" \in Piece /\ f.scheme # "://"
      BY <2>2, SomePieces DEF Form, Scheme
    <3>2. s \in Text /\ Len(s) = 1 /\ \A j \in 1 .. Len(s) : s[j] # "://"
      BY <3>1 DEF Text
    <3>3. /\ t \in Text /\ t # <<>> /\ Head(t) = "://" /\ Tail(t) = body
          /\ <<f.scheme, "://">> \o body = s \o t
      <4> HIDE DEF body
      <4> QED
        BY <1>1, <3>1 DEF Text
    <3>4. url = s \o t
      BY <2>2, <3>3, WrittenParts
    <3>5. SchemeText(f) = s
      BY <2>2 DEF SchemeText
    <3> HIDE DEF s, t, url, body
    <3>6. /\ At("://", s \o t) = Len(s) + 1 /\ Before("://", s \o t) = s
          /\ After(Len(s) + 1, s \o t) = Tail(t)
      BY <3>2, <3>3, Cut
    <3>7. Len(s) + 1 = 2 /\ 2 # 0
      BY <3>2
    <3>8. sep = 2 /\ Before("://", url) = s /\ After(2, url) = body
      BY <3>3, <3>4, <3>6, <3>7, Zenon
    <3> QED
      BY <3>5, <3>7, <3>8, Zenon DEF Before
  <2> QED
    BY <2>1, <2>2
<1>3. ParseHostPort(url) = LET scheme == SchemeText(f)
                               hostport == HostPort(f)
                           IN IF Head(hostport) = "[" THEN Bracketed(hostport, scheme)
                              ELSE Plain(hostport, scheme)
  <2> HIDE DEF body, url
  <2> QED
    BY <1>1, <1>2, Zenon DEF ParseHostPort
<1> QED
  BY <1>3, HostPortParsed, Zenon
-----------------------------------------------------------------------------
\* What is left of a text between the first of its pieces that is no blank and the last.
LEMMA TrimmedTo ==
  ASSUME NEW u, NEW k \in Nat, NEW l \in Nat, NEW n \in Nat, k < l, l <= n, Len(u) = n,
         \A i \in 1 .. n : u[i] # Blank <=> i \in k + 1 .. l
  PROVE  Trim(u) = SubSeq(u, k + 1, l)
<1> DEFINE kept == { i \in 1 .. Len(u) : u[i] # Blank }
<1>1. kept = k + 1 .. l
  OBVIOUS
<1> HIDE DEF kept
<1>2. k + 1 \in kept /\ l \in kept /\ \A i \in kept : k + 1 <= i /\ i <= l
  BY <1>1
<1>3. \A i, j \in kept : i <= j /\ j <= i => i = j
  BY <1>1
<1>4. (CHOOSE i \in kept : \A j \in kept : i <= j) = k + 1
  <2>1. \A i \in kept : (\A j \in kept : i <= j) <=> i = k + 1
    BY <1>2, <1>3
  <2> QED
    BY <1>2, <2>1
<1>5. (CHOOSE i \in kept : \A j \in kept : j <= i) = l
  <2>1. \A i \in kept : (\A j \in kept : j <= i) <=> i = l
    BY <1>2, <1>3
  <2> QED
    BY <1>2, <2>1
<1>6. Trim(u) = IF kept = {} THEN <<>>
                ELSE SubSeq(u, CHOOSE i \in kept : \A j \in kept : i <= j,
                               CHOOSE i \in kept : \A j \in kept : j <= i)
  BY Zenon DEF Trim, kept, Blank
<1> QED
  BY <1>2, <1>4, <1>5, <1>6, Zenon

LEMMA TrimmedBlanks ==
  ASSUME NEW b \in Seq({Blank}), NEW c \in Seq({Blank}), NEW w \in Text, Len(w) > 0,
         \A i \in 1 .. Len(w) : w[i] # Blank
  PROVE  Trim((b \o w) \o c) = w
<1> DEFINE u == (b \o w) \o c
<1>1. /\ b \in Text /\ Len(b) \in Nat /\ \A i \in 1 .. Len(b) : b[i] = Blank
      /\ c \in Text /\ Len(c) \in Nat /\ \A i \in 1 .. Len(c) : c[i] = Blank
  <2>1. {Blank} \subseteq Piece
    BY SomePieces
  <2>2. /\ b \in Text /\ Len(b) \in Nat /\ \A i \in 1 .. Len(b) : b[i] \in {Blank}
        /\ c \in Text /\ Len(c) \in Nat /\ \A i \in 1 .. Len(c) : c[i] \in {Blank}
    BY <2>1, MadeOf
  <2> QED
    BY <2>2
<1>2. Len(w) \in Nat
  BY DEF Text
<1>3. /\ Len(u) = (Len(b) + Len(w)) + Len(c)
      /\ \A i \in 1 .. Len(b) : u[i] = b[i]
      /\ \A i \in 1 .. Len(w) : u[Len(b) + i] = w[i]
      /\ \A i \in 1 .. Len(c) : u[(Len(b) + Len(w)) + i] = c[i]
      /\ SubSeq(u, Len(b) + 1, Len(b) + Len(w)) = w
  <2>1. b \in Seq(Piece) /\ w \in Seq(Piece) /\ c \in Seq(Piece)
    BY <1>1 DEF Text
  <2>2. /\ Len(u) = (Len(b) + Len(w)) + Len(c)
        /\ \A i \in 1 .. Len(b) : u[i] = b[i]
        /\ \A i \in 1 .. Len(w) : u[Len(b) + i] = w[i]
        /\ \A i \in 1 .. Len(c) : u[(Len(b) + Len(w)) + i] = c[i]
    BY <2>1
  <2>3. SubSeq(u, Len(b) + 1, Len(b) + Len(w)) = w
    BY <2>1
  <2> QED
    BY <2>2, <2>3
<1> HIDE DEF u
<1>4. PICK k \in Nat, l \in Nat, n \in Nat : k = Len(b) /\ l = Len(b) + Len(w) /\ n = Len(u)
  BY <1>1, <1>2, <1>3
<1>5. k < l /\ l <= n
  BY <1>1, <1>2, <1>3, <1>4
<1>6. \A i \in 1 .. n : u[i] # Blank <=> i \in k + 1 .. l
  <2> SUFFICES ASSUME NEW i \in 1 .. n PROVE u[i] # Blank <=> i \in k + 1 .. l
    OBVIOUS
  <2>1. CASE i <= k
    BY <1>1, <1>3, <1>4, <2>1
  <2>2. CASE i \in k + 1 .. l
    <3>1. i - k \in 1 .. Len(w) /\ Len(b) + (i - k) = i
      BY <1>1, <1>2, <1>4, <2>2
    <3> QED
      BY <1>3, <2>2, <3>1
  <2>3. CASE i > l
    <3>1. i - l \in 1 .. Len(c) /\ (Len(b) + Len(w)) + (i - l) = i
      BY <1>1, <1>2, <1>3, <1>4, <2>3
    <3>2. u[i] = c[i - l] /\ c[i - l] = Blank
      BY <1>1, <1>3, <3>1, Zenon
    <3> QED
      BY <1>4, <2>3, <3>2
  <2> QED
    BY <2>1, <2>2, <2>3
<1>7. Trim(u) = SubSeq(u, k + 1, l)
  BY <1>4, <1>5, <1>6, TrimmedTo
<1> QED
  BY <1>3, <1>4, <1>7 DEF u

\* The scheme is taken from a url that has one, and a url that has none stays as it is.
LEMMA SchemeStripped ==
  ASSUME NEW f \in Form
  PROVE  /\ StripScheme(Written(f)) = Written(NoScheme(f))
         /\ Written(f) \in Text /\ Len(Written(f)) > 0
         /\ \A i \in 1 .. Len(Written(f)) : Written(f)[i] # Blank
<1> DEFINE body == HostPort(f) \o PathText(f)
<1>1. /\ body \in Text /\ Len(body) > 0 /\ body[1] \notin Scheme
      /\ \A i \in 1 .. Len(body) : body[i] # Blank
  <2>1. /\ body \in Text /\ Len(body) > 0 /\ Head(body) = Head(HostText(f))
        /\ \A i \in 1 .. Len(body) : body[i] # Blank
    BY BodyOfWritten
  <2>2. Head(HostText(f)) \in HostPiece
    BY PartsOfWritten
  <2>3. Head(body) = body[1]
    <3> HIDE DEF body
    <3> QED
      BY <2>1, Joined
  <2> QED
    BY <2>1, <2>2, <2>3, SomePieces
<1>2. Written(NoScheme(f)) = body
  BY WrittenParts
<1>3. CASE f.scheme = "none"
  <2>1. Written(f) = body
    BY <1>3, WrittenParts
  <2> HIDE DEF body
  <2>2. StripScheme(body) = body
    BY <1>1 DEF StripScheme
  <2> QED
    BY <1>1, <1>2, <2>1, <2>2
<1>4. CASE f.scheme # "none"
  <2> DEFINE w == <<f.scheme, "://">> \o body
  <2>1. f.scheme \in Scheme /\ f.scheme \in Piece /\ "://" \in Piece
        /\ f.scheme # Blank /\ "://" # Blank
    BY <1>4, SomePieces DEF Form, Scheme, Blank
  <2>2. Written(f) = w
    BY <1>4, WrittenParts
  <2>3. <<f.scheme, "://">> \in Text
    BY <2>1 DEF Text
  <2>4. /\ w \in Text /\ Len(w) > 1 /\ w[1] = f.scheme /\ w[2] = "://" /\ After(2, w) = body
    <3> HIDE DEF body
    <3> QED
      BY <1>1, <2>1 DEF After, Text
  <2>5. \A i \in 1 .. Len(w) : w[i] # Blank
    <3> DEFINE r == <<f.scheme, "://">>
               P == Piece \ {Blank}
    <3>1. \A i \in 1 .. Len(r) : r[i] \in P
      BY <2>1
    <3>2. r \in Text
      BY <2>3
    <3> HIDE DEF r, body
    <3>3. \A i \in 1 .. Len(body) : body[i] \in P
      <4>1. \A i \in 1 .. Len(body) : body[i] \in Piece
        BY <1>1 DEF Text
      <4> QED
        BY <1>1, <4>1
    <3> HIDE DEF P
    <3>4. \A i \in 1 .. Len(r \o body) : (r \o body)[i] \in P
      BY <1>1, <3>1, <3>2, <3>3, JoinedOf
    <3> QED
      BY <3>4 DEF P, r
  <2> HIDE DEF w, body
  <2>6. StripScheme(w) = body
    BY <2>1, <2>4 DEF StripScheme
  <2> QED
    BY <1>2, <2>2, <2>4, <2>5, <2>6
<1> QED
  BY <1>3, <1>4

\* normalize_ws_url takes the blanks around a url and its scheme, and leaves the rest of
\* it, port and path included, as it is.
THEOREM NormalizesToTheRest ==
  ASSUME NEW f \in Form, NEW b \in Seq({Blank}), NEW c \in Seq({Blank})
  PROVE  NormalizeWsUrl((b \o Written(f)) \o c) = Written(NoScheme(f))
BY TrimmedBlanks, SchemeStripped DEF NormalizeWsUrl

\* The endpoint that the real client is given for a url is the host that the url names, as
\* it is written in a url, and behind it nothing, a port or a path.
THEOREM EndpointBeginsWithTheHost ==
  ASSUME NEW f \in Form
  PROVE  LET endpoint == NormalizeWsUrl(Written(f))
             host == AsWritten(Named(f).host)
             rest == After(Len(host), endpoint)
         IN /\ endpoint = host \o rest
            /\ rest = <<>> \/ Head(rest) \in {":", "/"}
<1> DEFINE a == HostText(f)
           b == PortText(f)
           c == PathText(f)
           t == b \o c
<1>1. a \in Text /\ b \in Text /\ c \in Text
  BY PartsOfWritten, SomePieces, MadeOf
<1>2. AsWritten(Named(f).host) = a
  <2>1. CASE f.host = "ip6"
    <3>1. Named(f).host = <<":", ":", "1">>
      BY <2>1, HostNamed
    <3>2. <<"[">> \o <<":", ":", "1">> \o <<"]">> = <<"[", ":", ":", "1", "]">>
      <4> DEFINE l == <<"[">>
                 w == <<":", ":", "1">>
                 r == <<"]">>
                 u == l \o w
                 v == <<"[", ":", ":", "1", "]">>
      <4>1. "[" \in Piece /\ ":" \in Piece /\ "1" \in Piece /\ "]" \in Piece
        BY DEF Piece, HostPiece
      <4>2. l \in Seq(Piece) /\ w \in Seq(Piece) /\ r \in Seq(Piece) /\ v \in Seq(Piece)
        BY <4>1
      <4>3. u \in Seq(Piece) /\ Len(u) = 4
            /\ u[1] = "[" /\ u[2] = ":" /\ u[3] = ":" /\ u[4] = "1"
        BY <4>2
      <4>4. Len(r) = 1 /\ r[1] = "]"
        OBVIOUS
      <4>5. Len(v) = 5 /\ v[1] = "[" /\ v[2] = ":" /\ v[3] = ":" /\ v[4] = "1" /\ v[5] = "]"
        OBVIOUS
      <4> HIDE DEF l, w, r, u, v
      <4>6. /\ u \o r \in Text /\ v \in Text /\ Len(u \o r) = Len(v)
            /\ \A i \in 1 .. Len(u \o r) : (u \o r)[i] = v[i]
        <5>1. /\ u \o r \in Text /\ Len(u \o r) = 5
              /\ \A i \in 1 .. 4 : (u \o r)[i] = u[i]
              /\ (u \o r)[4 + 1] = r[1]
          <6>1. u \in Text /\ r \in Text /\ 1 \in 1 .. Len(r)
            BY <4>2, <4>3, <4>4 DEF Text
          <6>2. /\ u \o r \in Text /\ Len(u \o r) = Len(u) + Len(r)
                /\ \A i \in 1 .. Len(u) : (u \o r)[i] = u[i]
                /\ (u \o r)[Len(u) + 1] = r[1]
            BY <6>1, Joined
          <6> QED
            BY <4>3, <4>4, <6>2
        <5>2. \A i \in 1 .. 5 : i = 1 \/ i = 2 \/ i = 3 \/ i = 4 \/ i = 4 + 1
          OBVIOUS
        <5>3. \A i \in 1 .. 5 : (u \o r)[i] = v[i]
          BY <4>3, <4>4, <4>5, <5>1, <5>2
        <5> QED
          BY <4>2, <4>5, <5>1, <5>3 DEF Text
      <4>7. u \o r = v
        BY <4>6, SameText
      <4> QED
        BY <4>7 DEF l, w, r, u, v
    <3> QED
      BY <2>1, <3>1, <3>2 DEF AsWritten, HostText
  <2>2. CASE f.host # "ip6"
    <3>1. Named(f).host = <<f.host>> /\ <<f.host>> # <<":", ":", "1">>
      BY <2>2, HostNamed
    <3> QED
      BY <2>2, <3>1 DEF AsWritten, HostText
  <2> QED
    BY <2>1, <2>2
<1>3. NormalizeWsUrl(Written(f)) = a \o t
  <2>1. <<>> \in Seq({Blank})
    OBVIOUS
  <2>2. NormalizeWsUrl((<<>> \o Written(f)) \o <<>>) = Written(NoScheme(f))
    BY <2>1, NormalizesToTheRest
  <2>3. (<<>> \o Written(f)) \o <<>> = Written(f)
    BY SchemeStripped, Joined
  <2>4. Written(NoScheme(f)) = (a \o b) \o c
    BY WrittenParts, Zenon DEF HostPort
  <2> HIDE DEF a, b, c
  <2>5. (a \o b) \o c = a \o (b \o c)
    BY <1>1 DEF Text
  <2> QED
    BY <2>2, <2>3, <2>4, <2>5
<1>4. t \in Text /\ (t = <<>> \/ Head(t) \in {":", "/"})
  <2>1. CASE f.port # "none"
    <3>1. b # <<>> /\ Head(b) = ":"
      BY <2>1 DEF PortText
    <3> HIDE DEF b, c
    <3>2. t \in Text /\ Head(t) = ":"
      BY <1>1, <3>1 DEF Text
    <3> QED
      BY <3>2
  <2>2. CASE f.port = "none"
    <3>1. b = <<>>
      BY <2>2 DEF PortText
    <3>2. t = c
      <4> HIDE DEF b, c
      <4> QED
        BY <1>1, <3>1, Joined
    <3>3. c = <<>> \/ Head(c) = "/"
      BY DEF PathText
    <3> QED
      BY <1>1, <3>2, <3>3
  <2> QED
    BY <2>1, <2>2
<1> HIDE DEF a, t
<1>5. After(Len(a), a \o t) = t
  BY <1>1, <1>4 DEF After, Text
<1> QED
  BY <1>2, <1>3, <1>4, <1>5, Zenon
=============================================================================
