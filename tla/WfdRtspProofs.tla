------------------------------ MODULE WfdRtspProofs ------------------------------
(***************************************************************************)
(* The exchange of a sink session and a source session, for any bounds, any*)
(* splicing and any number of connection attempts.                         *)
(*                                                                         *)
(* A session is k at the sink and c at the source; a and b are what is on  *)
(* its way to the sink and to the source.  The clauses are operators of    *)
(* these, since a handler sends while it changes its session: they hold    *)
(* after each of its parts, with what it has sent so far behind b or a.    *)
(***************************************************************************)
EXTENDS WfdRtsp, TLAPS

SinkFields == {"config", "session", "track", "client", "socket", "connected", "wfd", "status", "interrupting",
               "firstCast", "firstCreate", "cseq", "handlers", "timer", "timeoutCall", "keepAlive", "last",
               "starting", "tries", "media", "sending", "idrs", "creates", "told", "out"}
SourceFields == {"server", "socket", "peer", "accepted", "closed", "choice", "wfd", "cseq", "counts", "prosumer",
                 "timers", "timerId", "last", "fired", "creates", "media", "told", "out"}
MessageFields == {"req", "method", "session", "body", "cseq", "part", "params"}
SocketType == [fd : BOOLEAN, known : BOOLEAN, heard : BOOLEAN]

SinkRec(k) == k = [x \in SinkFields |-> k[x]]
SourceRec(c) == c = [x \in SourceFields |-> c[x]]
IsMessage(m) == /\ m = [x \in MessageFields |-> m[x]]
                /\ m.req \in BOOLEAN /\ m.cseq \in Nat

Queue(q) == /\ \E S : q \in Seq(S)
            /\ \A i \in 1..Len(q) : IsMessage(q[i]) /\ q[i].part \in {"whole", "head", "tail"}

-----------------------------------------------------------------------------
(* Messages that move the exchange on.  A message that was cut counts while*)
(* its head is on its way, or kept by the sink.                            *)

IsOptions(m) == m.req /\ m.method = "OPTIONS"
IsM4(m) == m.req /\ m.method = "SET_PARAMETER" /\ m.body = "params"
IsM5(m) == m.req /\ m.method = "SET_PARAMETER" /\ m.body = "setup" /\ m.part # "tail"
IsPlay(m) == m.req /\ m.method = "PLAY"
HasOptions(q) == \E i \in 1..Len(q) : IsOptions(q[i])
HasM4(q) == \E i \in 1..Len(q) : IsM4(q[i])
HasM5(q) == \E i \in 1..Len(q) : IsM5(q[i])
HasPlay(q) == \E i \in 1..Len(q) : IsPlay(q[i])

\* Where the exchange is: the token is the state of the source, a message or a handler.
TokenToSink(m) == IsOptions(m) \/ IsM5(m)
TokenToSource(m) == IsOptions(m) \/ IsPlay(m)
SourceToken(c) == c.wfd \in {"M0", "M3", "M4"} \/ "PLAYED" \in c.told
SinkToken(k) == IsM5(k.last) \/ \E h \in k.handlers : h[2] = "M6"

\* There is never more than one.
OneToken(k, c, a, b) ==
    /\ "PLAYED" \in c.told => c.wfd \notin {"M0", "M3", "M4"}
    /\ IsM5(k.last) => \A h \in k.handlers : h[2] # "M6"
    /\ \A g, h \in k.handlers : g[2] = "M6" /\ h[2] = "M6" => g = h
    /\ \A i, j \in 1..Len(a) : TokenToSink(a[i]) /\ TokenToSink(a[j]) => i = j
    /\ \A i, j \in 1..Len(b) : TokenToSource(b[i]) /\ TokenToSource(b[j]) => i = j
    /\ SourceToken(c) => ~SinkToken(k) /\ ~(HasOptions(a) \/ HasM5(a)) /\ ~(HasOptions(b) \/ HasPlay(b))
    /\ SinkToken(k) => ~(HasOptions(a) \/ HasM5(a)) /\ ~(HasOptions(b) \/ HasPlay(b))
    /\ (HasOptions(a) \/ HasM5(a)) => ~(HasOptions(b) \/ HasPlay(b))

-----------------------------------------------------------------------------
(* What each message tells of the sessions                                 *)

\* Before M4 nobody has asked for a consumer or a producer, and M4 is not on its way.
Early(c, a, b) == c.wfd \in {"M0", "M3"} \/ HasOptions(a) \/ HasOptions(b)
NoM4(k, c, a) == k.creates = 0 /\ c.creates = 0 /\ ~HasM4(a) /\ ~IsM4(k.last)

\* From M5 to M7 both have been asked for, each once.
Late(k, a, b) == HasM5(a) \/ SinkToken(k) \/ HasPlay(b) \/ \E h \in k.handlers : h[2] = "M7"
BothAsked(k, c) == k.creates = 1 /\ c.creates = 1

\* What the source awaits while it waits for the response to M4.
AwaitsM4(k, c, a, b) ==
    c.wfd = "M4" =>
        /\ c.creates = 0
        /\ \A i \in 1..Len(a) : a[i].req /\ a[i].cseq = c.cseq => IsM4(a[i])
        /\ k.last.req /\ k.last.cseq = c.cseq => IsM4(k.last)
        /\ \A i \in 1..Len(b) : ~b[i].req /\ b[i].cseq = c.cseq => k.creates = 1

Progress(k, c, a, b) ==
    /\ k.creates \in {0, 1} /\ c.creates \in {0, 1}
    /\ k.firstCreate <=> k.creates = 0
    /\ Early(c, a, b) => NoM4(k, c, a)
    /\ Late(k, a, b) => BothAsked(k, c)
    /\ AwaitsM4(k, c, a, b)
    /\ k.wfd = "PLAYING" \/ k.sending[1] = "IDR" => "PLAYED" \in k.told
    /\ "PLAYED" \in k.told => "PLAYED" \in c.told

-----------------------------------------------------------------------------
(* Numbers                                                                 *)

\* The sink has not answered M1: only a request to tear down can have taken a number.
BeforeM1(c, a) == c.wfd = "M0" \/ HasOptions(a)
OnlyTeardown(k) == /\ k.cseq \in {0, 1}
                   /\ k.cseq = 1 => k.wfd = "STOPPING" \/ ~k.client \/ k.sending[1] # "none"

Sending(k) == k.sending[1] \in {"STOP", "TEARDOWN", "IDR"}

\* A number is given out by one session, and the response to it carries it.
Numbers(k, c, a, b) ==
    /\ k.cseq \in Nat /\ c.cseq \in Nat
    /\ k.handlers \subseteq (0..k.cseq) \X Sink!HandlerKinds
    /\ Sending(k) => k.sending[2] \in 0..k.cseq
    /\ \A i \in 1..Len(a) : a[i].cseq <= IF a[i].req THEN c.cseq ELSE k.cseq
    /\ \A i \in 1..Len(b) : b[i].cseq <= IF b[i].req THEN k.cseq ELSE c.cseq
    /\ k.last.req => k.last.cseq <= c.cseq
    /\ c.last.req => c.last.cseq <= k.cseq
    /\ \A i \in 1..Len(a) : IsOptions(a[i]) => a[i].cseq >= 1
    /\ BeforeM1(c, a) => OnlyTeardown(k)

\* What is found with the number of PLAY is PLAY and its response.
PlayAlone(k, c, a, b) ==
    \A h \in k.handlers : h[2] = "M7" =>
        /\ \A i \in 1..Len(b) : b[i].req /\ b[i].cseq = h[1] => IsPlay(b[i])
        /\ \A i \in 1..Len(a) : ~a[i].req /\ a[i].cseq = h[1] => "PLAYED" \in c.told
        /\ c.last.req => c.last.cseq # h[1]
        /\ Sending(k) => k.sending[2] # h[1]

-----------------------------------------------------------------------------
(* The rest *)

\* Only requests of the exchange come from the source; only what has a body is cut, of the
\* requests on their way to the source that is an IDR request.
Bodies(k, c, a, b) ==
    /\ \A i \in 1..Len(a) : /\ a[i].req => a[i].body \in {"none", "query", "params", "setup"}
                            /\ a[i].req /\ a[i].body # "none" => a[i].method # "OPTIONS"
                            /\ a[i].part # "whole" => a[i].body # "none"
    /\ k.last.req => k.last.body \in {"none", "query", "params", "setup"} /\ k.last.method # "OPTIONS"
    /\ \A i \in 1..Len(b) : /\ b[i].req /\ b[i].body # "none" => b[i].method = "SET_PARAMETER"
                            /\ b[i].part # "whole" => b[i].body # "none"
    /\ c.last.req => c.last.method = "SET_PARAMETER"

\* The client exists from the start on, and is read from once the connection is made.
SinkOK(k, ln) ==
    /\ ln \in {"none", "up", "deaf", "down"}
    /\ k.socket \in SocketType /\ (k.socket.heard => k.socket.known)
    /\ ~k.client => k.socket = Closed
    /\ k.starting \in {"connecting", "selecting"} => k.client /\ ~k.socket.heard
    /\ k.connected \/ k.socket.heard \/ k.sending[1] # "none" \/ k.wfd = "PLAYING"
          => k.starting \in {"arming", "no"} /\ ln # "none"
    /\ k.sending[1] # "none" => k.client \/ ln = "down"
    /\ k.sending[1] \in {"crash", "deadlock"} => ln = "down"
    /\ k.starting = "never" => ~k.socket.heard /\ k.cseq = 0
    /\ k.starting \in {"selecting", "arming"} => ln # "none"
    /\ "STOPED" \in k.told => k.starting \in {"arming", "no"}

SourceOK(c) ==
    /\ c.socket \in SocketType /\ (c.socket.heard => c.socket.known)
    /\ c.peer \in SocketType /\ (c.peer.heard => c.peer.known)
    /\ c.server = "stopped" => c.socket = Closed /\ c.peer = Closed
    /\ c.timers \in {0, 1} /\ (c.timerId <=> c.timers = 1)
    /\ c.timers = 1 => "PLAYED" \in c.told
    /\ c.prosumer \in {"INIT", "START", "STOP"}
    /\ c.prosumer = "STOP" => c.timers = 0

Exchange(k, c, a, b) == /\ SinkRec(k) /\ SourceRec(c) /\ Queue(a) /\ Queue(b)
                        /\ IsMessage(k.last) /\ IsMessage(c.last)
                        /\ OneToken(k, c, a, b) /\ Progress(k, c, a, b)
                        /\ Numbers(k, c, a, b) /\ PlayAlone(k, c, a, b) /\ Bodies(k, c, a, b)

RtspInv == /\ Exchange(sink, source, toSink, toSource) /\ SinkOK(sink, link) /\ SourceOK(source)
           /\ sink.out = <<>> /\ source.out = <<>>

-----------------------------------------------------------------------------
(* Queues                                                                  *)

\* r is q with m behind it; r is what is left of q without its first n messages.
Appended(q, m, r) == /\ Queue(r)
                     /\ Len(q) \in Nat /\ Len(r) = Len(q) + 1
                     /\ \A i \in 1..Len(q) : r[i] = q[i]
                     /\ r[Len(q) + 1] = m
Suffix(q, r, n) == /\ Queue(r)
                   /\ Len(q) \in Nat /\ n \in 0..Len(q) /\ Len(r) = Len(q) - n
                   /\ \A i \in 1..Len(r) : r[i] = q[i + n]

Parts == {"whole", "head", "tail"}

\* The empty queue is a queue.
LEMMA EmptyQueue == Queue(<<>>) /\ Len(<<>>) = 0
<1>1. <<>> \in Seq({}) /\ Len(<<>>) = 0
  OBVIOUS
<1> QED
  BY <1>1 DEF Queue

\* A queue has a natural length, and appending nothing leaves it as it is.
LEMMA QueueLength ==
    ASSUME NEW q, Queue(q)
    PROVE  Len(q) \in Nat /\ q \o <<>> = q /\ (q # <<>> => Len(q) >= 1)
<1>1. PICK S : q \in Seq(S)
  BY DEF Queue
<1> QED
  BY <1>1

\* Two queues one behind the other.
LEMMA Joined ==
    ASSUME NEW q, NEW r, Queue(q), Queue(r)
    PROVE  /\ Queue(q \o r) /\ Len(q \o r) = Len(q) + Len(r)
           /\ \A i \in 1..Len(q) : (q \o r)[i] = q[i]
           /\ \A i \in 1..Len(r) : (q \o r)[Len(q) + i] = r[i]
<1>1. PICK S : q \in Seq(S)
  BY DEF Queue
<1>2. PICK T : r \in Seq(T)
  BY DEF Queue
<1>3. q \in Seq(S \cup T) /\ r \in Seq(S \cup T)
  BY <1>1, <1>2
<1>4. q \o r \in Seq(S \cup T) /\ Len(q \o r) = Len(q) + Len(r) /\ Len(q) \in Nat /\ Len(r) \in Nat
  BY <1>3
<1>5. \A i \in 1..Len(q) + Len(r) : (q \o r)[i] = IF i <= Len(q) THEN q[i] ELSE r[i - Len(q)]
  BY <1>3
<1>6. \A i \in 1..Len(q) : (q \o r)[i] = q[i]
  BY <1>4, <1>5
<1>7. \A i \in 1..Len(r) : (q \o r)[Len(q) + i] = r[i]
  BY <1>4, <1>5
<1>8. \A i \in 1..Len(q) + Len(r) : i \in 1..Len(q) \/ \E j \in 1..Len(r) : i = Len(q) + j
  <2> TAKE i \in 1..Len(q) + Len(r)
  <2>1. CASE i <= Len(q)
    BY <1>4, <2>1
  <2>2. CASE ~(i <= Len(q))
    <3>1. i - Len(q) \in 1..Len(r) /\ i = Len(q) + (i - Len(q))
      BY <1>4, <2>2
    <3> QED
      BY <3>1
  <2> QED
    BY <2>1, <2>2
<1>9. \A i \in 1..Len(q \o r) : IsMessage((q \o r)[i]) /\ (q \o r)[i].part \in {"whole", "head", "tail"}
  <2> TAKE i \in 1..Len(q \o r)
  <2>1. CASE i \in 1..Len(q)
    BY <1>6, <2>1 DEF Queue
  <2>2. ASSUME NEW j \in 1..Len(r), i = Len(q) + j
        PROVE  IsMessage((q \o r)[i]) /\ (q \o r)[i].part \in {"whole", "head", "tail"}
    BY <1>7, <2>2 DEF Queue
  <2> QED
    BY <1>4, <1>8, <2>1, <2>2
<1> QED
  BY <1>4, <1>6, <1>7, <1>9 DEF Queue

\* A message on its own, what a send onto an idle connection leaves, is a queue.
LEMMA OneMessage ==
    ASSUME NEW m, IsMessage(m), m.part \in Parts
    PROVE  Queue(<<m>>) /\ Len(<<m>>) = 1 /\ <<m>>[1] = m
<1>1. <<m>> \in Seq({m}) /\ Len(<<m>>) = 1 /\ <<m>>[1] = m
  OBVIOUS
<1>2. \A i \in 1..Len(<<m>>) : <<m>>[i] = m
  BY <1>1
<1>3. \E S : <<m>> \in Seq(S)
  BY <1>1
<1> QED
  BY <1>1, <1>2, <1>3 DEF Queue, Parts

\* Sending puts the message behind what was sent before.
LEMMA SentBehind ==
    ASSUME NEW t, NEW o, NEW m, Queue(t), Queue(o), IsMessage(m), m.part \in Parts
    PROVE  Queue(Append(o, m)) /\ Appended(t \o o, m, t \o Append(o, m))
<1>1. PICK S : o \in Seq(S)
  BY DEF Queue
<1>2. PICK T : t \in Seq(T)
  BY DEF Queue
<1> DEFINE U == S \cup T \cup {m}
<1>3. o \in Seq(U) /\ t \in Seq(U) /\ m \in U
  BY <1>1, <1>2
<1>4. Append(o, m) = o \o <<m>> /\ t \o (o \o <<m>>) = (t \o o) \o <<m>>
  BY <1>3
<1>5. Queue(o \o <<m>>) /\ Queue(t \o o)
  BY OneMessage, Joined
<1>6. Appended(t \o o, m, (t \o o) \o <<m>>)
  <2>1. Len(t \o o) \in Nat
    BY <1>5, QueueLength
  <2>2. Queue((t \o o) \o <<m>>) /\ Len((t \o o) \o <<m>>) = Len(t \o o) + 1
    BY <1>5, OneMessage, Joined
  <2>3. \A i \in 1..Len(t \o o) : ((t \o o) \o <<m>>)[i] = (t \o o)[i]
    BY <1>5, OneMessage, Joined
  <2>4. ((t \o o) \o <<m>>)[Len(t \o o) + 1] = m
    <3>1. 1 \in 1..Len(<<m>>) /\ <<m>>[1] = m
      BY OneMessage
    <3> QED
      BY <1>5, <3>1, OneMessage, Joined
  <2> QED
    BY <2>1, <2>2, <2>3, <2>4 DEF Appended
<1> QED
  BY <1>4, <1>5, <1>6

\* A read takes messages from the front.
LEMMA Taken ==
    ASSUME NEW q, Queue(q), NEW n \in 1..Len(q)
    PROVE  Suffix(q, SubSeq(q, n + 1, Len(q)), n)
<1>1. PICK S : q \in Seq(S)
  BY DEF Queue
<1>2. Len(q) \in Nat /\ n \in Nat
  BY <1>1
<1> DEFINE r == SubSeq(q, n + 1, Len(q))
<1>3. r \in Seq(S) /\ Len(r) = Len(q) - n /\ \A i \in 1..Len(r) : r[i] = q[i + n]
  BY <1>1, <1>2
<1> HIDE DEF r
<1>4. \A i \in 1..Len(r) : i + n \in 1..Len(q)
  BY <1>2, <1>3
<1>5. Queue(r)
  BY <1>3, <1>4 DEF Queue
<1> QED
  BY <1>2, <1>3, <1>5 DEF Suffix, r

\* What one read returns, as a queue of its own.
LEMMA Chunk ==
    ASSUME NEW q, Queue(q), NEW n \in 1..Len(q)
    PROVE  /\ Queue(SubSeq(q, 1, n)) /\ Len(SubSeq(q, 1, n)) = n
           /\ \A i \in 1..n : SubSeq(q, 1, n)[i] = q[i]
<1>1. PICK S : q \in Seq(S)
  BY DEF Queue
<1>2. Len(q) \in Nat /\ n \in Nat
  BY <1>1
<1> DEFINE r == SubSeq(q, 1, n)
<1>3. r \in Seq(S) /\ Len(r) = n /\ \A i \in 1..n : r[i] = q[i]
  BY <1>1, <1>2
<1> HIDE DEF r
<1>4. Queue(r)
  BY <1>2, <1>3 DEF Queue
<1> QED
  BY <1>3, <1>4 DEF r

-----------------------------------------------------------------------------
(* What may go away: messages that were read or lost, handlers and tokens  *)

\* Reading removes messages from the front: the others keep their order, and no kind of message appears.
LEMMA SuffixEffect ==
    ASSUME NEW q, NEW r, NEW n, Suffix(q, r, n)
    PROVE  /\ Queue(r)
           /\ \A i \in 1..Len(r) : i + n \in 1..Len(q) /\ r[i] = q[i + n]
           /\ \A i, j \in 1..Len(r) : i + n = j + n => i = j
           /\ HasOptions(r) => HasOptions(q)
           /\ HasM4(r) => HasM4(q)
           /\ HasM5(r) => HasM5(q)
           /\ HasPlay(r) => HasPlay(q)
<1>1. \A i \in 1..Len(r) : i + n \in 1..Len(q) /\ r[i] = q[i + n]
  BY DEF Suffix
<1>2. \A i, j \in 1..Len(r) : i + n = j + n => i = j
  BY DEF Suffix
<1> QED
  BY <1>1, <1>2 DEF Suffix, HasOptions, HasM4, HasM5, HasPlay

\* The exchange survives the sink reading, or losing, any number of messages.
LEMMA ReadBySink ==
    ASSUME NEW k, NEW c, NEW a, NEW b, NEW r, NEW n, Exchange(k, c, a, b), Suffix(a, r, n)
    PROVE  Exchange(k, c, r, b)
<1>1. OneToken(k, c, r, b)
  <2>1. \A i, j \in 1..Len(r) : TokenToSink(r[i]) /\ TokenToSink(r[j]) => i = j
    <3> TAKE i, j \in 1..Len(r)
    <3>1. i + n \in 1..Len(a) /\ r[i] = a[i + n] /\ j + n \in 1..Len(a) /\ r[j] = a[j + n]
      BY SuffixEffect
    <3>2. i + n = j + n => i = j
      BY SuffixEffect
    <3> QED
      BY <3>1, <3>2 DEF Exchange, OneToken
  <2> QED
    BY <2>1, SuffixEffect DEF Exchange, OneToken
<1>2. Progress(k, c, r, b)
  BY SuffixEffect DEF Exchange, Progress, Early, NoM4, Late, AwaitsM4
<1>3. Numbers(k, c, r, b)
  BY SuffixEffect DEF Exchange, Numbers, BeforeM1
<1>4. PlayAlone(k, c, r, b) /\ Bodies(k, c, r, b)
  BY SuffixEffect DEF Exchange, PlayAlone, Bodies
<1> QED
  BY <1>1, <1>2, <1>3, <1>4, SuffixEffect DEF Exchange

\* The exchange survives the source reading, or losing, any number of messages.
LEMMA ReadBySource ==
    ASSUME NEW k, NEW c, NEW a, NEW b, NEW r, NEW n, Exchange(k, c, a, b), Suffix(b, r, n)
    PROVE  Exchange(k, c, a, r)
<1>1. OneToken(k, c, a, r)
  <2>1. \A i, j \in 1..Len(r) : TokenToSource(r[i]) /\ TokenToSource(r[j]) => i = j
    <3> TAKE i, j \in 1..Len(r)
    <3>1. i + n \in 1..Len(b) /\ r[i] = b[i + n] /\ j + n \in 1..Len(b) /\ r[j] = b[j + n]
      BY SuffixEffect
    <3>2. i + n = j + n => i = j
      BY SuffixEffect
    <3> QED
      BY <3>1, <3>2 DEF Exchange, OneToken
  <2> QED
    BY <2>1, SuffixEffect DEF Exchange, OneToken
<1>2. Progress(k, c, a, r)
  BY SuffixEffect DEF Exchange, Progress, Early, NoM4, Late, AwaitsM4
<1>3. Numbers(k, c, a, r)
  BY SuffixEffect DEF Exchange, Numbers
<1>4. PlayAlone(k, c, a, r) /\ Bodies(k, c, a, r)
  <2>1. \A i \in 1..Len(r) : \E j \in 1..Len(b) : r[i] = b[j]
    BY SuffixEffect
  <2>2. PlayAlone(k, c, a, r)
    BY <2>1 DEF Exchange, PlayAlone
  <2>3. Bodies(k, c, a, r)
    BY <2>1 DEF Exchange, Bodies
  <2> QED
    BY <2>2, <2>3
<1> QED
  BY <1>1, <1>2, <1>3, <1>4, SuffixEffect DEF Exchange

\* NoMessage stands for no message in every respect.
LEMMA NoMessageIs == /\ IsMessage(NoMessage) /\ ~NoMessage.req
                     /\ IsMessage(Sink!NoMessage) /\ Sink!NoMessage = NoMessage
                     /\ IsMessage(Source!NoMessage) /\ Source!NoMessage = NoMessage
BY DEF NoMessage, Sink!NoMessage, Source!NoMessage, IsMessage, MessageFields

\* The sink gives something up: handlers, a part of a message, the client.  It may also be told
\* of anything but that it plays, and stop.
Fewer(k, l) == /\ SinkRec(l)
               /\ l.last = k.last \/ l.last = NoMessage
               /\ l.handlers \subseteq k.handlers
               /\ l.creates = k.creates /\ l.firstCreate = k.firstCreate
               /\ l.cseq = k.cseq
               /\ l.sending = k.sending
               /\ "PLAYED" \in l.told <=> "PLAYED" \in k.told
               /\ l.wfd = k.wfd \/ l.wfd = "STOPPING"
               /\ l.client => k.client

\* The exchange survives a step of the sink that asks for nothing and waits for no more than before.
LEMMA SinkGivesUp ==
    ASSUME NEW k, NEW c, NEW a, NEW b, NEW l, Exchange(k, c, a, b), Fewer(k, l)
    PROVE  Exchange(l, c, a, b)
<1>1. IsMessage(l.last) /\ (l.last.req => l.last = k.last)
  BY NoMessageIs DEF Exchange, Fewer
<1>2. IsM5(l.last) => IsM5(k.last)
  BY <1>1 DEF IsM5
<1>3. IsM4(l.last) => IsM4(k.last)
  BY <1>1 DEF IsM4
<1>4. SinkToken(l) => SinkToken(k)
  BY <1>2 DEF Fewer, SinkToken
<1>5. OneToken(l, c, a, b)
  BY <1>2, <1>4 DEF Exchange, Fewer, OneToken
<1>6. Progress(l, c, a, b)
  BY <1>1, <1>3, <1>4 DEF Exchange, Fewer, Progress, Early, NoM4, Late, BothAsked, AwaitsM4
<1>7. Numbers(l, c, a, b)
  BY <1>1 DEF Exchange, Fewer, Numbers, BeforeM1, OnlyTeardown, Sending
<1>8. PlayAlone(l, c, a, b) /\ Bodies(l, c, a, b)
  BY <1>1 DEF Exchange, Fewer, PlayAlone, Bodies, Sending
<1> QED
  BY <1>1, <1>5, <1>6, <1>7, <1>8 DEF Exchange, Fewer

\* The source may forget a part of a message, be told of anything but that it plays, and use
\* numbers up; its state only leaves those that carry the token.
Calmer(c, d) == /\ SourceRec(d)
                /\ d.last = c.last \/ d.last = NoMessage
                /\ d.wfd = c.wfd \/ d.wfd \notin {"M0", "M3", "M4"}
                /\ d.cseq \in Nat /\ d.cseq >= c.cseq
                /\ d.creates = c.creates
                /\ "PLAYED" \in d.told <=> "PLAYED" \in c.told

\* The exchange survives a step of the source that sends nothing and leaves the negotiation no further than it was.
LEMMA SourceGivesUp ==
    ASSUME NEW k, NEW c, NEW a, NEW b, NEW d, Exchange(k, c, a, b), Calmer(c, d)
    PROVE  Exchange(k, d, a, b)
<1>1. IsMessage(d.last) /\ (d.last.req => d.last = c.last)
  BY NoMessageIs DEF Exchange, Calmer
<1>2. OneToken(k, d, a, b)
  BY DEF Exchange, Calmer, OneToken, SourceToken
<1>3. Progress(k, d, a, b)
  <2>1. AwaitsM4(k, d, a, b)
    <3>1. CASE d.cseq = c.cseq
      BY <3>1 DEF Exchange, Calmer, Progress, AwaitsM4
    <3>2. CASE d.cseq > c.cseq
      <4>1. (\A i \in 1..Len(a) : a[i].cseq \in Nat) /\ (\A i \in 1..Len(b) : b[i].cseq \in Nat) /\ k.last.cseq \in Nat
        BY DEF Exchange, Queue, IsMessage
      <4>2. \A x \in Nat : x <= c.cseq => x # d.cseq
        BY <3>2 DEF Exchange, Numbers, Calmer
      <4> QED
        BY <4>1, <4>2 DEF Exchange, Calmer, Progress, AwaitsM4, Numbers
    <3> QED
      BY <3>1, <3>2 DEF Exchange, Numbers, Calmer
  <2> QED
    BY <2>1 DEF Exchange, Calmer, Progress, Early, NoM4, Late, BothAsked
<1>4. Numbers(k, d, a, b)
  <2>1. \A x \in Nat : x <= c.cseq => x <= d.cseq
    BY DEF Exchange, Numbers, Calmer
  <2>2. (\A i \in 1..Len(a) : a[i].cseq \in Nat) /\ (\A i \in 1..Len(b) : b[i].cseq \in Nat) /\ k.last.cseq \in Nat
    BY DEF Exchange, Queue, IsMessage
  <2> QED
    BY <1>1, <2>1, <2>2 DEF Exchange, Calmer, Numbers, BeforeM1
<1>5. PlayAlone(k, d, a, b) /\ Bodies(k, d, a, b)
  BY <1>1 DEF Exchange, Calmer, PlayAlone, Bodies
<1> QED
  BY <1>1, <1>2, <1>3, <1>4, <1>5 DEF Exchange, Calmer

-----------------------------------------------------------------------------
(* What is sent                                                            *)

NoToken(k, c, a, b) == /\ ~SourceToken(c) /\ ~SinkToken(k)
                       /\ ~HasOptions(a) /\ ~HasM5(a) /\ ~HasOptions(b) /\ ~HasPlay(b)

\* Sending adds one message at the back; the kinds of message in the queue are those that were there and its own.
LEMMA AppendedEffect ==
    ASSUME NEW q, NEW m, NEW r, Appended(q, m, r)
    PROVE  /\ Queue(r) /\ IsMessage(m) /\ Len(q) \in Nat
           /\ \A i \in 1..Len(r) : (i \in 1..Len(q) /\ r[i] = q[i]) \/ (i = Len(q) + 1 /\ r[i] = m)
           /\ HasOptions(r) <=> HasOptions(q) \/ IsOptions(m)
           /\ HasM4(r) <=> HasM4(q) \/ IsM4(m)
           /\ HasM5(r) <=> HasM5(q) \/ IsM5(m)
           /\ HasPlay(r) <=> HasPlay(q) \/ IsPlay(m)
<1>1. \A i \in 1..Len(r) : (i \in 1..Len(q) /\ r[i] = q[i]) \/ (i = Len(q) + 1 /\ r[i] = m)
  BY DEF Appended
<1>2. \A i \in 1..Len(q) : i \in 1..Len(r) /\ r[i] = q[i]
  BY DEF Appended
<1>3. Len(q) + 1 \in 1..Len(r) /\ r[Len(q) + 1] = m /\ IsMessage(m)
  BY DEF Appended, Queue
<1>4. HasOptions(r) <=> HasOptions(q) \/ IsOptions(m)
  BY <1>1, <1>2, <1>3 DEF HasOptions
<1>5. HasM4(r) <=> HasM4(q) \/ IsM4(m)
  BY <1>1, <1>2, <1>3 DEF HasM4
<1>6. HasM5(r) <=> HasM5(q) \/ IsM5(m)
  BY <1>1, <1>2, <1>3 DEF HasM5
<1>7. HasPlay(r) <=> HasPlay(q) \/ IsPlay(m)
  BY <1>1, <1>2, <1>3 DEF HasPlay
<1> QED
  BY <1>1, <1>3, <1>4, <1>5, <1>6, <1>7 DEF Appended

\* A message that is a token may be sent if there is none.
LEMMA StillOneToken ==
    ASSUME NEW k, NEW c, NEW a, NEW b, Exchange(k, c, a, b), NEW m, NEW r
    PROVE  /\ Appended(a, m, r) /\ (TokenToSink(m) => NoToken(k, c, a, b)) => OneToken(k, c, r, b)
           /\ Appended(b, m, r) /\ (TokenToSource(m) => NoToken(k, c, a, b)) => OneToken(k, c, a, r)
<1>1. ASSUME Appended(a, m, r), TokenToSink(m) => NoToken(k, c, a, b)
      PROVE  OneToken(k, c, r, b)
  <2>1. \A i, j \in 1..Len(r) : TokenToSink(r[i]) /\ TokenToSink(r[j]) => i = j
    <3>1. TokenToSink(m) => \A i \in 1..Len(a) : ~TokenToSink(a[i])
      BY <1>1 DEF NoToken, HasOptions, HasM5, TokenToSink
    <3>2. \A i, j \in 1..Len(a) : TokenToSink(a[i]) /\ TokenToSink(a[j]) => i = j
      BY DEF Exchange, OneToken
    <3> QED
      BY <1>1, <3>1, <3>2, AppendedEffect
  <2>2. TokenToSink(m) <=> IsOptions(m) \/ IsM5(m)
    BY DEF TokenToSink
  <2> QED
    BY <1>1, <2>1, <2>2, AppendedEffect DEF Exchange, OneToken, NoToken
<1>2. ASSUME Appended(b, m, r), TokenToSource(m) => NoToken(k, c, a, b)
      PROVE  OneToken(k, c, a, r)
  <2>1. \A i, j \in 1..Len(r) : TokenToSource(r[i]) /\ TokenToSource(r[j]) => i = j
    <3>1. TokenToSource(m) => \A i \in 1..Len(b) : ~TokenToSource(b[i])
      BY <1>2 DEF NoToken, HasOptions, HasPlay, TokenToSource
    <3>2. \A i, j \in 1..Len(b) : TokenToSource(b[i]) /\ TokenToSource(b[j]) => i = j
      BY DEF Exchange, OneToken
    <3> QED
      BY <1>2, <3>1, <3>2, AppendedEffect
  <2>2. TokenToSource(m) <=> IsOptions(m) \/ IsPlay(m)
    BY DEF TokenToSource
  <2> QED
    BY <1>2, <2>1, <2>2, AppendedEffect DEF Exchange, OneToken, NoToken
<1> QED
  BY <1>1, <1>2

\* A response of the sink.  The one to M4 is sent when the consumer has been asked for.
LEMMA SinkAnswers ==
    ASSUME NEW k, NEW c, NEW a, NEW b, Exchange(k, c, a, b), NEW m, NEW r, Appended(b, m, r),
           ~m.req, m.part = "whole", m.cseq <= c.cseq,
           c.wfd = "M4" /\ m.cseq = c.cseq => k.creates = 1
    PROVE  Exchange(k, c, a, r)
<1>1. ~IsOptions(m) /\ ~IsPlay(m) /\ ~TokenToSource(m)
  BY DEF IsOptions, IsPlay, TokenToSource
<1>2. OneToken(k, c, a, r)
  BY <1>1, StillOneToken
<1>3. Progress(k, c, a, r)
  BY <1>1, AppendedEffect DEF Exchange, Progress, Early, NoM4, Late, AwaitsM4
<1>4. Numbers(k, c, a, r)
  BY <1>1, AppendedEffect DEF Exchange, Numbers
<1>5. PlayAlone(k, c, a, r)
  BY <1>1, AppendedEffect DEF Exchange, PlayAlone
<1>6. Bodies(k, c, a, r)
  BY <1>1, AppendedEffect DEF Exchange, Bodies
<1> QED
  BY <1>2, <1>3, <1>4, <1>5, <1>6, AppendedEffect DEF Exchange

\* A request of the sink.
LEMMA SinkAsks ==
    ASSUME NEW k, NEW c, NEW a, NEW b, Exchange(k, c, a, b), NEW m, NEW r, Appended(b, m, r),
           m.req, m.part = "whole", m.cseq <= k.cseq,
           m.body # "none" => m.method = "SET_PARAMETER",
           TokenToSource(m) => NoToken(k, c, a, b),
           IsOptions(m) => NoM4(k, c, a),
           IsPlay(m) => BothAsked(k, c),
           \A h \in k.handlers : h[2] = "M7" /\ h[1] = m.cseq => IsPlay(m)
    PROVE  Exchange(k, c, a, r)
<1>1. OneToken(k, c, a, r)
  BY StillOneToken
<1>2. Progress(k, c, a, r)
  BY AppendedEffect DEF Exchange, Progress, Early, Late, AwaitsM4
<1>3. Numbers(k, c, a, r)
  BY AppendedEffect DEF Exchange, Numbers
<1>4. PlayAlone(k, c, a, r)
  BY AppendedEffect DEF Exchange, PlayAlone
<1>5. Bodies(k, c, a, r)
  BY AppendedEffect DEF Exchange, Bodies
<1> QED
  BY <1>1, <1>2, <1>3, <1>4, <1>5, AppendedEffect DEF Exchange

\* A response of the source.  The one to PLAY is sent when the agent has been told.
LEMMA SourceAnswers ==
    ASSUME NEW k, NEW c, NEW a, NEW b, Exchange(k, c, a, b), NEW m, NEW r, Appended(a, m, r),
           ~m.req, m.part = "whole", m.cseq <= k.cseq,
           \A h \in k.handlers : h[2] = "M7" /\ h[1] = m.cseq => "PLAYED" \in c.told
    PROVE  Exchange(k, c, r, b)
<1>1. ~IsOptions(m) /\ ~IsM4(m) /\ ~IsM5(m) /\ ~TokenToSink(m)
  BY DEF IsOptions, IsM4, IsM5, TokenToSink
<1>2. OneToken(k, c, r, b)
  BY <1>1, StillOneToken
<1>3. Progress(k, c, r, b)
  BY <1>1, AppendedEffect DEF Exchange, Progress, Early, NoM4, Late, AwaitsM4
<1>4. Numbers(k, c, r, b)
  BY <1>1, AppendedEffect DEF Exchange, Numbers, BeforeM1
<1>5. PlayAlone(k, c, r, b)
  BY <1>1, AppendedEffect DEF Exchange, PlayAlone
<1>6. Bodies(k, c, r, b)
  BY <1>1, AppendedEffect DEF Exchange, Bodies
<1> QED
  BY <1>2, <1>3, <1>4, <1>5, <1>6, AppendedEffect DEF Exchange

\* A request of the source other than M4.
LEMMA SourceAsks ==
    ASSUME NEW k, NEW c, NEW a, NEW b, Exchange(k, c, a, b), NEW m, NEW r, Appended(a, m, r),
           m.req, m.part = "whole", m.cseq <= c.cseq, ~IsM4(m),
           m.body \in {"none", "query", "params", "setup"}, m.body # "none" => m.method # "OPTIONS",
           c.wfd = "M4" => m.cseq < c.cseq,
           TokenToSink(m) => NoToken(k, c, a, b),
           IsOptions(m) => NoM4(k, c, a) /\ OnlyTeardown(k) /\ m.cseq >= 1,
           IsM5(m) => BothAsked(k, c)
    PROVE  Exchange(k, c, r, b)
<1>1. OneToken(k, c, r, b)
  BY StillOneToken
<1>2. m.cseq \in Nat /\ c.cseq \in Nat
  BY AppendedEffect DEF IsMessage, Exchange, Numbers
<1>3. Progress(k, c, r, b)
  BY <1>2, AppendedEffect DEF Exchange, Progress, Early, NoM4, Late, AwaitsM4
<1>4. Numbers(k, c, r, b)
  <2>1. \A i \in 1..Len(r) : r[i].cseq <= IF r[i].req THEN c.cseq ELSE k.cseq
    <3>1. \A i \in 1..Len(a) : a[i].cseq <= IF a[i].req THEN c.cseq ELSE k.cseq
      BY DEF Exchange, Numbers
    <3> QED
      BY <3>1, AppendedEffect
  <2>2. \A i \in 1..Len(r) : IsOptions(r[i]) => r[i].cseq >= 1
    <3>1. \A i \in 1..Len(a) : IsOptions(a[i]) => a[i].cseq >= 1
      BY DEF Exchange, Numbers
    <3> QED
      BY <3>1, AppendedEffect
  <2>3. BeforeM1(c, r) => BeforeM1(c, a) \/ IsOptions(m)
    BY AppendedEffect DEF BeforeM1
  <2> QED
    BY <2>1, <2>2, <2>3 DEF Exchange, Numbers
<1>5. PlayAlone(k, c, r, b)
  BY AppendedEffect DEF Exchange, PlayAlone
<1>6. Bodies(k, c, r, b)
  BY AppendedEffect DEF Exchange, Bodies
<1> QED
  BY <1>1, <1>3, <1>4, <1>5, <1>6, AppendedEffect DEF Exchange

\* M4: the source now waits for the response with its number, which nothing else has.
LEMMA SourceAsksM4 ==
    ASSUME NEW k, NEW c, NEW a, NEW b, Exchange(k, c, a, b), c.wfd = "M3",
           NEW m, NEW r, Appended(a, m, r), IsM4(m), m.part = "whole", m.cseq = c.cseq + 1,
           NEW d, SourceRec(d), d.wfd = "M4", d.cseq = c.cseq + 1, d.last = c.last,
           d.creates = c.creates, "PLAYED" \in d.told <=> "PLAYED" \in c.told
    PROVE  Exchange(k, d, r, b)
<1>1. ~IsOptions(m) /\ ~IsM5(m) /\ ~TokenToSink(m) /\ m.req /\ m.body = "params" /\ m.method # "OPTIONS"
  BY DEF IsM4, IsOptions, IsM5, TokenToSink
<1>2. OneToken(k, d, r, b)
  <2>1. OneToken(k, c, r, b)
    BY <1>1, StillOneToken
  <2> QED
    BY <2>1 DEF OneToken, SourceToken
<1>3. NoM4(k, c, a) /\ ~HasOptions(a) /\ ~HasOptions(b)
  BY DEF Exchange, Progress, Early, OneToken, SourceToken
<1>4. c.cseq \in Nat /\ \A x \in Nat : x <= c.cseq => x # d.cseq /\ x <= d.cseq
  BY DEF Exchange, Numbers
<1>5. (\A i \in 1..Len(a) : a[i].cseq \in Nat) /\ (\A i \in 1..Len(b) : b[i].cseq \in Nat) /\ k.last.cseq \in Nat
  BY DEF Exchange, Queue, IsMessage
<1>6. Progress(k, d, r, b)
  <2>1. ~Early(d, r, b)
    BY <1>1, <1>3, AppendedEffect DEF Early
  <2>2. Late(k, r, b) => Late(k, a, b)
    BY <1>1, AppendedEffect DEF Late
  <2>3. AwaitsM4(k, d, r, b)
    <3>1. \A i \in 1..Len(r) : r[i].req /\ r[i].cseq = d.cseq => IsM4(r[i])
      BY <1>4, <1>5, AppendedEffect DEF Exchange, Numbers
    <3>2. ~(k.last.req /\ k.last.cseq = d.cseq)
      BY <1>4, <1>5 DEF Exchange, Numbers
    <3>3. \A i \in 1..Len(b) : ~(~b[i].req /\ b[i].cseq = d.cseq)
      BY <1>4, <1>5 DEF Exchange, Numbers
    <3> QED
      BY <1>3, <3>1, <3>2, <3>3 DEF AwaitsM4, NoM4
  <2> QED
    BY <2>1, <2>2, <2>3 DEF Exchange, Progress, BothAsked
<1>7. Numbers(k, d, r, b)
  <2>1. \A i \in 1..Len(r) : r[i].cseq <= IF r[i].req THEN d.cseq ELSE k.cseq
    <3>1. \A i \in 1..Len(a) : a[i].cseq <= IF a[i].req THEN d.cseq ELSE k.cseq
      BY <1>4, <1>5 DEF Exchange, Numbers
    <3>2. m.cseq <= d.cseq /\ m.req
      BY <1>1, <1>4
    <3> QED
      BY <3>1, <3>2, AppendedEffect
  <2>2. \A i \in 1..Len(b) : b[i].cseq <= IF b[i].req THEN k.cseq ELSE d.cseq
    BY <1>4, <1>5 DEF Exchange, Numbers
  <2>3. k.last.req => k.last.cseq <= d.cseq
    BY <1>4, <1>5 DEF Exchange, Numbers
  <2>4. \A i \in 1..Len(r) : IsOptions(r[i]) => r[i].cseq >= 1
    BY <1>1, AppendedEffect DEF Exchange, Numbers
  <2>5. BeforeM1(d, r) => BeforeM1(c, a)
    BY <1>1, AppendedEffect DEF BeforeM1
  <2> QED
    BY <1>4, <2>1, <2>2, <2>3, <2>4, <2>5 DEF Exchange, Numbers
<1>8. PlayAlone(k, d, r, b)
  BY <1>1, AppendedEffect DEF Exchange, PlayAlone
<1>9. Bodies(k, d, r, b)
  BY <1>1, AppendedEffect DEF Exchange, Bodies
<1> QED
  BY <1>2, <1>6, <1>7, <1>8, <1>9, AppendedEffect DEF Exchange

-----------------------------------------------------------------------------
(* How the sessions move on                                                *)

\* The source goes to the state in which it waits for the response to M3.
LEMMA SourceAwaitsM3 ==
    ASSUME NEW k, NEW c, NEW a, NEW b, Exchange(k, c, a, b), NoToken(k, c, a, b), NoM4(k, c, a),
           NEW d, SourceRec(d), d.wfd = "M3", d.cseq = c.cseq, d.last = c.last,
           d.creates = c.creates, "PLAYED" \in d.told <=> "PLAYED" \in c.told
    PROVE  Exchange(k, d, a, b)
<1>1. OneToken(k, d, a, b)
  BY DEF Exchange, OneToken, NoToken, SourceToken
<1>2. Progress(k, d, a, b)
  BY DEF Exchange, Progress, Late, BothAsked, NoM4, AwaitsM4
<1>3. Numbers(k, d, a, b) /\ PlayAlone(k, d, a, b) /\ Bodies(k, d, a, b)
  BY DEF Exchange, Numbers, BeforeM1, PlayAlone, Bodies
<1> QED
  BY <1>1, <1>2, <1>3 DEF Exchange

\* The source asks its agent for a producer.
LEMMA ProducerAsked ==
    ASSUME NEW k, NEW c, NEW a, NEW b, Exchange(k, c, a, b), ~Early(c, a, b), c.creates = 0, c.wfd # "M4",
           NEW d, SourceRec(d), d.wfd = c.wfd, d.cseq = c.cseq, d.last = c.last,
           d.creates = 1, "PLAYED" \in d.told <=> "PLAYED" \in c.told
    PROVE  Exchange(k, d, a, b)
<1>1. OneToken(k, d, a, b)
  BY DEF Exchange, OneToken, SourceToken
<1>2. Progress(k, d, a, b)
  BY DEF Exchange, Progress, Early, BothAsked, AwaitsM4
<1>3. Numbers(k, d, a, b) /\ PlayAlone(k, d, a, b) /\ Bodies(k, d, a, b)
  BY DEF Exchange, Numbers, BeforeM1, PlayAlone, Bodies
<1> QED
  BY <1>1, <1>2, <1>3 DEF Exchange

\* The source tells its agent that it plays.
LEMMA SourcePlayed ==
    ASSUME NEW k, NEW c, NEW a, NEW b, Exchange(k, c, a, b), NoToken(k, c, a, b),
           NEW d, SourceRec(d), d.wfd = c.wfd, d.cseq = c.cseq, d.last = c.last,
           d.creates = c.creates, "PLAYED" \in d.told
    PROVE  Exchange(k, d, a, b)
<1>1. OneToken(k, d, a, b)
  BY DEF Exchange, OneToken, NoToken, SourceToken
<1>2. Progress(k, d, a, b)
  BY DEF Exchange, Progress, Early, NoM4, BothAsked, AwaitsM4
<1>3. Numbers(k, d, a, b) /\ PlayAlone(k, d, a, b) /\ Bodies(k, d, a, b)
  BY DEF Exchange, Numbers, BeforeM1, PlayAlone, Bodies
<1> QED
  BY <1>1, <1>2, <1>3 DEF Exchange

\* The sink asks its agent for a consumer.
LEMMA ConsumerAsked ==
    ASSUME NEW k, NEW c, NEW a, NEW b, Exchange(k, c, a, b), ~Early(c, a, b), k.creates = 0,
           NEW l, SinkRec(l), l.creates = 1, ~l.firstCreate, l.last = k.last, l.handlers = k.handlers,
           l.cseq = k.cseq, l.sending = k.sending, l.wfd = k.wfd, l.client = k.client,
           "PLAYED" \in l.told <=> "PLAYED" \in k.told
    PROVE  Exchange(l, c, a, b)
<1>1. OneToken(l, c, a, b)
  BY DEF Exchange, OneToken, SinkToken
<1>2. Progress(l, c, a, b)
  BY DEF Exchange, Progress, Late, SinkToken, BothAsked, AwaitsM4
<1>3. Numbers(l, c, a, b) /\ PlayAlone(l, c, a, b) /\ Bodies(l, c, a, b)
  BY DEF Exchange, Numbers, BeforeM1, OnlyTeardown, Sending, PlayAlone, Bodies
<1> QED
  BY <1>1, <1>2, <1>3 DEF Exchange

\* The sink tells its agent that it plays.
LEMMA SinkPlayed ==
    ASSUME NEW k, NEW c, NEW a, NEW b, Exchange(k, c, a, b), "PLAYED" \in c.told,
           NEW l, SinkRec(l), "PLAYED" \in l.told, l.creates = k.creates, l.firstCreate = k.firstCreate,
           l.last = k.last, l.handlers = k.handlers, l.cseq = k.cseq, l.sending = k.sending
    PROVE  Exchange(l, c, a, b)
<1>1. OneToken(l, c, a, b)
  BY DEF Exchange, OneToken, SinkToken
<1>2. Progress(l, c, a, b)
  BY DEF Exchange, Progress, NoM4, Late, SinkToken, BothAsked, AwaitsM4
<1>3. ~BeforeM1(c, a)
  BY DEF Exchange, OneToken, SourceToken, BeforeM1
<1>4. Numbers(l, c, a, b) /\ PlayAlone(l, c, a, b) /\ Bodies(l, c, a, b)
  BY <1>3 DEF Exchange, Numbers, Sending, PlayAlone, Bodies
<1> QED
  BY <1>1, <1>2, <1>4 DEF Exchange

\* The sink takes a number over from M1.
LEMMA NumberRaised ==
    ASSUME NEW k, NEW c, NEW a, NEW b, Exchange(k, c, a, b), ~BeforeM1(c, a),
           NEW l, SinkRec(l), l.cseq \in Nat, l.cseq >= k.cseq,
           l.creates = k.creates, l.firstCreate = k.firstCreate, l.last = k.last, l.handlers = k.handlers,
           l.sending = k.sending, l.wfd \in {k.wfd, "READY"}, "PLAYED" \in l.told <=> "PLAYED" \in k.told
    PROVE  Exchange(l, c, a, b)
<1>1. OneToken(l, c, a, b)
  BY DEF Exchange, OneToken, SinkToken
<1>2. Progress(l, c, a, b)
  BY DEF Exchange, Progress, NoM4, Late, SinkToken, BothAsked, AwaitsM4
<1>3. Numbers(l, c, a, b)
  <2>1. k.cseq \in Nat /\ \A x \in Nat : x <= k.cseq => x <= l.cseq
    BY DEF Exchange, Numbers
  <2>2. (\A i \in 1..Len(a) : a[i].cseq \in Nat) /\ (\A i \in 1..Len(b) : b[i].cseq \in Nat) /\ c.last.cseq \in Nat
    BY DEF Exchange, Queue, IsMessage
  <2>3. l.handlers \subseteq (0..l.cseq) \X Sink!HandlerKinds
    BY <2>1 DEF Exchange, Numbers
  <2>4. Sending(l) => l.sending[2] \in 0..l.cseq
    BY <2>1 DEF Exchange, Numbers, Sending
  <2> QED
    BY <2>1, <2>2, <2>3, <2>4 DEF Exchange, Numbers
<1>4. PlayAlone(l, c, a, b) /\ Bodies(l, c, a, b)
  BY DEF Exchange, Sending, PlayAlone, Bodies
<1> QED
  BY <1>1, <1>2, <1>3, <1>4 DEF Exchange

\* The sink awaits a response with a new number.
LEMMA SinkAwaits ==
    ASSUME NEW k, NEW c, NEW a, NEW b, Exchange(k, c, a, b), ~BeforeM1(c, a),
           NEW what \in {"M2", "M6", "M7"}, what = "M6" => NoToken(k, c, a, b), what # "M2" => BothAsked(k, c),
           NEW l, SinkRec(l), l.cseq = k.cseq + 1, l.handlers \subseteq k.handlers \cup {<<k.cseq + 1, what>>},
           l.creates = k.creates, l.firstCreate = k.firstCreate, l.last = k.last,
           l.sending = k.sending, l.wfd # "PLAYING" \/ l.wfd = k.wfd, "PLAYED" \in l.told <=> "PLAYED" \in k.told
    PROVE  Exchange(l, c, a, b)
<1> DEFINE n == k.cseq + 1
<1>1. k.cseq \in Nat /\ n \in Nat /\ \A x \in Nat : x <= k.cseq => x <= n /\ x # n
  BY DEF Exchange, Numbers
<1>2. (\A i \in 1..Len(a) : a[i].cseq \in Nat) /\ (\A i \in 1..Len(b) : b[i].cseq \in Nat) /\ c.last.cseq \in Nat
  BY DEF Exchange, Queue, IsMessage
<1>3. \A h \in l.handlers : h \in k.handlers \/ (h[1] = n /\ h[2] = what)
  OBVIOUS
<1> HIDE DEF n
<1>4. OneToken(l, c, a, b)
  <2>1. SinkToken(l) => SinkToken(k) \/ what = "M6"
    BY <1>3 DEF SinkToken
  <2>2. \A g, h \in l.handlers : g[2] = "M6" /\ h[2] = "M6" => g = h
    <3>1. \A h \in l.handlers : h \in k.handlers \/ (h = <<n, what>>)
      BY DEF n
    <3>2. what = "M6" => \A h \in k.handlers : h[2] # "M6"
      BY DEF NoToken, SinkToken
    <3>3. <<n, what>>[2] = what
      OBVIOUS
    <3> QED
      BY <3>1, <3>2, <3>3 DEF Exchange, OneToken
  <2>3. IsM5(l.last) => \A h \in l.handlers : h[2] # "M6"
    BY <1>3 DEF Exchange, OneToken, NoToken, SinkToken
  <2> QED
    BY <2>1, <2>2, <2>3 DEF Exchange, OneToken, NoToken
<1>5. Progress(l, c, a, b)
  <2>1. BothAsked(k, c) => BothAsked(l, c)
    BY DEF BothAsked
  <2>2. Late(l, a, b) => Late(k, a, b) \/ what # "M2"
    BY <1>3 DEF Late, SinkToken
  <2>3. l.wfd = "PLAYING" => k.wfd = "PLAYING"
    OBVIOUS
  <2> QED
    BY <2>1, <2>2, <2>3 DEF Exchange, Progress, NoM4, AwaitsM4
<1>6. Numbers(l, c, a, b)
  <2>1. l.handlers \subseteq (0..l.cseq) \X Sink!HandlerKinds
    <3>1. <<n, what>> \in (0..l.cseq) \X Sink!HandlerKinds
      BY <1>1 DEF n, Sink!HandlerKinds
    <3>2. k.handlers \subseteq (0..l.cseq) \X Sink!HandlerKinds
      BY <1>1 DEF n, Exchange, Numbers
    <3> QED
      BY <3>1, <3>2 DEF n
  <2>2. Sending(l) => l.sending[2] \in 0..l.cseq
    BY <1>1 DEF n, Exchange, Numbers, Sending
  <2>3. \A x \in Nat : x <= k.cseq => x <= l.cseq
    BY <1>1 DEF n
  <2> QED
    BY <1>1, <1>2, <2>1, <2>2, <2>3 DEF n, Exchange, Numbers
<1>7. PlayAlone(l, c, a, b)
  <2> SUFFICES ASSUME NEW h \in l.handlers, h[2] = "M7"
               PROVE  /\ \A i \in 1..Len(b) : b[i].req /\ b[i].cseq = h[1] => IsPlay(b[i])
                      /\ \A i \in 1..Len(a) : ~a[i].req /\ a[i].cseq = h[1] => "PLAYED" \in c.told
                      /\ c.last.req => c.last.cseq # h[1]
                      /\ Sending(l) => l.sending[2] # h[1]
    BY DEF PlayAlone
  <2>1. CASE h \in k.handlers
    BY <2>1 DEF Exchange, PlayAlone, Sending
  <2>2. CASE h[1] = n
    <3>1. Sending(l) => l.sending[2] # n
      BY <1>1 DEF Exchange, Numbers, Sending
    <3> QED
      BY <1>1, <1>2, <2>2, <3>1 DEF Exchange, Numbers
  <2> QED
    BY <1>3, <2>1, <2>2
<1>8. Bodies(l, c, a, b)
  BY DEF Exchange, Bodies
<1> QED
  BY <1>4, <1>5, <1>6, <1>7, <1>8 DEF Exchange

\* A thread of the pool takes a number.
LEMMA PoolBegins ==
    ASSUME NEW k, NEW c, NEW a, NEW b, Exchange(k, c, a, b), k.client, k.sending[1] = "none", k.wfd # "STOPPING",
           NEW l, SinkRec(l), l.sending[1] \in {"STOP", "TEARDOWN", "IDR"}, l.sending[1] = "IDR" => k.wfd = "PLAYING",
           l.cseq = k.cseq + 1, l.sending[2] = k.cseq + 1, l.handlers = k.handlers,
           l.creates = k.creates, l.firstCreate = k.firstCreate, l.last = k.last,
           l.wfd = k.wfd, "PLAYED" \in l.told <=> "PLAYED" \in k.told
    PROVE  Exchange(l, c, a, b)
<1> DEFINE n == k.cseq + 1
<1>1. k.cseq \in Nat /\ n \in Nat /\ \A x \in Nat : x <= k.cseq => x <= n /\ x # n
  BY DEF Exchange, Numbers
<1>2. (\A i \in 1..Len(a) : a[i].cseq \in Nat) /\ (\A i \in 1..Len(b) : b[i].cseq \in Nat) /\ c.last.cseq \in Nat
  BY DEF Exchange, Queue, IsMessage
<1>3. l.sending[2] = n /\ l.cseq = n
  OBVIOUS
<1> HIDE DEF n
<1>4. OneToken(l, c, a, b)
  BY DEF Exchange, OneToken, SinkToken
<1>5. Progress(l, c, a, b)
  BY <1>3 DEF Exchange, Progress, NoM4, Late, SinkToken, BothAsked, AwaitsM4
<1>6. Numbers(l, c, a, b)
  <2>1. l.handlers \subseteq (0..l.cseq) \X Sink!HandlerKinds
    BY <1>1, <1>3 DEF Exchange, Numbers
  <2>2. BeforeM1(c, a) => OnlyTeardown(l)
    <3>1. BeforeM1(c, a) => k.cseq = 0
      BY DEF Exchange, Numbers, OnlyTeardown
    <3> QED
      BY <1>3, <3>1 DEF OnlyTeardown, n
  <2> QED
    BY <1>1, <1>2, <1>3, <2>1, <2>2 DEF Exchange, Numbers
<1>7. PlayAlone(l, c, a, b)
  <2>1. \A h \in k.handlers : h[1] \in Nat /\ h[1] <= k.cseq
    BY DEF Exchange, Numbers
  <2> QED
    BY <1>1, <1>3, <2>1 DEF Exchange, PlayAlone
<1>8. Bodies(l, c, a, b)
  BY DEF Exchange, Bodies
<1> QED
  BY <1>4, <1>5, <1>6, <1>7, <1>8 DEF Exchange

\* It is done with the request, or has failed for good.
LEMMA PoolEnds ==
    ASSUME NEW k, NEW c, NEW a, NEW b, Exchange(k, c, a, b), Sending(k),
           NEW l, SinkRec(l), l.sending[1] \in {"none", "crash", "deadlock"},
           \A h \in l.handlers : h \in k.handlers \/ (h = <<k.cseq, "M8">>) \/ (h = <<k.cseq, "IDR">>),
           l.sending[1] = "none" => l.wfd = "STOPPING" \/ k.sending[1] = "IDR",
           l.creates = k.creates, l.firstCreate = k.firstCreate, l.last = k.last, l.cseq = k.cseq,
           l.wfd = k.wfd \/ l.wfd = "STOPPING",
           "PLAYED" \in l.told <=> "PLAYED" \in k.told
    PROVE  Exchange(l, c, a, b)
<1>1. k.cseq \in Nat
  BY DEF Exchange, Numbers
<1>2. \A h \in l.handlers : h \in k.handlers \/ h[2] \in {"M8", "IDR"}
  OBVIOUS
<1>3. SinkToken(l) => SinkToken(k)
  BY <1>2 DEF SinkToken
<1>4. OneToken(l, c, a, b)
  BY <1>2, <1>3 DEF Exchange, OneToken
<1>5. Late(l, a, b) => Late(k, a, b)
  BY <1>2, <1>3 DEF Late
<1>6. Progress(l, c, a, b)
  BY <1>5 DEF Exchange, Progress, NoM4, BothAsked, AwaitsM4
<1>7. Numbers(l, c, a, b)
  <2>1. l.handlers \subseteq (0..l.cseq) \X Sink!HandlerKinds
    <3>1. <<k.cseq, "M8">> \in (0..l.cseq) \X Sink!HandlerKinds /\ <<k.cseq, "IDR">> \in (0..l.cseq) \X Sink!HandlerKinds
      BY <1>1 DEF Sink!HandlerKinds
    <3> QED
      BY <3>1 DEF Exchange, Numbers
  <2>2. BeforeM1(c, a) => OnlyTeardown(l)
    <3>1. BeforeM1(c, a) => k.sending[1] # "IDR"
      BY DEF Exchange, Progress, OneToken, SourceToken, BeforeM1
    <3> QED
      BY <3>1 DEF Exchange, Numbers, OnlyTeardown
  <2>3. ~Sending(l)
    BY DEF Sending
  <2> QED
    BY <2>1, <2>2, <2>3 DEF Exchange, Numbers
<1>8. PlayAlone(l, c, a, b)
  BY <1>2 DEF Exchange, PlayAlone, Sending
<1>9. Bodies(l, c, a, b)
  BY DEF Exchange, Bodies
<1> QED
  BY <1>4, <1>6, <1>7, <1>8, <1>9 DEF Exchange

-----------------------------------------------------------------------------
(* The message that a read hands to a handler                              *)

\* m was a message on its way to the sink, in one piece or two; its body may be lost.
SinkHolds(k, c, a, b, m) ==
    /\ IsMessage(m) /\ m.part = "whole"
    /\ m.req => /\ m.cseq <= c.cseq
                /\ m.body \in {"none", "query", "params", "setup"}
                /\ c.wfd = "M4" /\ m.cseq = c.cseq => m.method = "SET_PARAMETER" /\ m.body \in {"params", "none"}
    /\ IsOptions(m) => /\ NoToken(k, c, a, b) /\ NoM4(k, c, a)
                       /\ OnlyTeardown(k) /\ ~BeforeM1(c, a) /\ m.cseq >= 1
    /\ IsM5(m) => NoToken(k, c, a, b) /\ BothAsked(k, c)
    /\ IsM4(m) => ~Early(c, a, b)
    /\ ~m.req => /\ m.cseq <= k.cseq
                 /\ \A h \in k.handlers : h[2] = "M7" /\ h[1] = m.cseq => "PLAYED" \in c.told

\* m is n, up to where it was cut and to a lost body.
SameMessage(m, n) == /\ IsMessage(m) /\ m.part = "whole" /\ m.req = n.req /\ m.method = n.method
                     /\ m.cseq = n.cseq /\ m.params = n.params
                     /\ m.body \in {n.body, "none"}

\* The first message on its way is read.
LEMMA SinkTakes ==
    ASSUME NEW k, NEW c, NEW a, NEW b, Exchange(k, c, a, b), NEW r, Suffix(a, r, 1),
           a[1].part = "whole", NEW m, SameMessage(m, a[1])
    PROVE  Exchange(k, c, r, b) /\ SinkHolds(k, c, r, b, m)
<1>1. 1 \in 1..Len(a) /\ Len(a) \in Nat
  BY DEF Suffix
<1>2. /\ IsOptions(m) => IsOptions(a[1]) /\ HasOptions(a)
      /\ IsM5(m) => IsM5(a[1]) /\ HasM5(a)
      /\ IsM4(m) => IsM4(a[1]) /\ HasM4(a)
  BY <1>1 DEF SameMessage, IsOptions, IsM5, IsM4, HasOptions, HasM5, HasM4
<1>3. Exchange(k, c, r, b)
  BY ReadBySink
<1>4. IsOptions(m) \/ IsM5(m) => NoToken(k, c, r, b)
  <2> HAVE IsOptions(m) \/ IsM5(m)
  <2>1. TokenToSink(a[1])
    BY <1>2 DEF TokenToSink
  <2>2. \A i \in 1..Len(r) : ~TokenToSink(r[i])
    <3> TAKE i \in 1..Len(r)
    <3>1. i + 1 \in 1..Len(a) /\ r[i] = a[i + 1] /\ i + 1 # 1
      BY DEF Suffix
    <3> QED
      BY <1>1, <2>1, <3>1 DEF Exchange, OneToken
  <2>3. ~HasOptions(r) /\ ~HasM5(r)
    BY <2>2 DEF HasOptions, HasM5, TokenToSink
  <2> QED
    BY <1>2, <2>3 DEF Exchange, OneToken, NoToken
<1>5. IsOptions(m) => NoM4(k, c, r) /\ OnlyTeardown(k) /\ ~BeforeM1(c, r) /\ m.cseq >= 1
  <2> HAVE IsOptions(m)
  <2>1. NoM4(k, c, a) /\ (HasM4(r) => HasM4(a))
    BY <1>2, SuffixEffect DEF Exchange, Progress, Early
  <2>2. ~BeforeM1(c, r)
    BY <1>4 DEF NoToken, SourceToken, BeforeM1
  <2>3. OnlyTeardown(k) /\ m.cseq >= 1
    BY <1>1, <1>2 DEF Exchange, Numbers, BeforeM1, SameMessage
  <2> QED
    BY <2>1, <2>2, <2>3 DEF NoM4
<1>6. IsM5(m) => BothAsked(k, c)
  BY <1>2 DEF Exchange, Progress, Late
<1>7. IsM4(m) => ~Early(c, r, b)
  BY <1>2, SuffixEffect DEF Exchange, Progress, Early, NoM4
<1>8. m.req => /\ m.cseq <= c.cseq
               /\ m.body \in {"none", "query", "params", "setup"}
               /\ c.wfd = "M4" /\ m.cseq = c.cseq => m.method = "SET_PARAMETER" /\ m.body \in {"params", "none"}
  <2>1. m.req => m.cseq <= c.cseq
    BY <1>1 DEF SameMessage, Exchange, Numbers
  <2>2. m.req => m.body \in {"none", "query", "params", "setup"}
    BY <1>1 DEF SameMessage, Exchange, Bodies
  <2>3. m.req /\ c.wfd = "M4" /\ m.cseq = c.cseq => m.method = "SET_PARAMETER" /\ m.body \in {"params", "none"}
    BY <1>1 DEF SameMessage, Exchange, Progress, AwaitsM4, IsM4
  <2> QED
    BY <2>1, <2>2, <2>3
<1>9. ~m.req => /\ m.cseq <= k.cseq
                /\ \A h \in k.handlers : h[2] = "M7" /\ h[1] = m.cseq => "PLAYED" \in c.told
  BY <1>1 DEF SameMessage, Exchange, Numbers, PlayAlone
<1> QED
  BY <1>3, <1>4, <1>5, <1>6, <1>7, <1>8, <1>9 DEF SinkHolds, SameMessage

\* The sink forgets what it kept; the message in hand says the same.
LEMMA SinkForgets ==
    ASSUME NEW k, NEW c, NEW a, NEW b, Exchange(k, c, a, b), NEW m, SinkHolds(k, c, a, b, m),
           NEW l, l = [k EXCEPT !.last = NoMessage]
    PROVE  Exchange(l, c, a, b) /\ SinkHolds(l, c, a, b, m)
<1>1. /\ SinkRec(l) /\ l.last = NoMessage /\ l.handlers = k.handlers /\ l.creates = k.creates
      /\ l.firstCreate = k.firstCreate /\ l.cseq = k.cseq /\ l.sending = k.sending /\ l.told = k.told
      /\ l.wfd = k.wfd /\ l.client = k.client
  BY DEF Exchange, SinkRec, SinkFields
<1>2. Exchange(l, c, a, b)
  BY <1>1, SinkGivesUp DEF Fewer
<1>3. ~IsM5(l.last) /\ ~IsM4(l.last)
  BY <1>1, NoMessageIs DEF IsM4, IsM5
<1>4. NoToken(k, c, a, b) => NoToken(l, c, a, b)
  BY <1>1, <1>3 DEF NoToken, SinkToken
<1> QED
  BY <1>1, <1>2, <1>3, <1>4 DEF SinkHolds, NoM4, OnlyTeardown, BothAsked

\* The rest of a message that was cut is read: the sink puts it together.
LEMMA SinkJoins ==
    ASSUME NEW k, NEW c, NEW a, NEW b, Exchange(k, c, a, b), k.last.req,
           NEW m, SameMessage(m, k.last), k.last.part # "tail",
           NEW l, l = [k EXCEPT !.last = NoMessage]
    PROVE  Exchange(l, c, a, b) /\ SinkHolds(l, c, a, b, m)
<1>1. /\ SinkRec(l) /\ l.last = NoMessage /\ l.handlers = k.handlers /\ l.creates = k.creates
      /\ l.firstCreate = k.firstCreate /\ l.cseq = k.cseq /\ l.sending = k.sending /\ l.told = k.told
      /\ l.wfd = k.wfd /\ l.client = k.client
  BY DEF Exchange, SinkRec, SinkFields
<1>2. Exchange(l, c, a, b)
  BY <1>1, SinkGivesUp DEF Fewer
<1>3. ~IsM5(l.last) /\ ~IsM4(l.last)
  BY <1>1, NoMessageIs DEF IsM4, IsM5
<1>4. IsM5(m) => IsM5(k.last)
  BY DEF SameMessage, IsM5
<1>5. IsM5(m) => NoToken(l, c, a, b) /\ BothAsked(l, c)
  BY <1>1, <1>3, <1>4 DEF Exchange, OneToken, Progress, Late, NoToken, SinkToken, BothAsked
<1>6. IsM4(m) => ~Early(c, a, b)
  BY DEF SameMessage, IsM4, Exchange, Progress, NoM4
<1>7. ~IsOptions(m)
  BY DEF SameMessage, Exchange, Bodies, IsOptions
<1>8. m.req /\ /\ m.cseq <= c.cseq
               /\ m.body \in {"none", "query", "params", "setup"}
               /\ c.wfd = "M4" /\ m.cseq = c.cseq => m.method = "SET_PARAMETER" /\ m.body \in {"params", "none"}
  BY DEF SameMessage, Exchange, Numbers, Bodies, Progress, AwaitsM4, IsM4
<1> QED
  BY <1>2, <1>5, <1>6, <1>7, <1>8 DEF SinkHolds, SameMessage

\* m was a message on its way to the source.
SourceHolds(k, c, a, b, m) ==
    /\ IsMessage(m) /\ m.part = "whole"
    /\ m.req => m.cseq <= k.cseq
    /\ IsOptions(m) => NoToken(k, c, a, b) /\ NoM4(k, c, a)
    /\ IsPlay(m) => NoToken(k, c, a, b) /\ BothAsked(k, c)
    /\ m.req /\ ~IsPlay(m) => \A h \in k.handlers : h[2] = "M7" => h[1] # m.cseq
    /\ ~m.req => /\ m.cseq <= c.cseq
                 /\ c.wfd = "M4" /\ m.cseq = c.cseq => k.creates = 1

\* What the source takes from the head of its queue it holds alone: no message like it is left behind in the exchange.
LEMMA SourceTakes ==
    ASSUME NEW k, NEW c, NEW a, NEW b, Exchange(k, c, a, b), NEW r, Suffix(b, r, 1),
           b[1].part = "whole", NEW m, SameMessage(m, b[1])
    PROVE  Exchange(k, c, a, r) /\ SourceHolds(k, c, a, r, m)
<1>1. 1 \in 1..Len(b) /\ Len(b) \in Nat
  BY DEF Suffix
<1>2. /\ IsOptions(m) => IsOptions(b[1]) /\ HasOptions(b)
      /\ IsPlay(m) <=> IsPlay(b[1])
      /\ IsPlay(m) => HasPlay(b)
  BY <1>1 DEF SameMessage, IsOptions, IsPlay, HasOptions, HasPlay
<1>3. Exchange(k, c, a, r)
  BY ReadBySource
<1>4. IsOptions(m) \/ IsPlay(m) => NoToken(k, c, a, r)
  <2> HAVE IsOptions(m) \/ IsPlay(m)
  <2>1. TokenToSource(b[1])
    BY <1>2 DEF TokenToSource
  <2>2. \A i \in 1..Len(r) : ~TokenToSource(r[i])
    <3> TAKE i \in 1..Len(r)
    <3>1. i + 1 \in 1..Len(b) /\ r[i] = b[i + 1] /\ i + 1 # 1
      BY DEF Suffix
    <3> QED
      BY <1>1, <2>1, <3>1 DEF Exchange, OneToken
  <2>3. ~HasOptions(r) /\ ~HasPlay(r)
    BY <2>2 DEF HasOptions, HasPlay, TokenToSource
  <2> QED
    BY <1>2, <2>3 DEF Exchange, OneToken, NoToken
<1>5. IsOptions(m) => NoM4(k, c, a)
  BY <1>2 DEF Exchange, Progress, Early
<1>6. IsPlay(m) => BothAsked(k, c)
  BY <1>2 DEF Exchange, Progress, Late
<1>7. m.req => m.cseq <= k.cseq
  BY <1>1 DEF SameMessage, Exchange, Numbers
<1>8. m.req /\ ~IsPlay(m) => \A h \in k.handlers : h[2] = "M7" => h[1] # m.cseq
  BY <1>1, <1>2 DEF SameMessage, Exchange, PlayAlone
<1>9. ~m.req => m.cseq <= c.cseq /\ (c.wfd = "M4" /\ m.cseq = c.cseq => k.creates = 1)
  BY <1>1 DEF SameMessage, Exchange, Numbers, Progress, AwaitsM4
<1> QED
  BY <1>3, <1>4, <1>5, <1>6, <1>7, <1>8, <1>9 DEF SourceHolds, SameMessage

\* The source forgets what it kept.
LEMMA SourceForgets ==
    ASSUME NEW k, NEW c, NEW a, NEW b, Exchange(k, c, a, b), NEW m, SourceHolds(k, c, a, b, m),
           NEW d, d = [c EXCEPT !.last = NoMessage]
    PROVE  Exchange(k, d, a, b) /\ SourceHolds(k, d, a, b, m)
<1>1. /\ SourceRec(d) /\ d.last = NoMessage /\ d.wfd = c.wfd /\ d.cseq = c.cseq
      /\ d.creates = c.creates /\ d.told = c.told
  BY DEF Exchange, SourceRec, SourceFields
<1>2. d.cseq \in Nat /\ d.cseq >= c.cseq
  BY <1>1 DEF Exchange, Numbers
<1>3. Exchange(k, d, a, b)
  BY <1>1, <1>2, SourceGivesUp DEF Calmer
<1>4. NoToken(k, c, a, b) => NoToken(k, d, a, b)
  BY <1>1 DEF NoToken, SourceToken
<1> QED
  BY <1>1, <1>3, <1>4 DEF SourceHolds, NoM4, BothAsked

\* The source puts a request together: only an IDR request can have been cut.
LEMMA SourceJoins ==
    ASSUME NEW k, NEW c, NEW a, NEW b, Exchange(k, c, a, b), c.last.req,
           NEW m, SameMessage(m, c.last),
           NEW d, d = [c EXCEPT !.last = NoMessage]
    PROVE  Exchange(k, d, a, b) /\ SourceHolds(k, d, a, b, m)
<1>1. /\ SourceRec(d) /\ d.last = NoMessage /\ d.wfd = c.wfd /\ d.cseq = c.cseq
      /\ d.creates = c.creates /\ d.told = c.told
  BY DEF Exchange, SourceRec, SourceFields
<1>2. d.cseq \in Nat /\ d.cseq >= c.cseq
  BY <1>1 DEF Exchange, Numbers
<1>3. Exchange(k, d, a, b)
  BY <1>1, <1>2, SourceGivesUp DEF Calmer
<1>4. m.req /\ ~IsOptions(m) /\ ~IsPlay(m)
  BY DEF SameMessage, Exchange, Bodies, IsOptions, IsPlay
<1>5. m.cseq <= k.cseq /\ \A h \in k.handlers : h[2] = "M7" => h[1] # m.cseq
  BY DEF SameMessage, Exchange, Numbers, PlayAlone
<1> QED
  BY <1>3, <1>4, <1>5 DEF SourceHolds, SameMessage

-----------------------------------------------------------------------------
(* The messages of the exchange                                            *)

Says(m, req, method, body, n) == /\ IsMessage(m) /\ m.part = "whole"
                                 /\ m.req = req /\ m.method = method /\ m.body = body /\ m.cseq = n

\* What each message that WfdSinkSession composes is: request or response, method, body and CSeq.
LEMMA SinkMessages ==
    ASSUME NEW n \in Nat, NEW id, NEW params
    PROVE  /\ Says(Sink!RtspRequestOptions(n), TRUE, "OPTIONS", "none", n)
           /\ Says(Sink!RtspRequestSetup(n), TRUE, "SETUP", "none", n)
           /\ Says(Sink!WithSession(Sink!RtspRequestPlay(n), id), TRUE, "PLAY", "none", n)
           /\ Says(Sink!WithSession(Sink!RtspRequestTeardown(n), id), TRUE, "TEARDOWN", "none", n)
           /\ Says(Sink!IDRRequest(n, id), TRUE, "SET_PARAMETER", "idr", n)
           /\ Says(Sink!Response(n), FALSE, "OK", "none", n)
           /\ Says(Sink!M3Response(n, params), FALSE, "OK", "caps", n)
BY DEF Says, IsMessage, MessageFields, Sink!RtspRequestOptions, Sink!RtspRequestSetup, Sink!WithSession,
       Sink!RtspRequestPlay, Sink!RtspRequestTeardown, Sink!IDRRequest, Sink!Response, Sink!M3Response,
       Sink!Request, Sink!NoMessage, Sink!RtspRequestParameter, Sink!WithParams

\* What each message that WfdSourceSession composes is.
LEMMA SourceMessages ==
    ASSUME NEW n \in Nat, NEW id, NEW params
    PROVE  /\ Says(Source!M1Request(n), TRUE, "OPTIONS", "none", n)
           /\ Says(Source!M3Request(n), TRUE, "GET_PARAMETER", "query", n)
           /\ Says(Source!M4Request(n, params), TRUE, "SET_PARAMETER", "params", n)
           /\ Says(Source!M5Request(n), TRUE, "SET_PARAMETER", "setup", n)
           /\ Says(Source!M16Request(n, id), TRUE, "GET_PARAMETER", "none", n)
           /\ Says(Source!M2Response(n), FALSE, "OK", "none", n)
           /\ Says(Source!M6Response(n, id), FALSE, "OK", "none", n)
           /\ Says(Source!M7Response(n, id), FALSE, "OK", "none", n)
           /\ Says(Source!WithSession(Source!Response(n), id), FALSE, "OK", "none", n)
BY DEF Says, IsMessage, MessageFields, Source!M1Request, Source!M3Request, Source!M4Request, Source!M5Request,
       Source!M16Request, Source!M2Response, Source!M6Response, Source!M7Response, Source!WithSession, Source!Response,
       Source!RtspRequestOptions, Source!RtspRequestParameter, Source!Request, Source!NoMessage, Source!WithParams

-----------------------------------------------------------------------------
(* What the helpers of the sink leave as it is                             *)

SocketOK(k) == k.socket \in SocketType /\ (k.socket.heard => k.socket.known)

\* Nothing of the exchange changes; the client may go.
Same(k, l) == /\ SinkRec(l)
              /\ l.last = k.last /\ l.handlers = k.handlers
              /\ l.creates = k.creates /\ l.firstCreate = k.firstCreate /\ l.cseq = k.cseq /\ l.wfd = k.wfd
              /\ "PLAYED" \in l.told <=> "PLAYED" \in k.told
              /\ l.client => k.client

\* What a handler never touches: it may close the client when a send fails.
Stays(k, l, up) == /\ SinkRec(l)
                   /\ l.starting = k.starting /\ l.sending = k.sending /\ l.connected = k.connected
                   /\ "STOPED" \in l.told <=> "STOPED" \in k.told
                   /\ \/ l.client = k.client /\ l.socket = k.socket
                      \/ ~up /\ ~l.client /\ l.socket = Closed

\* A step of the sink that leaves the fields of the exchange alone asks for nothing new.
LEMMA SameIsFewer ==
    ASSUME NEW k, NEW l, NEW up, Same(k, l), Stays(k, l, up)
    PROVE  Fewer(k, l)
BY DEF Same, Stays, Fewer

\* Two calls in a row that leave the exchange alone leave it alone together.
LEMMA SameTwice ==
    ASSUME NEW k, NEW l, NEW m, NEW up, Same(k, l), Same(l, m), Stays(k, l, up), Stays(l, m, up)
    PROVE  Same(k, m) /\ Stays(k, m, up)
<1>1. Same(k, m)
  BY DEF Same
<1>2. Stays(k, m, up)
  BY DEF Same, Stays
<1> QED
  BY <1>1, <1>2

\* Two calls in a row that keep the connection and the timer of the sink as they should be do so together.
LEMMA StaysTwice ==
    ASSUME NEW k, NEW l, NEW m, NEW up, Stays(k, l, up), Stays(l, m, up)
    PROVE  Stays(k, m, up)
BY DEF Stays

\* Such a call keeps what the sink knows of its socket.
LEMMA SocketStays ==
    ASSUME NEW k, NEW l, NEW up, Stays(k, l, up), SocketOK(k)
    PROVE  SocketOK(l)
<1>1. Closed \in SocketType /\ ~Closed.heard
  BY DEF Closed, SocketType
<1> QED
  BY <1>1 DEF Stays, SocketOK

\* A socket that is not heard of unless it is known leaves nothing behind.
LEMMA SocketCloses ==
    ASSUME NEW x \in SocketType, x.heard => x.known
    PROVE  /\ Sink!Disconnect(x) = Closed
           /\ Source!TcpServerStop(x) = Closed /\ Source!SessionShutdown(x) = Closed
<1> DEFINE y == Sink!RemoveFdListener(x)
           z == [y EXCEPT !.fd = FALSE]
<1>1. y = Source!RemoveFdListener(x)
  BY DEF Sink!RemoveFdListener, Sink!DelEventHandler, Source!RemoveFdListener, Source!DelEventHandler
<1>2. y \in SocketType /\ y.known = FALSE /\ y.heard = FALSE
  BY DEF Sink!RemoveFdListener, Sink!DelEventHandler, SocketType
<1> HIDE DEF y
<1>3. z \in SocketType /\ z.fd = FALSE /\ z.known = FALSE /\ z.heard = FALSE
  BY <1>2 DEF SocketType
<1>4. Closed \in SocketType /\ Closed.fd = FALSE /\ Closed.known = FALSE /\ Closed.heard = FALSE
  BY DEF Closed, SocketType
<1> HIDE DEF z
<1>5. z = Closed
  BY <1>3, <1>4 DEF SocketType
<1> QED
  BY <1>1, <1>5 DEF y, z, Sink!Disconnect, Source!TcpServerStop, Source!SessionShutdown, Sink!CloseSocket,
                    Source!CloseSocket

\* OnClientClose keeps what is known of the exchange, and closes the socket for good.
LEMMA ClientClosedEffect ==
    ASSUME NEW s, SinkRec(s), SocketOK(s), NEW l, l = Sink!ClientClosed(s)
    PROVE  Same(s, l) /\ Stays(s, l, FALSE) /\ l.out = s.out /\ ~l.client
<1>1. Sink!Disconnect(s.socket) = Closed
  BY SocketCloses DEF SocketOK
<1> DEFINE t == [s EXCEPT !.client = FALSE, !.socket = Closed]
<1>2. l \in {t, Sink!NotifyAgent(t, "INTERRUPTED"), Sink!NotifyAgent(t, "ERROR")}
  BY <1>1 DEF Sink!ClientClosed, Sink!CheckInterrupt, Sink!NotifySessionInterrupted, Sink!NotifyServiceError,
              SinkRec, SinkFields
<1>3. SinkRec(t)
  BY DEF SinkRec, SinkFields
<1> HIDE DEF t
<1>4. ASSUME NEW what \in {"INTERRUPTED", "ERROR"}, l = Sink!NotifyAgent(t, what)
      PROVE  Same(t, l) /\ Stays(t, l, FALSE) /\ l.out = t.out /\ l.client = t.client
  BY <1>3, <1>4 DEF Sink!NotifyAgent, SinkRec, SinkFields, Same, Stays
<1>5. Same(s, t) /\ Stays(s, t, FALSE) /\ t.out = s.out /\ ~t.client
  BY <1>3 DEF t, SinkRec, SinkFields, Same, Stays
<1> QED
  BY <1>2, <1>4, <1>5, SameTwice

\* NotifyAgentSessionEvent changes what the agent was told, nothing else of the session.
LEMMA NotifyEffect ==
    ASSUME NEW s, SinkRec(s), NEW what, what \notin {"PLAYED", "STOPED"}, NEW up, NEW l, l = Sink!NotifyAgent(s, what)
    PROVE  Same(s, l) /\ Stays(s, l, up) /\ l.out = s.out /\ l.client = s.client
BY DEF Sink!NotifyAgent, SinkRec, SinkFields, Same, Stays

\* CheckInterrupt, run at the end of each handler, leaves the exchange as it is.
LEMMA CheckInterruptEffect ==
    ASSUME NEW s, SinkRec(s), NEW up, NEW l, l = Sink!CheckInterrupt(s)
    PROVE  Same(s, l) /\ Stays(s, l, up) /\ l.out = s.out /\ l.client = s.client
<1>1. l = s \/ l = Sink!NotifyAgent(s, "INTERRUPTED")
  BY DEF Sink!CheckInterrupt, Sink!NotifySessionInterrupted
<1>2. Same(s, s) /\ Stays(s, s, up)
  BY DEF Same, Stays
<1> QED
  BY <1>1, <1>2, NotifyEffect

\* Arming or stopping the timer of the sink leaves the exchange as it is.
LEMMA TimerEffect ==
    ASSUME NEW s, SinkRec(s), NEW what, NEW up, NEW l, l = Sink!StartTimer(s, what) \/ l = Sink!StopTimer(s)
    PROVE  Same(s, l) /\ Stays(s, l, up) /\ l.out = s.out /\ l.client = s.client
BY DEF Sink!StartTimer, Sink!StopTimer, SinkRec, SinkFields, Same, Stays

\* Sending from the sink adds the message to what it sends, or, on an ended connection, nothing.
LEMMA SendEffect ==
    ASSUME NEW s, SinkRec(s), SocketOK(s), NEW m, NEW up \in BOOLEAN, NEW l, l = Sink!Send(s, m, up)
    PROVE  /\ Same(s, l) /\ Stays(s, l, up)
           /\ l.out = s.out \/ l.out = Append(s.out, m)
<1>1. CASE up
  BY <1>1 DEF Sink!Send, SinkRec, SinkFields, Same, Stays
<1>2. CASE ~up
  <2>1. l = Sink!ClientClosed(s)
    BY <1>2 DEF Sink!Send
  <2>2. Same(s, l) /\ Stays(s, l, FALSE) /\ l.out = s.out /\ ~l.client
    BY <2>1, ClientClosedEffect
  <2>3. Stays(s, l, up)
    BY <1>2, <2>2 DEF Stays
  <2> QED
    BY <2>2, <2>3
<1> QED
  BY <1>1, <1>2

\* A response goes out, or the client goes.
LEMMA CommonResponseEffect ==
    ASSUME NEW s, SinkRec(s), SocketOK(s), NEW n, NEW up \in BOOLEAN,
           NEW l, l = Sink!SendCommonResponse(s, n, up)
    PROVE  /\ Same(s, l) /\ Stays(s, l, up)
           /\ l.out = s.out \/ l.out = Append(s.out, Sink!Response(n))
<1>1. l = s \/ l = Sink!Send(s, Sink!Response(n), up)
  BY DEF Sink!SendCommonResponse
<1>2. Same(s, s) /\ Stays(s, s, up)
  BY DEF Same, Stays
<1>3. ASSUME l = Sink!Send(s, Sink!Response(n), up)
      PROVE  Same(s, l) /\ Stays(s, l, up) /\ (l.out = s.out \/ l.out = Append(s.out, Sink!Response(n)))
  <2> DEFINE m == Sink!Response(n)
  <2>1. l = Sink!Send(s, m, up)
    BY <1>3
  <2> HIDE DEF m
  <2>2. Same(s, l) /\ Stays(s, l, up) /\ (l.out = s.out \/ l.out = Append(s.out, m))
    BY <2>1, SendEffect
  <2> QED
    BY <2>2 DEF m
<1> QED
  BY <1>1, <1>2, <1>3

\* A request whose response is awaited takes a new number.
Awaiting(s, l, n, what) ==
    /\ SinkRec(l)
    /\ l.cseq = n /\ l.handlers \subseteq s.handlers \cup {<<n, what>>}
    /\ l.last = s.last /\ l.creates = s.creates /\ l.firstCreate = s.firstCreate /\ l.wfd = s.wfd
    /\ "PLAYED" \in l.told <=> "PLAYED" \in s.told

\* A timed request either goes out with its timer armed and its CSeq awaited, or the session is as before.
LEMMA TimedEffect ==
    ASSUME NEW s, SinkRec(s), SocketOK(s), NEW m, NEW what, NEW up \in BOOLEAN,
           NEW l, l = Sink!SendTimedRequest(s, m, what, up)
    PROVE  /\ Stays(s, l, up)
           /\ l = s \/ (Awaiting(s, l, m.cseq, what) /\ (l.out = s.out \/ l.out = Append(s.out, m)))
<1> DEFINE q == Sink!SetHandler([s EXCEPT !.cseq = m.cseq], m.cseq, what)
           t == Sink!StartTimer(q, what)
           u == Sink!Send(t, m, up)
           v == Sink!EraseHandler(u, m.cseq)
           w == Sink!StopTimer(v)
<1>1. l \in {s, u, Sink!NotifyServiceError(w)}
  BY DEF Sink!SendTimedRequest
<1>2. SinkRec(q) /\ Stays(s, q, up) /\ Awaiting(s, q, m.cseq, what) /\ q.out = s.out /\ q.socket = s.socket
  BY DEF Sink!SetHandler, SinkRec, SinkFields, Stays, Awaiting
<1> HIDE DEF q
<1>3. Same(q, t) /\ Stays(q, t, up) /\ t.out = q.out /\ SinkRec(t)
  BY <1>2, TimerEffect DEF Same
<1>4. SocketOK(q) /\ SocketOK(t)
  BY <1>2, <1>3, SocketStays
<1> HIDE DEF t
<1>5. Same(t, u) /\ Stays(t, u, up) /\ (u.out = t.out \/ u.out = Append(t.out, m))
  BY <1>3, <1>4, SendEffect
<1> HIDE DEF u
<1>6. Stays(s, u, up) /\ Same(q, u)
  BY <1>2, <1>3, <1>4, <1>5, StaysTwice, SameTwice
<1>7. Awaiting(s, u, m.cseq, what) /\ (u.out = s.out \/ u.out = Append(s.out, m))
  BY <1>2, <1>3, <1>5, <1>6 DEF Awaiting, Same
<1>8. SinkRec(v) /\ Stays(u, v, up) /\ Awaiting(s, v, m.cseq, what) /\ v.out = u.out
  BY <1>6, <1>7 DEF Sink!EraseHandler, SinkRec, SinkFields, Stays, Awaiting
<1> HIDE DEF v
<1>9. Same(v, w) /\ Stays(v, w, up) /\ w.out = v.out /\ SinkRec(w)
  BY <1>8, TimerEffect DEF Same
<1> HIDE DEF w
<1>10. ASSUME l = Sink!NotifyServiceError(w)
       PROVE  Stays(s, l, up) /\ Awaiting(s, l, m.cseq, what) /\ l.out = u.out
  <2>1. Same(w, l) /\ Stays(w, l, up) /\ l.out = w.out
    BY <1>9, <1>10, NotifyEffect DEF Sink!NotifyServiceError
  <2>2. Same(v, l) /\ Stays(v, l, up)
    BY <1>9, <2>1, SameTwice
  <2>3. Stays(s, l, up)
    BY <1>4, <1>6, <1>8, <2>2, StaysTwice
  <2> QED
    BY <1>8, <1>9, <2>1, <2>2, <2>3 DEF Awaiting, Same
<1>11. Stays(s, s, up)
  BY DEF Stays
<1> QED
  BY <1>1, <1>6, <1>7, <1>10, <1>11

-----------------------------------------------------------------------------
(* The handlers of the sink.  What it has sent so far stands behind t.     *)

SinkAt(k, c, a, t) == Queue(t) /\ Queue(k.out) /\ Exchange(k, c, a, t \o k.out)
NoTokenAt(k, c, a, t) == NoToken(k, c, a, t \o k.out)

\* With no step of the negotiation on its way, a sink that asks for nothing new leaves it so.
LEMMA FewerTokens ==
    ASSUME NEW k, NEW l, Fewer(k, l), NEW c, NEW a, NEW b, NoToken(k, c, a, b)
    PROVE  NoToken(l, c, a, b)
<1>1. IsM5(l.last) => IsM5(k.last)
  BY NoMessageIs DEF Fewer, IsM5
<1> QED
  BY <1>1 DEF Fewer, NoToken, SinkToken

\* A call that sends nothing and asks for nothing new keeps the exchange of a sink in the middle of a handler.
LEMMA SinkChanges ==
    ASSUME NEW k, NEW c, NEW a, NEW t, SinkAt(k, c, a, t), NEW l, Fewer(k, l), l.out = k.out
    PROVE  SinkAt(l, c, a, t) /\ (NoTokenAt(k, c, a, t) => NoTokenAt(l, c, a, t))
BY SinkGivesUp, FewerTokens DEF SinkAt, NoTokenAt

\* A response goes out or not.
LEMMA SinkReplies ==
    ASSUME NEW k, NEW c, NEW a, NEW t, SinkAt(k, c, a, t), NEW l, Fewer(k, l),
           NEW m, Says(m, FALSE, m.method, m.body, m.cseq), m.cseq <= c.cseq,
           c.wfd = "M4" /\ m.cseq = c.cseq => k.creates = 1,
           l.out = k.out \/ l.out = Append(k.out, m)
    PROVE  SinkAt(l, c, a, t) /\ (NoTokenAt(k, c, a, t) => NoTokenAt(l, c, a, t))
<1>1. CASE l.out = k.out
  BY <1>1, SinkChanges
<1>2. CASE l.out = Append(k.out, m)
  <2>1. m.part \in Parts /\ IsMessage(m) /\ ~m.req
    BY DEF Says, Parts
  <2>2. Queue(l.out) /\ Appended(t \o k.out, m, t \o l.out)
    BY <1>2, <2>1, SentBehind DEF SinkAt
  <2>3. Exchange(l, c, a, t \o k.out)
    BY SinkGivesUp DEF SinkAt
  <2>4. c.wfd = "M4" /\ m.cseq = c.cseq => l.creates = 1
    BY DEF Fewer
  <2>5. Exchange(l, c, a, t \o l.out)
    BY <2>1, <2>2, <2>3, <2>4, SinkAnswers DEF Says
  <2>6. ~IsOptions(m) /\ ~IsPlay(m)
    BY <2>1 DEF IsOptions, IsPlay
  <2>7. NoTokenAt(k, c, a, t) => NoTokenAt(l, c, a, t)
    BY <2>2, <2>6, FewerTokens, AppendedEffect DEF NoTokenAt, NoToken
  <2> QED
    BY <2>2, <2>5, <2>7 DEF SinkAt
<1> QED
  BY <1>1, <1>2

\* A response that carries no step of the negotiation leaves none on its way.
LEMMA StillNoToken ==
    ASSUME NEW k, NEW c, NEW a, NEW t, SinkAt(k, c, a, t), NEW l, Fewer(k, l), NoTokenAt(k, c, a, t),
           NEW m, Says(m, FALSE, m.method, m.body, m.cseq), m.cseq <= c.cseq,
           c.wfd = "M4" /\ m.cseq = c.cseq => k.creates = 1,
           l.out = k.out \/ l.out = Append(k.out, m)
    PROVE  NoTokenAt(l, c, a, t)
BY SinkReplies

\* A request whose response is awaited goes out or not.
LEMMA SinkRequests ==
    ASSUME NEW k, NEW c, NEW a, NEW t, SinkAt(k, c, a, t), ~BeforeM1(c, a),
           NEW what \in {"M2", "M6", "M7"}, NoTokenAt(k, c, a, t), what # "M2" => BothAsked(k, c),
           NEW m, Says(m, TRUE, m.method, "none", k.cseq + 1),
           IsOptions(m) => what = "M2" /\ NoM4(k, c, a), IsPlay(m) <=> what = "M7",
           NEW l, Awaiting(k, l, k.cseq + 1, what), l.sending = k.sending,
           l.out = k.out \/ l.out = Append(k.out, m)
    PROVE  SinkAt(l, c, a, t)
<1>1. Exchange(l, c, a, t \o k.out)
  BY SinkAwaits DEF SinkAt, NoTokenAt, Awaiting
<1>2. CASE l.out = k.out
  BY <1>1, <1>2 DEF SinkAt
<1>3. CASE l.out = Append(k.out, m)
  <2>1. m.part \in Parts /\ IsMessage(m) /\ m.req /\ m.cseq = l.cseq /\ m.body = "none" /\ m.cseq = k.cseq + 1
    BY DEF Says, Parts, Awaiting
  <2>2. Queue(l.out) /\ Appended(t \o k.out, m, t \o l.out)
    BY <1>3, <2>1, SentBehind DEF SinkAt
  <2>3. what # "M6" => NoToken(l, c, a, t \o k.out)
    <3>1. what # "M6" => \A h \in l.handlers : h[2] = "M6" => h \in k.handlers
      BY DEF Awaiting
    <3> QED
      BY <3>1 DEF NoTokenAt, NoToken, SinkToken, Awaiting
  <2>4. TokenToSource(m) => what # "M6"
    BY DEF TokenToSource
  <2>5. \A h \in l.handlers : h[2] = "M7" /\ h[1] = m.cseq => IsPlay(m)
    <3> SUFFICES ASSUME NEW h \in l.handlers, h[2] = "M7", h[1] = m.cseq
                 PROVE  what = "M7"
      OBVIOUS
    <3>1. CASE h \in k.handlers
      <4>1. h[1] \in Nat /\ h[1] <= k.cseq /\ k.cseq \in Nat
        BY <3>1 DEF SinkAt, Exchange, Numbers
      <4> QED
        BY <2>1, <4>1
    <3>2. CASE h = <<k.cseq + 1, what>>
      BY <3>2
    <3> QED
      BY <3>1, <3>2 DEF Awaiting
  <2>6. k.cseq \in Nat /\ m.cseq <= l.cseq
    BY <2>1 DEF SinkAt, Exchange, Numbers
  <2>7. (NoM4(k, c, a) => NoM4(l, c, a)) /\ (BothAsked(k, c) => BothAsked(l, c))
    BY DEF Awaiting, NoM4, BothAsked
  <2>8. /\ TokenToSource(m) => NoToken(l, c, a, t \o k.out)
        /\ IsOptions(m) => NoM4(l, c, a)
        /\ IsPlay(m) => BothAsked(l, c)
    BY <2>3, <2>4, <2>7
  <2>9. Exchange(l, c, a, t \o l.out)
    BY <1>1, <2>1, <2>2, <2>5, <2>6, <2>8, SinkAsks DEF Says
  <2> QED
    BY <2>2, <2>9 DEF SinkAt
<1> QED
  BY <1>2, <1>3

\* What a handler tells the agent: that it plays, or that it wants a consumer, and each in its time.
Plays(k) == "PLAYED" \in k.told
Unheard(k, l) == l.creates = k.creates /\ (Plays(l) <=> Plays(k))
Wanted(k, l) == k.creates = 0 /\ l.creates = 1 /\ (Plays(l) <=> Plays(k))
Playing(k, l, c) == k.creates = 1 /\ l.creates = 1 /\ Plays(l) /\ "PLAYED" \in c.told

\* The response to M1 and the M2 request of the same handler keep the exchange and tell the agent nothing.
LEMMA HandleM1 ==
    ASSUME NEW k, NEW c, NEW a, NEW t, SinkAt(k, c, a, t), SocketOK(k), NEW m, IsOptions(m),
           SinkHolds(k, c, a, t \o k.out, m), NEW up \in BOOLEAN, NEW l, l = Sink!HandleM1Request(k, m, up)
    PROVE  SinkAt(l, c, a, t) /\ Stays(k, l, up) /\ Unheard(k, l)
<1> DEFINE s == Sink!StopTimer(k)
           x == [s EXCEPT !.firstCast = TRUE, !.firstCreate = TRUE]
           y == Sink!Send(x, Sink!Response(m.cseq), up)
           u == IF x.client THEN [y EXCEPT !.cseq = m.cseq] ELSE x
           n == u.cseq + 1
           q == Sink!RtspRequestOptions(n)
<1>0. /\ SinkRec(k) /\ k.cseq \in Nat /\ m.cseq \in Nat /\ m.cseq >= k.cseq /\ m.cseq <= c.cseq
      /\ NoM4(k, c, a) /\ NoTokenAt(k, c, a, t) /\ ~BeforeM1(c, a) /\ k.firstCreate = TRUE /\ c.wfd # "M4"
  <2>1. m.cseq \in Nat /\ m.req
    BY DEF SinkHolds, IsMessage, IsOptions
  <2>2. NoM4(k, c, a) /\ NoTokenAt(k, c, a, t) /\ ~BeforeM1(c, a)
    BY DEF SinkHolds, NoTokenAt
  <2>3. k.cseq \in Nat /\ m.cseq >= k.cseq /\ m.cseq <= c.cseq
    BY <2>1 DEF SinkHolds, OnlyTeardown
  <2>4. k.firstCreate /\ SinkRec(k)
    BY <2>2 DEF SinkAt, Exchange, Progress, NoM4
  <2>5. c.wfd # "M4"
    BY <2>2 DEF NoTokenAt, NoToken, SourceToken
  <2> QED
    BY <2>1, <2>2, <2>3, <2>4, <2>5
<1>1. l = Sink!SendTimedRequest(u, q, "M2", up)
  BY DEF Sink!HandleM1Request, Sink!SendM2Request
<1>2. Same(k, s) /\ Stays(k, s, up) /\ s.out = k.out /\ SinkRec(s)
  BY <1>0, TimerEffect DEF Same
<1> HIDE DEF s
<1>3. Same(k, x) /\ Stays(k, x, up) /\ x.out = k.out /\ SinkRec(x)
  BY <1>0, <1>2 DEF Same, Stays, SinkRec, SinkFields
<1>4. SocketOK(x)
  BY <1>3, SocketStays
<1> HIDE DEF x
<1> DEFINE p == Sink!Response(m.cseq)
<1>5. Says(p, FALSE, "OK", "none", m.cseq)
  BY <1>0, SinkMessages
<1>6. y = Sink!Send(x, p, up)
  OBVIOUS
<1> HIDE DEF p, y
<1>7. Same(x, y) /\ Stays(x, y, up) /\ (y.out = x.out \/ y.out = Append(x.out, p)) /\ SinkRec(y)
  BY <1>3, <1>4, <1>6, SendEffect DEF Same
<1>8. Same(k, y) /\ Stays(k, y, up) /\ (y.out = k.out \/ y.out = Append(k.out, p)) /\ Fewer(k, y) /\ Fewer(k, x)
  BY <1>3, <1>7, SameTwice, SameIsFewer
<1>9. SinkAt(x, c, a, t) /\ NoTokenAt(x, c, a, t)
  BY <1>0, <1>3, <1>8, SinkChanges
<1>10. SinkAt(y, c, a, t) /\ NoTokenAt(y, c, a, t)
  <2>1. Says(p, FALSE, p.method, p.body, p.cseq) /\ p.cseq = m.cseq
    BY <1>5 DEF Says
  <2> QED
    BY <1>0, <1>8, <2>1, SinkReplies
<1>11. SinkAt(u, c, a, t) /\ NoTokenAt(u, c, a, t) /\ Stays(k, u, up) /\ Unheard(k, u) /\ SinkRec(u)
       /\ NoM4(u, c, a) /\ u.cseq \in Nat
  <2>1. CASE ~x.client
    BY <1>0, <1>3, <1>9, <2>1 DEF Same, Unheard, Plays, NoM4
  <2>2. CASE x.client
    <3> DEFINE z == [y EXCEPT !.cseq = m.cseq]
    <3>1. u = z
      BY <2>2
    <3>2. /\ SinkRec(z) /\ z.cseq = m.cseq /\ z.out = y.out /\ z.creates = y.creates
          /\ z.firstCreate = y.firstCreate /\ z.last = y.last /\ z.handlers = y.handlers /\ z.sending = y.sending
          /\ z.wfd = y.wfd /\ z.told = y.told /\ Stays(y, z, up)
      BY <1>7 DEF SinkRec, SinkFields, Stays
    <3> HIDE DEF z
    <3>3. z.cseq >= y.cseq /\ z.cseq \in Nat
      BY <1>0, <1>8, <3>2 DEF Same
    <3>4. Exchange(z, c, a, t \o y.out)
      BY <1>0, <1>10, <3>2, <3>3, NumberRaised DEF SinkAt
    <3>5. SinkAt(z, c, a, t) /\ NoTokenAt(z, c, a, t)
      BY <1>10, <3>2, <3>4 DEF SinkAt, NoTokenAt, NoToken, SinkToken
    <3>6. Stays(k, z, up) /\ Unheard(k, z) /\ NoM4(z, c, a)
      <4>1. Stays(k, z, up)
        BY <1>8, <3>2, StaysTwice
      <4> QED
        BY <1>0, <1>8, <3>2, <4>1 DEF Same, Unheard, Plays, NoM4
    <3> QED
      BY <3>1, <3>2, <3>3, <3>5, <3>6
  <2> QED
    BY <2>1, <2>2
<1> HIDE DEF u
<1>12. SocketOK(u) /\ n \in Nat
  BY <1>11, SocketStays
<1>13. Says(q, TRUE, "OPTIONS", "none", n)
  BY <1>12, SinkMessages
<1> HIDE DEF q
<1>14. Stays(u, l, up) /\ (l = u \/ (Awaiting(u, l, n, "M2") /\ (l.out = u.out \/ l.out = Append(u.out, q))))
  BY <1>1, <1>11, <1>12, <1>13, TimedEffect DEF Says
<1>15. SinkAt(l, c, a, t) /\ Unheard(u, l)
  <2>1. CASE l = u
    BY <1>11, <2>1 DEF Unheard
  <2>2. CASE Awaiting(u, l, n, "M2") /\ (l.out = u.out \/ l.out = Append(u.out, q))
    <3>1. l.sending = u.sending
      BY <1>14 DEF Stays
    <3>2. ~IsPlay(q) /\ Says(q, TRUE, q.method, "none", u.cseq + 1)
      BY <1>13 DEF IsPlay, Says
    <3>3. SinkAt(l, c, a, t)
      BY <1>0, <1>11, <2>2, <3>1, <3>2, SinkRequests
    <3> QED
      BY <2>2, <3>3 DEF Awaiting, Unheard, Plays
  <2> QED
    BY <1>14, <2>1, <2>2
<1>16. Stays(k, l, up)
  BY <1>11, <1>14, StaysTwice
<1> QED
  BY <1>11, <1>15, <1>16 DEF Unheard

\* A message in the hand of the sink is a request of the source.
LEMMA SinkHoldsRequest ==
    ASSUME NEW k, NEW c, NEW a, NEW b, NEW m, SinkHolds(k, c, a, b, m), m.req
    PROVE  m.cseq \in Nat /\ m.cseq <= c.cseq
BY DEF SinkHolds, IsMessage

\* The response to M3, whatever the capabilities in it, keeps the exchange and tells the agent nothing.
LEMMA HandleM3 ==
    ASSUME NEW k, NEW c, NEW a, NEW t, SinkAt(k, c, a, t), SocketOK(k), NEW m, m.req, m.method = "GET_PARAMETER",
           SinkHolds(k, c, a, t \o k.out, m), NEW up \in BOOLEAN, NEW l, l = Sink!SendM3Response(k, m, up)
    PROVE  SinkAt(l, c, a, t) /\ Stays(k, l, up) /\ Unheard(k, l)
<1> DEFINE s == Sink!StopTimer(k)
           x == Sink!StartTimer(s, "M4")
           q == Sink!M3Response(m.cseq, Sink!M3Params(k.config))
           y == Sink!Send(x, q, up)
           z == Sink!StopTimer(y)
           w == Sink!NotifyServiceError(z)
<1>1. l \in {s, y, w}
  BY DEF Sink!SendM3Response
<1>2. m.cseq \in Nat /\ m.cseq <= c.cseq /\ SinkRec(k) /\ ~(c.wfd = "M4" /\ m.cseq = c.cseq)
  BY SinkHoldsRequest DEF SinkAt, Exchange, SinkHolds
<1>2a. Says(q, FALSE, "OK", "caps", m.cseq)
  BY <1>2, SinkMessages
<1> HIDE DEF q
<1>3. Says(q, FALSE, q.method, q.body, q.cseq) /\ q.cseq = m.cseq
  BY <1>2a DEF Says
<1>4. Same(k, s) /\ Stays(k, s, up) /\ s.out = k.out /\ SinkRec(s)
  BY <1>2, TimerEffect DEF Same
<1> HIDE DEF s
<1>5. Same(s, x) /\ Stays(s, x, up) /\ x.out = s.out /\ SinkRec(x)
  BY <1>4, TimerEffect DEF Same
<1> HIDE DEF x
<1>6. Same(k, x) /\ Stays(k, x, up) /\ x.out = k.out /\ SocketOK(x)
  BY <1>4, <1>5, SameTwice, SocketStays
<1>7. Same(x, y) /\ Stays(x, y, up) /\ (y.out = x.out \/ y.out = Append(x.out, q)) /\ SinkRec(y)
  BY <1>5, <1>6, SendEffect DEF Same
<1> HIDE DEF y
<1>8. Same(k, y) /\ Stays(k, y, up) /\ (y.out = k.out \/ y.out = Append(k.out, q))
  BY <1>6, <1>7, SameTwice
<1>9. Same(y, z) /\ Stays(y, z, up) /\ z.out = y.out /\ SinkRec(z)
  BY <1>7, TimerEffect DEF Same
<1> HIDE DEF z
<1>10. Same(z, w) /\ Stays(z, w, up) /\ w.out = z.out
  BY <1>9, NotifyEffect DEF Sink!NotifyServiceError
<1> HIDE DEF w
<1>11. Same(k, w) /\ Stays(k, w, up) /\ w.out = y.out
  <2>1. Same(k, z) /\ Stays(k, z, up)
    BY <1>8, <1>9, SameTwice
  <2> QED
    BY <1>9, <1>10, <2>1, SameTwice
<1>12. Same(k, l) /\ Stays(k, l, up) /\ (l.out = k.out \/ l.out = Append(k.out, q))
  BY <1>1, <1>4, <1>8, <1>11
<1>13. Fewer(k, l)
  BY <1>12, SameIsFewer
<1>14. SinkAt(l, c, a, t)
  BY <1>2, <1>3, <1>12, <1>13, SinkReplies
<1> QED
  BY <1>12, <1>14 DEF Same, Unheard, Plays

\* A response with the number of the request, when M4 is not what is answered.
LEMMA SinkAnswersRequest ==
    ASSUME NEW k, NEW c, NEW a, NEW t, SinkAt(k, c, a, t), SocketOK(k), NEW m, m.req, NEW b,
           SinkHolds(k, c, a, b, m), c.wfd = "M4" /\ m.cseq = c.cseq => k.creates = 1,
           NEW up \in BOOLEAN, NEW l, l = Sink!SendCommonResponse(k, m.cseq, up)
    PROVE  /\ SinkAt(l, c, a, t) /\ (NoTokenAt(k, c, a, t) => NoTokenAt(l, c, a, t))
           /\ Same(k, l) /\ Stays(k, l, up) /\ Unheard(k, l)
<1>1. m.cseq \in Nat /\ m.cseq <= c.cseq /\ SinkRec(k)
  BY SinkHoldsRequest DEF SinkAt, Exchange
<1> DEFINE q == Sink!Response(m.cseq)
<1>2a. Says(q, FALSE, "OK", "none", m.cseq)
  BY <1>1, SinkMessages
<1>3. Same(k, l) /\ Stays(k, l, up) /\ (l.out = k.out \/ l.out = Append(k.out, q))
  BY <1>1, CommonResponseEffect
<1> HIDE DEF q
<1>2. Says(q, FALSE, q.method, q.body, q.cseq) /\ q.cseq = m.cseq
  BY <1>2a DEF Says
<1>4. Fewer(k, l)
  BY <1>3, SameIsFewer
<1>5. SinkAt(l, c, a, t) /\ (NoTokenAt(k, c, a, t) => NoTokenAt(l, c, a, t))
  <2>1. q.cseq <= c.cseq /\ (c.wfd = "M4" /\ q.cseq = c.cseq => k.creates = 1)
    BY <1>1, <1>2
  <2>2. l.out = k.out \/ l.out = Append(k.out, q)
    BY <1>3
  <2>3. SinkAt(l, c, a, t)
    BY <1>2, <1>4, <2>1, <2>2, SinkReplies
  <2>4. ASSUME NoTokenAt(k, c, a, t) PROVE NoTokenAt(l, c, a, t)
    BY <1>2, <1>4, <2>1, <2>2, <2>4, StillNoToken
  <2> QED
    BY <2>3, <2>4
<1> QED
  BY <1>3, <1>5 DEF Same, Unheard, Plays

\* The response to the keep-alive M16 keeps the exchange and tells the agent nothing.
LEMMA HandleM16 ==
    ASSUME NEW k, NEW c, NEW a, NEW t, SinkAt(k, c, a, t), SocketOK(k), NEW m, m.req, m.method = "GET_PARAMETER",
           SinkHolds(k, c, a, t \o k.out, m), NEW up \in BOOLEAN, NEW l, l = Sink!HandleM16Request(k, m, up)
    PROVE  SinkAt(l, c, a, t) /\ Stays(k, l, up) /\ Unheard(k, l)
<1> DEFINE s == Sink!SendCommonResponse(k, m.cseq, up)
<1>1. ~(c.wfd = "M4" /\ m.cseq = c.cseq) /\ SinkRec(k)
  BY DEF SinkAt, Exchange, SinkHolds
<1>2. SinkAt(s, c, a, t) /\ Same(k, s) /\ Stays(k, s, up) /\ Unheard(k, s)
  BY <1>1, SinkAnswersRequest
<1>3. l = k \/ l = [s EXCEPT !.keepAlive = "on"]
  BY DEF Sink!HandleM16Request
<1> HIDE DEF s
<1>4. ASSUME l = [s EXCEPT !.keepAlive = "on"]
      PROVE  SinkAt(l, c, a, t) /\ Stays(k, l, up) /\ Unheard(k, l)
  <2>1. Same(s, l) /\ Stays(s, l, up) /\ l.out = s.out
    BY <1>2, <1>4 DEF Same, Stays, SinkRec, SinkFields
  <2>2. SinkAt(l, c, a, t)
    BY <1>2, <2>1, SameIsFewer, SinkChanges
  <2>3. Stays(k, l, up)
    BY <1>2, <2>1, StaysTwice
  <2> QED
    BY ONLY <1>2, <2>1, <2>2, <2>3 DEF Same, Unheard, Plays
<1>5. Stays(k, k, up) /\ Unheard(k, k)
  BY <1>1 DEF Stays, Unheard
<1> QED
  BY <1>3, <1>4, <1>5

\* M4: the consumer is asked for by the time the response goes out, and only the first time.
LEMMA HandleM4 ==
    ASSUME NEW k, NEW c, NEW a, NEW t, SinkAt(k, c, a, t), SocketOK(k), NEW m, IsM4(m),
           SinkHolds(k, c, a, t \o k.out, m), NEW up \in BOOLEAN, NEW l, l = Sink!HandleM4Request(k, m, up)
    PROVE  SinkAt(l, c, a, t) /\ Stays(k, l, up) /\ (Unheard(k, l) \/ Wanted(k, l))
<1> DEFINE s == [k EXCEPT !.track = Sink!Tracks(m.params, @)]
           s1 == Sink!StopTimer(s)
           s2 == Sink!StartTimer(s1, "M5")
           x == IF s.firstCast THEN s2 ELSE s1
           failed == Sink!SendCommonResponse(x, m.cseq, up)
           u == [failed EXCEPT !.firstCast = FALSE]
           v == [u EXCEPT !.firstCreate = FALSE, !.creates = @ + 1]
           f1 == Sink!StopTimer(failed)
           f2 == Sink!NotifyServiceError(f1)
<1>0. SinkRec(k) /\ m.req /\ ~Early(c, a, t \o k.out) /\ m.cseq \in Nat /\ m.cseq <= c.cseq
  BY SinkHoldsRequest DEF SinkAt, Exchange, SinkHolds, IsM4
<1>1. l = IF ~Sink!ResponseSent(s, up) THEN f2 ELSE IF u.firstCreate THEN v ELSE u
  BY DEF Sink!HandleM4Request
<1>2. Same(k, s) /\ Stays(k, s, up) /\ s.out = k.out /\ s.client = k.client /\ SinkRec(s)
  BY <1>0 DEF Same, Stays, SinkRec, SinkFields
<1> HIDE DEF s
<1>3. Same(s, s1) /\ Stays(s, s1, up) /\ s1.out = s.out /\ s1.client = s.client /\ SinkRec(s1)
  BY <1>2, TimerEffect DEF Same
<1> HIDE DEF s1
<1>4. Same(s1, s2) /\ Stays(s1, s2, up) /\ s2.out = s1.out /\ s2.client = s1.client /\ SinkRec(s2)
  BY <1>3, TimerEffect DEF Same
<1> HIDE DEF s2
<1>5. Same(k, x) /\ Stays(k, x, up) /\ x.out = k.out /\ x.client = k.client /\ SinkRec(x)
  <2>1. Same(k, s1) /\ Stays(k, s1, up)
    BY <1>2, <1>3, SameTwice
  <2>2. Same(k, s2) /\ Stays(k, s2, up)
    BY <1>4, <2>1, SameTwice
  <2> QED
    BY <1>2, <1>3, <1>4, <2>1, <2>2
<1> HIDE DEF x
<1>6. SocketOK(x) /\ SinkAt(x, c, a, t)
  BY <1>5, SocketStays, SameIsFewer, SinkChanges
<1> DEFINE q == Sink!Response(m.cseq)
<1>7. /\ Says(q, FALSE, q.method, q.body, q.cseq) /\ q.cseq = m.cseq
      /\ Same(x, failed) /\ Stays(x, failed, up) /\ (failed.out = x.out \/ failed.out = Append(x.out, q))
  <2>0. Says(q, FALSE, "OK", "none", m.cseq)
    BY <1>0, SinkMessages
  <2>2. Same(x, failed) /\ Stays(x, failed, up) /\ (failed.out = x.out \/ failed.out = Append(x.out, q))
    BY <1>5, <1>6, CommonResponseEffect
  <2> HIDE DEF q
  <2>1. Says(q, FALSE, q.method, q.body, q.cseq) /\ q.cseq = m.cseq
    BY <2>0 DEF Says
  <2> QED
    BY <2>1, <2>2
<1>8. ~Sink!ResponseSent(s, up) => failed.out = x.out
  <2>1. ~Sink!ResponseSent(s, up) => failed = x \/ (~up /\ failed = Sink!Send(x, q, up))
    BY <1>2, <1>5 DEF Sink!ResponseSent, Sink!SendCommonResponse
  <2>2. ~up /\ failed = Sink!Send(x, q, up) => failed = Sink!ClientClosed(x)
    BY DEF Sink!Send
  <2>3. failed = Sink!ClientClosed(x) => failed.out = x.out
    BY <1>5, <1>6, ClientClosedEffect
  <2> QED
    BY <2>1, <2>2, <2>3
<1> HIDE DEF failed, q
<1>9. Same(k, failed) /\ Stays(k, failed, up) /\ SinkRec(failed) /\ SocketOK(failed)
  BY <1>5, <1>6, <1>7, SameTwice, SocketStays DEF Same
<1>10. CASE ~Sink!ResponseSent(s, up)
  <2>1. Same(failed, f1) /\ Stays(failed, f1, up) /\ f1.out = failed.out /\ SinkRec(f1)
    BY <1>9, TimerEffect DEF Same
  <2> HIDE DEF f1
  <2>2. Same(f1, f2) /\ Stays(f1, f2, up) /\ f2.out = f1.out
    BY <2>1, NotifyEffect DEF Sink!NotifyServiceError
  <2> HIDE DEF f2
  <2>3. Same(k, f1) /\ Stays(k, f1, up)
    BY <1>9, <2>1, SameTwice
  <2>4. Same(k, f2) /\ Stays(k, f2, up)
    BY <2>2, <2>3, SameTwice
  <2>5. l = f2 /\ f2.out = k.out
    BY <1>1, <1>5, <1>8, <1>10, <2>1, <2>2
  <2>6. SinkAt(l, c, a, t)
    BY <2>4, <2>5, SameIsFewer, SinkChanges
  <2> QED
    BY <2>4, <2>5, <2>6 DEF Same, Unheard, Plays
<1>11. CASE Sink!ResponseSent(s, up)
  <2>1. Same(failed, u) /\ Stays(failed, u, up) /\ u.out = failed.out /\ SinkRec(u)
    BY <1>9 DEF Same, Stays, SinkRec, SinkFields
  <2> HIDE DEF u
  <2>2. Same(k, u) /\ Stays(k, u, up) /\ Fewer(k, u)
    BY <1>9, <2>1, SameTwice, SameIsFewer
  <2>3. u.creates = k.creates /\ u.firstCreate = k.firstCreate /\ k.creates \in {0, 1} /\ (k.firstCreate <=> k.creates = 0)
    BY <2>2 DEF Same, SinkAt, Exchange, Progress
  <2>4. CASE u.firstCreate
    <3>1. l = v /\ k.creates = 0
      BY ONLY <1>1, <1>11, <2>3, <2>4
    <3>2. /\ SinkRec(v) /\ Stays(u, v, up) /\ v.out = u.out /\ v.creates = 1 /\ v.firstCreate = FALSE
          /\ v.last = u.last /\ v.handlers = u.handlers /\ v.cseq = u.cseq /\ v.sending = u.sending
          /\ v.wfd = u.wfd /\ v.client = u.client /\ v.told = u.told
      <4>1. v = [u EXCEPT !.firstCreate = FALSE, !.creates = 1]
        BY <2>3, <3>1
      <4> HIDE DEF v
      <4> QED
        BY <2>1, <4>1 DEF SinkRec, SinkFields, Stays
    <3> HIDE DEF v
    \* Before the response goes out: as u, but with nothing sent.
    <3> DEFINE w == [v EXCEPT !.out = k.out]
    <3>3. /\ SinkRec(w) /\ w.out = k.out /\ w.creates = 1 /\ w.firstCreate = FALSE
          /\ w.last = u.last /\ w.handlers = u.handlers /\ w.cseq = u.cseq /\ w.sending = u.sending
          /\ w.wfd = u.wfd /\ w.client = u.client /\ w.told = u.told
      BY <3>2 DEF SinkRec, SinkFields
    <3> HIDE DEF w
    <3>4. Exchange(u, c, a, t \o k.out) /\ u.creates = 0
      BY <2>2, <2>3, <3>1, SinkGivesUp DEF SinkAt
    <3>5. Exchange(w, c, a, t \o k.out)
      BY <1>0, <3>3, <3>4, ConsumerAsked
    <3>6. SinkAt(w, c, a, t)
      BY <3>3, <3>5 DEF SinkAt
    <3>7. Fewer(w, v)
      BY <3>2, <3>3 DEF Fewer
    <3>8. v.out = w.out \/ v.out = Append(w.out, q)
      BY <1>5, <1>7, <2>1, <3>2, <3>3
    <3>9. SinkAt(v, c, a, t)
      BY <1>0, <1>7, <3>3, <3>6, <3>7, <3>8, SinkReplies
    <3>10. Stays(k, v, up)
      BY <2>2, <3>2, StaysTwice
    <3>11. Wanted(k, v)
      BY <2>2, <3>1, <3>2 DEF Wanted, Plays, Same
    <3> QED
      BY <3>1, <3>9, <3>10, <3>11
  <2>5. CASE ~u.firstCreate
    <3>1. l = u /\ k.creates = 1
      BY <1>1, <1>11, <2>3, <2>5
    <3>2. SinkAt(u, c, a, t)
      BY <1>0, <1>5, <1>7, <2>1, <2>2, <3>1, SinkReplies
    <3> QED
      BY <2>2, <3>1, <3>2 DEF Same, Unheard, Plays
  <2> QED
    BY <2>4, <2>5
<1> QED
  BY <1>10, <1>11

\* The state READY, that nothing depends on.
LEMMA SinkReady ==
    ASSUME NEW k, NEW c, NEW a, NEW t, SinkAt(k, c, a, t), ~BeforeM1(c, a), NEW l, l = [k EXCEPT !.wfd = "READY"]
    PROVE  SinkAt(l, c, a, t) /\ Unheard(k, l) /\ \A up : Stays(k, l, up)
<1>1. /\ SinkRec(k) /\ SinkRec(l) /\ l.cseq = k.cseq /\ l.creates = k.creates /\ l.firstCreate = k.firstCreate
      /\ l.last = k.last /\ l.handlers = k.handlers /\ l.sending = k.sending /\ l.wfd = "READY" /\ l.told = k.told
      /\ l.out = k.out /\ l.client = k.client /\ l.socket = k.socket /\ l.starting = k.starting
      /\ l.connected = k.connected
  BY DEF SinkAt, Exchange, SinkRec, SinkFields
<1>2. l.cseq \in Nat /\ l.cseq >= k.cseq
  BY <1>1 DEF SinkAt, Exchange, Numbers
<1>3. Exchange(l, c, a, t \o k.out)
  BY <1>1, <1>2, NumberRaised DEF SinkAt
<1> QED
  BY <1>1, <1>3 DEF SinkAt, Unheard, Plays, Stays

\* M5, the trigger: the response and then M6.
LEMMA HandleM5 ==
    ASSUME NEW k, NEW c, NEW a, NEW t, SinkAt(k, c, a, t), SocketOK(k), NEW m, IsM5(m),
           SinkHolds(k, c, a, t \o k.out, m), NEW up \in BOOLEAN, NEW l, l = Sink!HandleTriggerMethod(k, m, up)
    PROVE  SinkAt(l, c, a, t) /\ Stays(k, l, up) /\ Unheard(k, l)
<1> DEFINE x == Sink!StopTimer(k)
           u == Sink!SendCommonResponse(x, m.cseq, up)
           w == Sink!NotifyServiceError(u)
           q == Sink!RtspRequestSetup(u.cseq + 1)
           v == Sink!SendTimedRequest(u, q, "M6", up)
           z == [v EXCEPT !.wfd = "READY"]
<1>0. SinkRec(k) /\ m.req /\ NoTokenAt(k, c, a, t) /\ BothAsked(k, c) /\ ~BeforeM1(c, a) /\ c.wfd # "M4" /\ m.body = "setup"
  BY DEF SinkAt, Exchange, SinkHolds, IsM5, NoTokenAt, NoToken, BeforeM1, SourceToken
<1>1. l \in {w, v, z}
  <2>1. Sink!GetTriggerMethod(m) = "setup"
    BY <1>0 DEF Sink!GetTriggerMethod
  <2> QED
    BY <2>1 DEF Sink!HandleTriggerMethod, Sink!SendM6Request
<1>2. Same(k, x) /\ Stays(k, x, up) /\ x.out = k.out
  BY <1>0, TimerEffect
<1> HIDE DEF x
<1>3. Fewer(k, x) /\ SocketOK(x) /\ SinkRec(x)
  BY <1>2, SameIsFewer, SocketStays DEF Same
<1>4. SinkAt(x, c, a, t) /\ NoTokenAt(x, c, a, t) /\ SinkRec(x)
  BY <1>0, <1>2, <1>3, SinkChanges
<1>5. SinkHolds(k, c, a, t \o k.out, m) /\ ~(c.wfd = "M4" /\ m.cseq = c.cseq)
  BY <1>0
<1>6. /\ SinkAt(u, c, a, t) /\ NoTokenAt(u, c, a, t)
      /\ Same(x, u) /\ Stays(x, u, up) /\ Unheard(x, u)
  <2> DEFINE p == Sink!Response(m.cseq)
  <2>1. m.cseq \in Nat /\ m.cseq <= c.cseq
    BY <1>0, SinkHoldsRequest
  <2>2. Says(p, FALSE, "OK", "none", m.cseq)
    BY <2>1, SinkMessages
  <2>3. Same(x, u) /\ Stays(x, u, up) /\ (u.out = x.out \/ u.out = Append(x.out, p))
    BY <1>3, CommonResponseEffect
  <2> HIDE DEF p, u
  <2>4. Says(p, FALSE, p.method, p.body, p.cseq) /\ p.cseq <= c.cseq /\ ~(c.wfd = "M4" /\ p.cseq = c.cseq)
    BY <1>5, <2>1, <2>2 DEF Says
  <2>5. Fewer(x, u)
    BY <2>3, SameIsFewer
  <2>6. SinkAt(u, c, a, t)
    BY <1>4, <2>3, <2>4, <2>5, SinkReplies
  <2>7. NoTokenAt(u, c, a, t)
    BY <1>4, <2>3, <2>4, <2>5, StillNoToken
  <2> QED
    BY <2>3, <2>6, <2>7 DEF Same, Unheard, Plays
<1> HIDE DEF u
<1>7. Same(k, u) /\ Stays(k, u, up) /\ SinkRec(u) /\ SocketOK(u) /\ BothAsked(u, c) /\ u.cseq + 1 \in Nat
  <2>1. Same(k, u) /\ Stays(k, u, up)
    BY <1>2, <1>6, SameTwice
  <2>2. SocketOK(u)
    BY <2>1, SocketStays
  <2> QED
    BY <1>0, <1>6, <2>1, <2>2 DEF Same, BothAsked, SinkAt, Exchange, Numbers
<1>8. Same(u, w) /\ Stays(u, w, up) /\ w.out = u.out
  BY <1>7, NotifyEffect DEF Sink!NotifyServiceError
<1>9. SinkAt(w, c, a, t) /\ Stays(k, w, up) /\ Unheard(k, w)
  <2>1. Fewer(u, w)
    BY <1>8, SameIsFewer
  <2>2. SinkAt(w, c, a, t)
    BY <1>6, <1>8, <2>1, SinkChanges
  <2>3. Same(k, w) /\ Stays(k, w, up)
    BY <1>7, <1>8, SameTwice
  <2> QED
    BY <2>2, <2>3 DEF Same, Unheard, Plays
<1>10. SinkAt(v, c, a, t) /\ Stays(u, v, up) /\ Unheard(u, v)
  <2>1. Says(q, TRUE, "SETUP", "none", u.cseq + 1)
    BY <1>7, SinkMessages
  <2> HIDE DEF q
  <2>2. q.cseq = u.cseq + 1 /\ ~IsOptions(q) /\ ~IsPlay(q) /\ Says(q, TRUE, q.method, "none", u.cseq + 1)
    BY <2>1 DEF Says, IsOptions, IsPlay
  <2>3. Stays(u, v, up) /\ (v = u \/ (Awaiting(u, v, q.cseq, "M6") /\ (v.out = u.out \/ v.out = Append(u.out, q))))
    BY <1>7, TimedEffect
  <2> HIDE DEF v
  <2>4. CASE v = u
    BY <1>6, <2>3, <2>4 DEF Unheard
  <2>5. CASE Awaiting(u, v, q.cseq, "M6") /\ (v.out = u.out \/ v.out = Append(u.out, q))
    <3>1. SinkAt(v, c, a, t)
      BY <1>0, <1>6, <1>7, <2>2, <2>3, <2>5, SinkRequests DEF Stays
    <3> QED
      BY <2>3, <2>5, <3>1 DEF Awaiting, Unheard, Plays
  <2> QED
    BY <2>3, <2>4, <2>5
<1> HIDE DEF v
<1>11. Stays(k, v, up) /\ Unheard(k, v)
  BY <1>7, <1>10, StaysTwice DEF Same, Unheard, Plays
<1>12. SinkAt(z, c, a, t) /\ Stays(v, z, up) /\ Unheard(v, z)
  BY <1>0, <1>10, SinkReady
<1> HIDE DEF z
<1>13. Stays(k, z, up) /\ Unheard(k, z)
  BY <1>11, <1>12, StaysTwice DEF Unheard
<1> QED
  BY <1>1, <1>9, <1>10, <1>11, <1>12, <1>13

\* One request heard: nothing more is told the scene, or a consumer is asked for.
Asked(k, l) == Unheard(k, l) \/ Wanted(k, l)

\* Whatever request it is, its handler in the sink keeps the exchange and asks the agent at most for the consumer.
LEMMA SinkHandlesRequest ==
    ASSUME NEW j, NEW k, k = [j EXCEPT !.last = NoMessage], NEW c, NEW a, NEW t, SinkAt(k, c, a, t), SocketOK(k),
           NEW m, m.req, SinkHolds(k, c, a, t \o k.out, m), NEW up \in BOOLEAN,
           NEW l, l = Sink!HandleRequest(j, m, up)
    PROVE  SinkAt(l, c, a, t) /\ Stays(k, l, up) /\ Asked(k, l)
<1> SUFFICES SinkAt(l, c, a, t) /\ Stays(k, l, up) /\ (Unheard(k, l) \/ Wanted(k, l))
  BY DEF Asked
<1>1. k = [j EXCEPT !.last = Sink!NoMessage]
  BY NoMessageIs
<1>2. Stays(k, k, up) /\ Unheard(k, k)
  BY DEF SinkAt, Exchange, Stays, Unheard
<1>3. m.body \in {"none", "query", "params", "setup"} /\ m.part = "whole"
  BY DEF SinkHolds
<1>4. CASE m.method = "OPTIONS"
  <2>1. l = Sink!HandleM1Request(k, m, up)
    BY <1>1, <1>4 DEF Sink!HandleRequest
  <2>2. IsOptions(m)
    BY <1>4 DEF IsOptions
  <2> QED
    BY <2>1, <2>2, HandleM1
<1>5. CASE m.method = "GET_PARAMETER" /\ m.body # "none"
  <2>1. l = Sink!SendM3Response(k, m, up)
    BY <1>1, <1>5 DEF Sink!HandleRequest
  <2> QED
    BY <1>5, <2>1, HandleM3
<1>6. CASE m.method = "GET_PARAMETER" /\ m.body = "none"
  <2>1. l = Sink!HandleM16Request(k, m, up)
    BY <1>1, <1>6 DEF Sink!HandleRequest
  <2> QED
    BY <1>6, <2>1, HandleM16
<1>7. CASE m.method = "SET_PARAMETER" /\ m.body = "setup"
  <2>1. l = Sink!HandleTriggerMethod(k, m, up)
    BY <1>1, <1>7 DEF Sink!HandleRequest, Sink!GetTriggerMethod
  <2>2. IsM5(m)
    BY <1>3, <1>7 DEF IsM5
  <2> QED
    BY <2>1, <2>2, HandleM5
<1>8. CASE m.method = "SET_PARAMETER" /\ m.body = "params"
  <2>1. l = Sink!HandleM4Request(k, m, up)
    BY <1>1, <1>8 DEF Sink!HandleRequest, Sink!GetTriggerMethod
  <2>2. IsM4(m)
    BY <1>8 DEF IsM4
  <2> QED
    BY <2>1, <2>2, HandleM4
<1>9. CASE m.method \notin {"OPTIONS", "GET_PARAMETER", "SET_PARAMETER"}
           \/ (m.method = "SET_PARAMETER" /\ m.body \in {"none", "query"})
  <2>1. l = k
    BY <1>1, <1>9 DEF Sink!HandleRequest, Sink!GetTriggerMethod
  <2> QED
    BY <1>2, <2>1
<1> QED
  BY <1>3, <1>4, <1>5, <1>6, <1>7, <1>8, <1>9

\* The response to M6: M7 takes the place of its handler.
LEMMA HandleM6 ==
    ASSUME NEW k, NEW c, NEW a, NEW t, SinkAt(k, c, a, t), SocketOK(k), NEW h \in k.handlers, h[2] = "M6",
           NEW m, NEW up \in BOOLEAN, NEW l, l = Sink!EraseHandler(Sink!HandleM6Response(k, m, up), h[1])
    PROVE  SinkAt(l, c, a, t) /\ Stays(k, l, up) /\ Unheard(k, l)
<1> DEFINE x == [k EXCEPT !.session = m.session]
           s == Sink!StopTimer(x)
           e == Sink!EraseHandler(s, h[1])
           q == Sink!WithSession(Sink!RtspRequestPlay(s.cseq + 1), s.session)
           v == Sink!SendTimedRequest(s, q, "M7", up)
<1>0. SinkRec(k) /\ SinkToken(k) /\ ~BeforeM1(c, a) /\ BothAsked(k, c) /\ k.cseq \in Nat
      /\ (\A g \in k.handlers : g[2] = "M6" => g = h) /\ ~IsM5(k.last)
  <2>1. SinkToken(k) /\ SinkRec(k) /\ k.cseq \in Nat
    BY DEF SinkToken, SinkAt, Exchange, Numbers
  <2>2. ~BeforeM1(c, a) /\ BothAsked(k, c)
    BY <2>1 DEF SinkAt, Exchange, OneToken, SourceToken, BeforeM1, Progress, Late
  <2>3. (\A g \in k.handlers : g[2] = "M6" => g = h) /\ ~IsM5(k.last)
    BY DEF SinkAt, Exchange, OneToken
  <2> QED
    BY <2>1, <2>2, <2>3
<1>1. l = Sink!EraseHandler(v, h[1])
  BY DEF Sink!HandleM6Response, Sink!SendM7Request
<1>2. Same(k, x) /\ Stays(k, x, up) /\ x.out = k.out /\ SinkRec(x)
  BY <1>0 DEF Same, Stays, SinkRec, SinkFields
<1> HIDE DEF x
<1>3. Same(x, s) /\ Stays(x, s, up) /\ s.out = x.out /\ SinkRec(s)
  BY <1>2, TimerEffect DEF Same
<1> HIDE DEF s
<1>4. Same(k, s) /\ Stays(k, s, up) /\ s.out = k.out /\ SocketOK(s) /\ s.cseq + 1 \in Nat
  BY <1>0, <1>2, <1>3, SameTwice, SocketStays DEF Same
<1>5. /\ SinkRec(e) /\ Stays(s, e, up) /\ e.handlers = {g \in s.handlers : g[1] # h[1]} /\ e.out = s.out
      /\ e.last = s.last /\ e.creates = s.creates /\ e.firstCreate = s.firstCreate /\ e.cseq = s.cseq
      /\ e.wfd = s.wfd /\ e.told = s.told /\ e.client = s.client /\ e.sending = s.sending
  BY <1>3 DEF Sink!EraseHandler, SinkRec, SinkFields, Stays
<1> HIDE DEF e
<1>6. Fewer(k, e) /\ e.out = k.out /\ BothAsked(e, c) /\ Stays(k, e, up)
  <2>1. Stays(k, e, up)
    BY <1>4, <1>5, StaysTwice
  <2> QED
    BY <1>0, <1>4, <1>5, <2>1 DEF Same, Stays, Fewer, BothAsked
<1>7. SinkAt(e, c, a, t)
  BY <1>6, SinkChanges
<1>8. NoTokenAt(e, c, a, t)
  <2>1. ~SinkToken(e)
    BY <1>0, <1>4, <1>5 DEF SinkToken, Same
  <2> QED
    BY <1>0, <1>6, <2>1 DEF SinkAt, Exchange, OneToken, NoToken, NoTokenAt
<1>9. Says(q, TRUE, "PLAY", "none", s.cseq + 1)
  BY <1>4, SinkMessages
<1> HIDE DEF q
<1>10. Stays(s, v, up) /\ (v = s \/ (Awaiting(s, v, q.cseq, "M7") /\ (v.out = s.out \/ v.out = Append(s.out, q))))
  BY <1>3, <1>4, TimedEffect
<1> HIDE DEF v
<1>11. Stays(v, l, up) /\ Stays(k, l, up)
  <2>1. SinkRec(v)
    BY <1>10 DEF Stays
  <2>2. Stays(v, l, up)
    BY ONLY <1>1, <2>1 DEF Sink!EraseHandler, SinkRec, SinkFields, Stays
  <2> QED
    BY <1>4, <1>10, <2>2, StaysTwice
<1>12. CASE v = s
  <2>1. l = e
    BY <1>1, <1>12 DEF e
  <2> QED
    BY <1>6, <1>7, <1>11, <2>1 DEF Fewer, Unheard, Plays
<1>13. CASE Awaiting(s, v, q.cseq, "M7") /\ (v.out = s.out \/ v.out = Append(s.out, q))
  <2>1. /\ SinkRec(l) /\ l.handlers = {g \in v.handlers : g[1] # h[1]} /\ l.out = v.out
        /\ l.last = v.last /\ l.creates = v.creates /\ l.firstCreate = v.firstCreate /\ l.cseq = v.cseq
        /\ l.wfd = v.wfd /\ l.told = v.told /\ l.sending = v.sending
    BY <1>1, <1>13 DEF Sink!EraseHandler, SinkRec, SinkFields, Awaiting
  <2>2. q.cseq = e.cseq + 1 /\ ~IsOptions(q) /\ IsPlay(q) /\ Says(q, TRUE, q.method, "none", e.cseq + 1)
    BY <1>5, <1>9 DEF Says, IsOptions, IsPlay
  <2>3. Awaiting(e, l, e.cseq + 1, "M7")
    BY <1>5, <1>13, <2>1, <2>2 DEF Awaiting
  <2>4. l.sending = e.sending /\ (l.out = e.out \/ l.out = Append(e.out, q))
    BY <1>5, <1>10, <1>13, <2>1 DEF Stays
  <2>5. SinkAt(l, c, a, t)
    BY <1>0, <1>6, <1>7, <1>8, <2>2, <2>3, <2>4, SinkRequests
  <2> QED
    BY <1>6, <1>11, <2>3, <2>5 DEF Awaiting, Fewer, Unheard, Plays
<1> QED
  BY <1>10, <1>12, <1>13

\* The other responses change nothing of the exchange, but for the one to M7: the sink plays.
LEMMA SinkHandlesResponse ==
    ASSUME NEW j, NEW k, k = [j EXCEPT !.last = NoMessage], NEW c, NEW a, NEW t, SinkAt(k, c, a, t), SocketOK(k),
           SinkRec(j), NEW m, ~m.req, SinkHolds(k, c, a, t \o k.out, m), NEW up \in BOOLEAN,
           Sink!Handlers(j, m.cseq) # {}, NEW l, l = Sink!HandleResponse(j, m, up)
    PROVE  SinkAt(l, c, a, t) /\ Stays(k, l, up) /\ (Unheard(k, l) \/ Playing(k, l, c))
<1>1. k = [j EXCEPT !.last = Sink!NoMessage] /\ k.handlers = j.handlers /\ SinkRec(k)
  BY NoMessageIs DEF SinkRec, SinkFields
<1> DEFINE kind == CHOOSE x \in Sink!Handlers(j, m.cseq) : TRUE
<1>2. kind \in Sink!Handlers(j, m.cseq)
  OBVIOUS
<1>3. l = Sink!EraseHandler(CASE kind = "M2"  -> Sink!HandleM2Response(k)
                              [] kind = "M6"  -> Sink!HandleM6Response(k, m, up)
                              [] kind = "M7"  -> Sink!HandleM7Response(k)
                              [] kind = "M8"  -> Sink!HandleM8Response(k)
                              [] kind = "IDR" -> Sink!HandleCommonResponse(k), m.cseq)
  BY <1>1 DEF Sink!HandleResponse
<1> HIDE DEF kind
<1>4. PICK h \in k.handlers : h[1] = m.cseq /\ h[2] = kind
  BY <1>1, <1>2 DEF Sink!Handlers
<1>5. kind \in {"M2", "M6", "M7", "M8", "IDR"}
  BY <1>4 DEF SinkAt, Exchange, Numbers, Sink!HandlerKinds
<1>6. ASSUME NEW x, Same(k, x), Stays(k, x, up), x.out = k.out, l = Sink!EraseHandler(x, m.cseq)
      PROVE  SinkAt(l, c, a, t) /\ Stays(k, l, up) /\ Unheard(k, l)
  <2>1. /\ SinkRec(l) /\ l.handlers \subseteq x.handlers /\ l.out = x.out /\ Stays(x, l, up)
        /\ l.last = x.last /\ l.creates = x.creates /\ l.firstCreate = x.firstCreate /\ l.cseq = x.cseq
        /\ l.wfd = x.wfd /\ l.told = x.told /\ l.client = x.client /\ l.sending = x.sending
    BY <1>6 DEF Sink!EraseHandler, SinkRec, SinkFields, Same, Stays
  <2>2. Fewer(k, l) /\ l.out = k.out
    BY <1>6, <2>1 DEF Same, Stays, Fewer
  <2>3. SinkAt(l, c, a, t)
    BY <2>2, SinkChanges
  <2>4. Stays(k, l, up)
    BY <1>6, <2>1, StaysTwice
  <2> QED
    BY ONLY <2>2, <2>3, <2>4 DEF Fewer, Unheard, Plays
<1>7. CASE kind = "M2"
  <2> DEFINE s == Sink!StopTimer(k)
             x == Sink!StartTimer(s, "M3")
  <2>1. l = Sink!EraseHandler(x, m.cseq)
    BY <1>3, <1>7 DEF Sink!HandleM2Response
  <2>2. Same(k, s) /\ Stays(k, s, up) /\ s.out = k.out /\ SinkRec(s)
    <3>1. Same(k, s) /\ Stays(k, s, up) /\ s.out = k.out
      BY <1>1, TimerEffect
    <3> QED
      BY <3>1 DEF Same
  <2> HIDE DEF s
  <2>3. Same(s, x) /\ Stays(s, x, up) /\ x.out = s.out
    BY <2>2, TimerEffect
  <2>4. Same(k, x) /\ Stays(k, x, up)
    BY <2>2, <2>3, SameTwice
  <2> HIDE DEF x
  <2> QED
    BY <1>6, <2>1, <2>2, <2>3, <2>4
<1>8. CASE kind = "M6"
  <2>1. l = Sink!EraseHandler(Sink!HandleM6Response(k, m, up), h[1])
    BY <1>3, <1>4, <1>8
  <2> QED
    BY ONLY SinkAt(k, c, a, t), SocketOK(k), up \in BOOLEAN, h \in k.handlers, <1>4, <1>8, <2>1, HandleM6
<1>9. CASE kind = "M7"
  <2> DEFINE s == Sink!StopTimer(k)
             p == Sink!NotifyAgent(s, "PLAYED")
             x == [p EXCEPT !.wfd = "PLAYING", !.timeoutCall = "network", !.keepAlive = "on"]
  <2>1. l = Sink!EraseHandler(x, m.cseq)
    BY <1>3, <1>9 DEF Sink!HandleM7Response
  <2>2. Same(k, s) /\ Stays(k, s, up) /\ s.out = k.out /\ SinkRec(s)
    <3>1. Same(k, s) /\ Stays(k, s, up) /\ s.out = k.out
      BY <1>1, TimerEffect
    <3> QED
      BY <3>1 DEF Same
  <2> HIDE DEF s
  <2>3. /\ SinkRec(x) /\ Stays(s, x, up) /\ x.out = s.out /\ Plays(x) /\ x.creates = s.creates
        /\ x.firstCreate = s.firstCreate /\ x.last = s.last /\ x.handlers = s.handlers /\ x.cseq = s.cseq
        /\ x.sending = s.sending
    BY ONLY <2>2 DEF Sink!NotifyAgent, SinkRec, SinkFields, Stays, Plays
  <2> HIDE DEF x
  <2>4. "PLAYED" \in c.told /\ k.creates = 1
    BY <1>4, <1>9 DEF SinkHolds, SinkAt, Exchange, Progress, Late, BothAsked
  <2>5. /\ x.out = k.out /\ x.creates = k.creates /\ x.firstCreate = k.firstCreate /\ x.last = k.last
        /\ x.handlers = k.handlers /\ x.cseq = k.cseq /\ x.sending = k.sending /\ Stays(k, x, up)
    BY <2>2, <2>3, StaysTwice DEF Same, Stays
  <2>6. SinkAt(x, c, a, t)
    BY <2>3, <2>4, <2>5, SinkPlayed DEF SinkAt, Plays
  <2>7. /\ SinkRec(l) /\ l.handlers \subseteq x.handlers /\ l.out = x.out /\ Stays(x, l, up)
        /\ l.last = x.last /\ l.creates = x.creates /\ l.firstCreate = x.firstCreate /\ l.cseq = x.cseq
        /\ l.wfd = x.wfd /\ l.told = x.told /\ l.client = x.client /\ l.sending = x.sending
    BY <2>1, <2>3 DEF Sink!EraseHandler, SinkRec, SinkFields, Stays
  <2>8. Fewer(x, l)
    BY <2>7 DEF Fewer
  <2>9. SinkAt(l, c, a, t)
    BY <2>6, <2>7, <2>8, SinkChanges
  <2>10. Playing(k, l, c)
    BY <2>3, <2>4, <2>5, <2>7 DEF Playing, Plays
  <2> QED
    BY <2>5, <2>7, <2>9, <2>10, StaysTwice
<1>10. CASE kind = "M8"
  <2> DEFINE x == Sink!NotifyAgent(k, "TEARDOWN")
  <2>1. l = Sink!EraseHandler(x, m.cseq)
    BY <1>3, <1>10 DEF Sink!HandleM8Response
  <2>2. Same(k, x) /\ Stays(k, x, up) /\ x.out = k.out
    BY <1>1, NotifyEffect
  <2> HIDE DEF x
  <2> QED
    BY <1>6, <2>1, <2>2
<1>11. CASE kind = "IDR"
  <2> DEFINE x == Sink!StopTimer(k)
  <2>1. l = Sink!EraseHandler(x, m.cseq)
    BY <1>3, <1>11 DEF Sink!HandleCommonResponse
  <2>2. Same(k, x) /\ Stays(k, x, up) /\ x.out = k.out
    BY <1>1, TimerEffect
  <2> HIDE DEF x
  <2> QED
    BY <1>6, <2>1, <2>2
<1> QED
  BY <1>5, <1>7, <1>8, <1>9, <1>10, <1>11

-----------------------------------------------------------------------------
(* One read                                                                *)

\* Dropping the first of several messages leaves a queue that begins with the second.
LEMMA TailOfQueue ==
    ASSUME NEW q, Queue(q), Len(q) >= 2
    PROVE  Queue(Tail(q)) /\ Len(Tail(q)) = Len(q) - 1 /\ Tail(q)[1] = q[2]
<1>1. PICK S : q \in Seq(S)
  BY DEF Queue
<1>2. Tail(q) \in Seq(S) /\ Len(Tail(q)) = Len(q) - 1 /\ \A i \in 1..Len(Tail(q)) : Tail(q)[i] = q[i + 1]
  BY <1>1
<1>3. Len(q) \in Nat /\ 1 \in 1..Len(Tail(q))
  BY <1>1, <1>2
<1>4. \A i \in 1..Len(Tail(q)) : i + 1 \in 1..Len(q)
  BY <1>2, <1>3
<1>5. Queue(Tail(q))
  BY <1>2, <1>4 DEF Queue
<1> QED
  BY <1>2, <1>3, <1>5

\* What is left after n messages is what is left of the rest after n - 1.
LEMMA RestTaken ==
    ASSUME NEW a, NEW b, NEW r, NEW n, Suffix(a, b, 1), Suffix(a, r, n), n >= 1
    PROVE  Suffix(b, r, n - 1)
<1>1. Len(a) \in Nat /\ n \in Nat /\ Len(b) = Len(a) - 1 /\ Len(r) = Len(a) - n /\ Queue(r)
  BY DEF Suffix
<1>2. Len(b) \in Nat /\ n - 1 \in 0..Len(b) /\ Len(r) = Len(b) - (n - 1)
  BY <1>1 DEF Suffix
<1>3. \A i \in 1..Len(r) : r[i] = b[i + (n - 1)]
  <2> TAKE i \in 1..Len(r)
  <2>1. i + (n - 1) \in 1..Len(b) /\ (i + (n - 1)) + 1 = i + n
    BY <1>1, <1>2
  <2>2. b[i + (n - 1)] = a[(i + (n - 1)) + 1]
    BY <2>1 DEF Suffix
  <2> QED
    BY <2>1, <2>2 DEF Suffix
<1> QED
  BY <1>1, <1>2, <1>3 DEF Suffix

\* Parsing may lose the body, and nothing else.
LEMMA ParsedIs ==
    ASSUME NEW q, Queue(q), Len(q) >= 1, q[1].part = "whole"
    PROVE  SameMessage(Sink!FirstParsed(q), q[1]) /\ SameMessage(Source!FirstParsed(q), q[1])
<1>1. 1 \in 1..Len(q)
  BY QueueLength
<1>2. IsMessage(q[1])
  BY <1>1 DEF Queue
<1> DEFINE m == q[1]
           n == [m EXCEPT !.body = "none"]
<1>3. SameMessage(m, m)
  BY <1>2 DEF SameMessage
<1>4. SameMessage(n, m)
  BY <1>2 DEF SameMessage, IsMessage, MessageFields
<1>5. Sink!FirstParsed(q) \in {m, n} /\ Source!FirstParsed(q) \in {m, n}
  BY DEF Sink!FirstParsed, Source!FirstParsed
<1> HIDE DEF m, n
<1>6. SameMessage(Sink!FirstParsed(q), m) /\ SameMessage(Source!FirstParsed(q), m)
  BY <1>3, <1>4, <1>5
<1> QED
  BY <1>6 DEF m

\* What a read of the first n messages of q hands on, after a read that kept last: the message it parses first, the
\* request it splices off behind a response, and the head it keeps.
Parsed(q, n, last, first, second, kept) ==
    /\ \/ q[1].part = "whole" /\ SameMessage(first, q[1]) /\ first # NoMessage
       \/ n = 1 /\ first = NoMessage
       \/ n = 1 /\ last.req /\ last.part # "tail" /\ SameMessage(first, last) /\ first # NoMessage
    /\ \/ second = NoMessage
       \/ /\ n >= 2 /\ q[1].part = "whole" /\ q[2].part = "whole" /\ q[2].req
          /\ SameMessage(second, q[2]) /\ second # NoMessage
    /\ \/ kept = NoMessage
       \/ kept = q[1] /\ q[1].part = "head" /\ n = 1

\* A read of the sink: OnClientReadData and RtspResponse::ParseHeader.
LEMMA SinkParses ==
    ASSUME NEW q, Queue(q), NEW n \in 1..Len(q), n = 1 \/ \A i \in 1..n : q[i].part = "whole",
           NEW chunk, chunk = SubSeq(q, 1, n), NEW last, IsMessage(last),
           NEW first, first = Sink!ReadFirst(chunk, last), NEW second, second = Sink!ReadSecond(chunk)
    PROVE  Parsed(q, n, last, first, second, Sink!ReadKeeps(chunk))
<1>1. Queue(chunk) /\ Len(chunk) = n /\ (\A i \in 1..n : chunk[i] = q[i]) /\ n \in Nat /\ n >= 1 /\ 1 \in 1..n
  BY Chunk, QueueLength
<1>2. chunk[1] = q[1] /\ q[1].part \in {"whole", "head", "tail"} /\ 1 \in 1..Len(q)
  BY <1>1, QueueLength DEF Queue
<1>3. \A m, x : SameMessage(m, x) => m # NoMessage
  BY DEF SameMessage, NoMessage
<1>4. \/ q[1].part = "whole" /\ SameMessage(first, q[1])
      \/ n = 1 /\ first = NoMessage
      \/ n = 1 /\ last.req /\ last.part # "tail" /\ SameMessage(first, last)
  <2>1. CASE q[1].part = "whole"
    <3>1. first = Sink!FirstParsed(chunk)
      BY <1>2, <2>1 DEF Sink!ReadFirst
    <3> QED
      BY <1>1, <1>2, <2>1, <3>1, ParsedIs
  <2>2. CASE q[1].part = "head"
    <3>1. first = Sink!NoMessage
      BY <1>2, <2>2 DEF Sink!ReadFirst
    <3> QED
      BY <1>1, <2>2, <3>1, NoMessageIs
  <2>3. CASE q[1].part = "tail"
    <3>1. first = IF last.part = "head" /\ last.req THEN [last EXCEPT !.part = "whole"] ELSE Sink!NoMessage
      BY <1>2, <2>3 DEF Sink!ReadFirst
    <3>2. SameMessage([last EXCEPT !.part = "whole"], last)
      BY DEF SameMessage, IsMessage, MessageFields
    <3> QED
      BY <1>1, <2>3, <3>1, <3>2, NoMessageIs
  <2> QED
    BY <1>2, <2>1, <2>2, <2>3
<1>5. \/ second = NoMessage
      \/ n >= 2 /\ q[1].part = "whole" /\ q[2].part = "whole" /\ q[2].req /\ SameMessage(second, q[2])
  <2>1. second = Sink!NoMessage \/ (q[1].part = "whole" /\ n > 1 /\ chunk[2].req /\ second = Sink!FirstParsed(Tail(chunk)))
    BY <1>1, <1>2, NoMessageIs DEF Sink!ReadSecond, Sink!SplicedRequest
  <2>2. CASE q[1].part = "whole" /\ n > 1 /\ chunk[2].req /\ second = Sink!FirstParsed(Tail(chunk))
    <3>1. n >= 2 /\ 2 \in 1..n
      BY <1>1, <2>2
    <3>2. chunk[2] = q[2] /\ q[2].part = "whole"
      BY <1>1, <3>1
    <3>3. Queue(Tail(chunk)) /\ Len(Tail(chunk)) >= 1 /\ Tail(chunk)[1] = q[2]
      <4>1. Len(chunk) >= 2 /\ Queue(chunk)
        BY <1>1, <3>1
      <4>2. Queue(Tail(chunk)) /\ Len(Tail(chunk)) = Len(chunk) - 1 /\ Tail(chunk)[1] = chunk[2]
        BY <4>1, TailOfQueue
      <4> QED
        BY <1>1, <3>1, <3>2, <4>2
    <3>4. SameMessage(second, q[2])
      BY <2>2, <3>2, <3>3, ParsedIs
    <3> QED
      BY <2>2, <3>1, <3>2, <3>4
  <2> QED
    BY <2>1, <2>2, NoMessageIs
<1>6. \/ Sink!ReadKeeps(chunk) = NoMessage
      \/ Sink!ReadKeeps(chunk) = q[1] /\ q[1].part = "head" /\ n = 1
  BY <1>1, <1>2, NoMessageIs DEF Sink!ReadKeeps
<1> QED
  BY <1>3, <1>4, <1>5, <1>6 DEF Parsed

\* The head of a message is kept.
LEMMA SinkKeeps ==
    ASSUME NEW k, NEW c, NEW a, NEW b, Exchange(k, c, a, b), NEW r, Suffix(a, r, 1), a[1].part = "head",
           NEW l, l = [k EXCEPT !.last = a[1]]
    PROVE  Exchange(l, c, r, b)
<1>1. /\ SinkRec(l) /\ l.last = a[1] /\ l.handlers = k.handlers /\ l.creates = k.creates
      /\ l.firstCreate = k.firstCreate /\ l.cseq = k.cseq /\ l.sending = k.sending /\ l.told = k.told
      /\ l.wfd = k.wfd /\ l.client = k.client
  BY DEF Exchange, SinkRec, SinkFields
<1>2. 1 \in 1..Len(a) /\ IsMessage(a[1])
  BY DEF Suffix, Exchange, Queue
<1>3. Exchange(k, c, r, b)
  BY ReadBySink
<1>4. IsM5(l.last) => \A i \in 1..Len(r) : ~TokenToSink(r[i])
  <2> HAVE IsM5(l.last)
  <2>1. TokenToSink(a[1])
    BY <1>1 DEF TokenToSink
  <2> TAKE i \in 1..Len(r)
  <2>2. i + 1 \in 1..Len(a) /\ r[i] = a[i + 1] /\ i + 1 # 1
    BY DEF Suffix
  <2> QED
    BY <1>2, <2>1, <2>2 DEF Exchange, OneToken
<1>5. IsM5(l.last) => HasM5(a) /\ ~HasOptions(r) /\ ~HasM5(r)
  <2>1. IsM5(l.last) => HasM5(a)
    BY <1>1, <1>2 DEF HasM5
  <2> QED
    BY <1>4, <2>1 DEF HasOptions, HasM5, TokenToSink
<1>6. SinkToken(l) => SinkToken(k) \/ IsM5(l.last)
  BY <1>1 DEF SinkToken
<1>7. OneToken(l, c, r, b)
  <2>1. IsM5(l.last) => \A h \in l.handlers : h[2] # "M6"
    BY <1>1, <1>5 DEF Exchange, OneToken, SinkToken
  <2>2. IsM5(l.last) => ~SourceToken(c) /\ ~(HasOptions(b) \/ HasPlay(b))
    BY <1>5 DEF Exchange, OneToken
  <2> QED
    BY <1>1, <1>3, <1>5, <1>6, <2>1, <2>2 DEF Exchange, OneToken
<1>8. IsM4(l.last) => HasM4(a)
  BY <1>1, <1>2 DEF HasM4
<1>9. Progress(l, c, r, b)
  <2>1. Late(l, r, b) => Late(k, a, b)
    BY <1>1, <1>5, <1>6, SuffixEffect DEF Late
  <2>2. Early(c, r, b) => Early(c, a, b) /\ NoM4(l, c, r)
    BY <1>1, <1>8, SuffixEffect DEF Exchange, Progress, Early, NoM4
  <2>3. AwaitsM4(l, c, r, b)
    BY <1>1, <1>2, <1>3 DEF Exchange, Progress, AwaitsM4
  <2> QED
    BY <1>1, <1>3, <2>1, <2>2, <2>3 DEF Exchange, Progress, BothAsked
<1>10. Numbers(l, c, r, b)
  <2>1. l.last.req => l.last.cseq <= c.cseq
    BY <1>1, <1>2 DEF Exchange, Numbers
  <2> QED
    BY <1>1, <1>3, <2>1 DEF Exchange, Numbers, OnlyTeardown, Sending
<1>11. PlayAlone(l, c, r, b)
  BY <1>1, <1>3 DEF Exchange, PlayAlone, Sending
<1>12. Bodies(l, c, r, b)
  <2>1. l.last.req => l.last.body \in {"none", "query", "params", "setup"} /\ l.last.method # "OPTIONS"
    BY <1>1, <1>2 DEF Exchange, Bodies
  <2> QED
    BY <1>1, <1>3, <2>1 DEF Exchange, Bodies
<1> QED
  BY <1>1, <1>2, <1>3, <1>7, <1>9, <1>10, <1>11, <1>12 DEF Exchange

\* One read of the sink: the exchange goes on with what it has sent behind b.
LEMMA OneReadOfSink ==
    ASSUME NEW k, NEW c, NEW a, NEW b, Exchange(k, c, a, b), k.out = <<>>, SocketOK(k),
           NEW n \in 1..Len(a), n = 1 \/ \A i \in 1..n : a[i].part = "whole", NEW up \in BOOLEAN,
           NEW l, l = Sink!ReadData(k, SubSeq(a, 1, n), up), NEW r, r = SubSeq(a, n + 1, Len(a))
    PROVE  /\ Queue(l.out) /\ Exchange(l, c, r, b \o l.out) /\ Stays(k, l, up)
           /\ Unheard(k, l) \/ Wanted(k, l) \/ Playing(k, l, c)
<1> DEFINE chunk == SubSeq(a, 1, n)
           first == Sink!ReadFirst(chunk, k.last)
           second == Sink!ReadSecond(chunk)
           t == Sink!HandleResponse(k, first, up)
           a1 == SubSeq(a, 1 + 1, Len(a))
           forgot == [k EXCEPT !.last = NoMessage]
<1>1. /\ SinkRec(k) /\ IsMessage(k.last) /\ Queue(a) /\ Queue(b) /\ Len(a) \in Nat /\ n \in Nat /\ n >= 1
      /\ 1 \in 1..Len(a) /\ Queue(<<>>) /\ b \o <<>> = b
  <2>1. Queue(a) /\ Queue(b)
    BY DEF Exchange
  <2> QED
    BY <2>1, QueueLength, EmptyQueue DEF Exchange
<1>2. Suffix(a, a1, 1) /\ Suffix(a, r, n) /\ Suffix(a1, r, n - 1)
  <2>1. Suffix(a, a1, 1) /\ Suffix(a, r, n)
    BY <1>1, Taken
  <2> QED
    BY <1>1, <2>1, RestTaken
<1>3. SinkAt(k, c, a, b) /\ SinkAt(k, c, a1, b)
  <2>1. Exchange(k, c, a1, b)
    BY <1>2, ReadBySink
  <2> QED
    BY <1>1, <2>1 DEF SinkAt
<1>4. /\ \/ a[1].part = "whole" /\ SameMessage(first, a[1]) /\ first # NoMessage
         \/ n = 1 /\ first = NoMessage
         \/ n = 1 /\ k.last.req /\ k.last.part # "tail" /\ SameMessage(first, k.last) /\ first # NoMessage
      /\ \/ second = NoMessage
         \/ /\ n >= 2 /\ a[1].part = "whole" /\ a[2].part = "whole" /\ a[2].req
            /\ SameMessage(second, a[2]) /\ second # NoMessage
      /\ \/ Sink!ReadKeeps(chunk) = NoMessage
         \/ Sink!ReadKeeps(chunk) = a[1] /\ a[1].part = "head" /\ n = 1
  <2>1. chunk = SubSeq(a, 1, n) /\ first = Sink!ReadFirst(chunk, k.last) /\ second = Sink!ReadSecond(chunk)
    OBVIOUS
  <2> HIDE DEF chunk, first, second
  <2> QED
    <3>1. Parsed(a, n, k.last, first, second, Sink!ReadKeeps(chunk))
      BY <1>1, <2>1, SinkParses
    <3> QED
      BY <3>1 DEF Parsed
<1>5. l = IF k.interrupting THEN Sink!CheckInterrupt(k)
          ELSE IF first = NoMessage THEN [k EXCEPT !.last = Sink!ReadKeeps(chunk)]
          ELSE IF first.req THEN Sink!HandleRequest(k, first, up)
          ELSE IF Sink!Handlers(k, first.cseq) = {} THEN k
          ELSE IF second = NoMessage THEN t ELSE Sink!HandleRequest(t, second, up)
  BY NoMessageIs DEF Sink!ReadData
<1> HIDE DEF chunk
<1>6. Stays(k, k, up) /\ Unheard(k, k) /\ Same(k, k)
  BY <1>1 DEF Stays, Unheard, Same
<1>7. \A x, y, i : SinkAt(x, c, y, b) /\ Suffix(y, r, i) => Queue(x.out) /\ Exchange(x, c, r, b \o x.out)
  BY ReadBySink DEF SinkAt
<1>8. /\ SinkRec(forgot) /\ Stays(k, forgot, up) /\ SocketOK(forgot) /\ forgot.out = k.out
      /\ forgot.creates = k.creates /\ forgot.told = k.told
  <2>1. /\ SinkRec(forgot) /\ Stays(k, forgot, up) /\ forgot.out = k.out /\ forgot.creates = k.creates
        /\ forgot.told = k.told
    BY <1>1 DEF SinkRec, SinkFields, Stays
  <2> QED
    BY <2>1, SocketStays
<1>9. CASE k.interrupting
  <2>1. l = Sink!CheckInterrupt(k)
    BY <1>5, <1>9
  <2>2. Same(k, l) /\ Stays(k, l, up) /\ l.out = k.out
    BY <1>1, <2>1, CheckInterruptEffect
  <2>3. SinkAt(l, c, a, b)
    BY <1>3, <2>2, SameIsFewer, SinkChanges
  <2> QED
    BY <1>2, <1>7, <2>2, <2>3 DEF Same, Unheard, Plays
<1>10. CASE ~k.interrupting /\ first = NoMessage
  <2> DEFINE kept == Sink!ReadKeeps(chunk)
  <2>1. l = [k EXCEPT !.last = kept]
    BY <1>5, <1>10
  <2>2. CASE kept = NoMessage
    <3>1. Same([k EXCEPT !.last = k.last], k) /\ l = forgot
      BY ONLY <1>1, <2>1, <2>2 DEF Same, SinkRec, SinkFields
    <3>2. Fewer(k, l) /\ l.out = k.out /\ Stays(k, l, up) /\ Unheard(k, l)
      BY ONLY <1>1, <1>8, <3>1 DEF SinkRec, SinkFields, Fewer, Unheard, Plays
    <3>3. SinkAt(l, c, a, b)
      BY <1>3, <3>2, SinkChanges
    <3> QED
      BY <1>2, <1>7, <3>2, <3>3
  <2>3. CASE kept = a[1] /\ a[1].part = "head" /\ n = 1
    <3>1. l = [k EXCEPT !.last = a[1]]
      BY <2>1, <2>3
    <3>2. Suffix(a, r, 1)
      BY <1>2, <2>3
    <3>3. Exchange(l, c, r, b)
      BY <2>3, <3>1, <3>2, SinkKeeps
    <3>4. Stays(k, l, up) /\ Unheard(k, l) /\ l.out = <<>>
      BY <1>1, <3>1 DEF SinkRec, SinkFields, Stays, Unheard, Plays
    <3> QED
      BY <1>1, <3>3, <3>4
  <2> QED
    BY <1>4, <2>2, <2>3
\* What is at hand when the first message is handled, and k has forgotten what it kept.
<1>11. ASSUME first # NoMessage
       PROVE  SinkAt(forgot, c, a1, b) /\ SinkHolds(forgot, c, a1, b \o forgot.out, first)
  <2>0. b \o forgot.out = b /\ Queue(forgot.out)
    BY <1>1, <1>8
  <2>1. CASE a[1].part = "whole" /\ SameMessage(first, a[1])
    <3> HIDE DEF first, a1, forgot
    <3>1. Exchange(k, c, a1, b) /\ SinkHolds(k, c, a1, b, first)
      BY <1>2, <2>1, SinkTakes
    <3>2. Exchange(forgot, c, a1, b) /\ SinkHolds(forgot, c, a1, b, first)
      BY <3>1, SinkForgets DEF forgot
    <3> QED
      BY <1>1, <2>0, <3>2 DEF SinkAt
  <2>2. CASE k.last.req /\ k.last.part # "tail" /\ SameMessage(first, k.last)
    <3> HIDE DEF first, a1, forgot
    <3>1. Exchange(k, c, a1, b)
      BY <1>2, ReadBySink
    <3>2. Exchange(forgot, c, a1, b) /\ SinkHolds(forgot, c, a1, b, first)
      BY <2>2, <3>1, SinkJoins DEF forgot
    <3> QED
      BY <1>1, <2>0, <3>2 DEF SinkAt
  <2> QED
    BY <1>4, <1>11, <2>1, <2>2
<1> HIDE DEF first, second, a1
<1>12. CASE ~k.interrupting /\ first # NoMessage /\ first.req
  <2>1. l = Sink!HandleRequest(k, first, up)
    BY <1>5, <1>12
  <2>2. SinkAt(l, c, a1, b) /\ Stays(forgot, l, up) /\ Asked(forgot, l)
    <3>1. forgot = [k EXCEPT !.last = NoMessage]
      OBVIOUS
    <3>2. SinkAt(forgot, c, a1, b) /\ SinkHolds(forgot, c, a1, b \o forgot.out, first) /\ SocketOK(forgot)
      BY <1>8, <1>11, <1>12
    <3> HIDE DEF forgot
    <3> QED
      BY <1>12, <2>1, <3>1, <3>2, SinkHandlesRequest
  <2>3. Stays(k, l, up) /\ (Unheard(k, l) \/ Wanted(k, l))
    BY <1>8, <2>2, StaysTwice DEF Asked, Unheard, Wanted, Plays
  <2> QED
    BY <1>2, <1>7, <2>2, <2>3
<1>13. CASE ~k.interrupting /\ first # NoMessage /\ ~first.req /\ Sink!Handlers(k, first.cseq) = {}
  <2>1. l = k
    BY <1>5, <1>13
  <2> QED
    BY <1>2, <1>3, <1>6, <1>7, <2>1
<1>14. CASE ~k.interrupting /\ first # NoMessage /\ ~first.req /\ Sink!Handlers(k, first.cseq) # {}
  <2>1. SinkAt(t, c, a1, b) /\ Stays(forgot, t, up) /\ (Unheard(forgot, t) \/ Playing(forgot, t, c))
    BY <1>1, <1>8, <1>11, <1>14, SinkHandlesResponse
  <2>2. Stays(k, t, up) /\ (Unheard(k, t) \/ Playing(k, t, c))
    BY <1>8, <2>1, StaysTwice DEF Unheard, Playing, Plays
  <2>3. CASE second = NoMessage
    <3>1. l = t
      BY <1>5, <1>14, <2>3
    <3> QED
      BY <1>2, <1>7, <2>1, <2>2, <3>1
  <2>4. CASE second # NoMessage
    <3> DEFINE a2 == SubSeq(a1, 1 + 1, Len(a1))
               u == [t EXCEPT !.last = NoMessage]
    <3>1. l = Sink!HandleRequest(t, second, up)
      BY <1>5, <1>14, <2>4
    <3> HIDE DEF t
    <3>2. n >= 2 /\ a[2].part = "whole" /\ a[2].req /\ SameMessage(second, a[2])
      BY <1>4, <2>4
    <3>3. Queue(a1) /\ 1 \in 1..Len(a1) /\ a1[1] = a[2]
      BY <1>1, <1>2, <3>2 DEF Suffix
    <3>4. Suffix(a1, a2, 1) /\ Suffix(a2, r, (n - 1) - 1)
      <4>1. Suffix(a1, a2, 1)
        BY <3>3, Taken
      <4>2. n - 1 >= 1
        BY <1>1, <3>2
      <4> QED
        BY <1>2, <4>1, <4>2, RestTaken
    <3> HIDE DEF a2
    <3>5. Exchange(t, c, a2, b \o t.out) /\ SinkHolds(t, c, a2, b \o t.out, second)
      <4>1. Exchange(t, c, a1, b \o t.out)
        BY <2>1 DEF SinkAt
      <4> QED
        BY <3>2, <3>3, <3>4, <4>1, SinkTakes
    <3>6. Exchange(u, c, a2, b \o t.out) /\ SinkHolds(u, c, a2, b \o t.out, second)
      BY <3>5, SinkForgets
    <3>7. u.out = t.out /\ Stays(t, u, up) /\ u.creates = t.creates /\ u.told = t.told
      BY <2>2 DEF Stays, SinkRec, SinkFields
    <3>8. SocketOK(u) /\ Stays(k, u, up)
      BY <2>2, <3>7, SocketStays, StaysTwice
    <3>9. SinkAt(u, c, a2, b)
      BY <2>1, <3>6, <3>7 DEF SinkAt
    <3>10. second.req
      BY <3>2 DEF SameMessage
    <3>11. SinkAt(l, c, a2, b) /\ Stays(u, l, up) /\ Asked(u, l)
      <4>1. u = [t EXCEPT !.last = NoMessage]
        OBVIOUS
      <4>2. SinkHolds(u, c, a2, b \o u.out, second)
        BY <3>6, <3>7
      <4>3. SocketOK(u)
        BY <3>8
      <4> HIDE DEF u
      <4> QED
        BY <3>1, <3>9, <3>10, <4>1, <4>2, <4>3, SinkHandlesRequest
    <3>12. Stays(k, l, up)
      BY <3>8, <3>11, StaysTwice
    <3>13. Unheard(k, l) \/ Wanted(k, l) \/ Playing(k, l, c)
      BY <2>2, <3>7, <3>11 DEF Asked, Unheard, Wanted, Playing, Plays
    <3> QED
      BY <1>7, <3>4, <3>11, <3>12, <3>13
  <2> QED
    BY <2>3, <2>4
<1>15. \/ k.interrupting \/ (~k.interrupting /\ first = NoMessage)
       \/ ~k.interrupting /\ first # NoMessage /\ first.req
       \/ ~k.interrupting /\ first # NoMessage /\ ~first.req /\ Sink!Handlers(k, first.cseq) = {}
       \/ ~k.interrupting /\ first # NoMessage /\ ~first.req /\ Sink!Handlers(k, first.cseq) # {}
  OBVIOUS
<1> QED
  BY <1>9, <1>10, <1>12, <1>13, <1>14, <1>15

-----------------------------------------------------------------------------
(* What the helpers of the source leave as it is                           *)

\* Nothing of the exchange changes but the state and the number.
Rests(c, d) == /\ SourceRec(d)
               /\ d.last = c.last /\ d.creates = c.creates
               /\ "PLAYED" \in d.told <=> "PLAYED" \in c.told
               /\ d.server = c.server /\ d.socket = c.socket /\ d.peer = c.peer
               /\ d.timers = c.timers /\ d.timerId = c.timerId /\ d.prosumer = c.prosumer
Even(c, d) == Rests(c, d) /\ d.wfd = c.wfd /\ d.cseq = c.cseq

\* The keep-alive timer: there is one while the session plays, and none after TEARDOWN.
TimersOK(c) == /\ c.timers \in {0, 1} /\ (c.timerId <=> c.timers = 1)
               /\ c.timers = 1 => "PLAYED" \in c.told
               /\ c.prosumer \in {"INIT", "START", "STOP"}
               /\ c.prosumer = "STOP" => c.timers = 0

\* What a handler never touches.
Keeps(c, d) == d.server = c.server /\ d.socket = c.socket /\ d.peer = c.peer /\ TimersOK(d)

\* The state of the source is set, and nothing else.
Moved(u, d, state) == Rests(u, d) /\ d.cseq = u.cseq /\ d.wfd = state /\ d.out = u.out

\* A state without the token.
Settled(state) == state \notin {"M0", "M3", "M4"}

\* An assignment to wfdState_ does that.
LEMMA StateSet ==
    ASSUME NEW u, SourceRec(u), NEW state, NEW d, d = [u EXCEPT !.wfd = state]
    PROVE  Moved(u, d, state)
BY DEF Moved, Rests, SourceRec, SourceFields

\* One step after the other leaves it as both do.
LEMMA RestsTwice ==
    ASSUME NEW c, NEW d, NEW e, Rests(c, d), Rests(d, e)
    PROVE  Rests(c, e) /\ (Even(c, d) /\ Even(d, e) => Even(c, e))
BY DEF Rests, Even

\* What rests keeps its timers and sockets.
LEMMA RestsKeeps ==
    ASSUME NEW c, NEW d, Rests(c, d), TimersOK(c)
    PROVE  Keeps(c, d) /\ TimersOK(d)
BY DEF Rests, TimersOK, Keeps

\* What is even is calmer.
LEMMA EvenIsCalmer ==
    ASSUME NEW c, NEW d, Even(c, d), c.cseq \in Nat
    PROVE  Calmer(c, d)
BY DEF Even, Rests, Calmer

\* A notice to the agent, other than that it plays.
LEMMA SourceNotifies ==
    ASSUME NEW s, SourceRec(s), NEW what, what # "PLAYED", NEW d, d = Source!NotifyAgent(s, what)
    PROVE  Even(s, d) /\ d.out = s.out
BY DEF Source!NotifyAgent, SourceRec, SourceFields, Even, Rests

\* Send puts the message behind what was sent, or reports an error.
LEMMA SourceSends ==
    ASSUME NEW s, SourceRec(s), NEW m, NEW up \in BOOLEAN, NEW d, d = Source!Send(s, m, up)
    PROVE  Even(s, d) /\ (up => d.out = Append(s.out, m)) /\ (~up => d.out = s.out)
<1>1. CASE up
  BY <1>1 DEF Source!Send, SourceRec, SourceFields, Even, Rests
<1>2. CASE ~up
  BY <1>2, SourceNotifies DEF Source!Send, Source!NotifyServiceError
<1> QED
  BY <1>1, <1>2

\* A request of the exchange: it takes a number, and the state moves on if it went out.
Requested(s, d, m, state, up) ==
    \/ d = s /\ ~Source!Serving(s)
    \/ Source!Serving(s) /\ ~up /\ Rests(s, d) /\ d.wfd = s.wfd /\ d.cseq = m.cseq /\ d.out = s.out
    \/ Source!Serving(s) /\ up /\ Rests(s, d) /\ d.wfd = state /\ d.cseq = m.cseq /\ d.out = Append(s.out, m)

\* SendRequest.
LEMMA SourceRequests ==
    ASSUME NEW s, SourceRec(s), NEW m, NEW state, NEW up \in BOOLEAN, NEW d, d = Source!SendRequest(s, m, state, up)
    PROVE  Requested(s, d, m, state, up)
<1> DEFINE r == [s EXCEPT !.cseq = m.cseq]
           t == Source!Send(r, m, up)
           u == [t EXCEPT !.wfd = state]
<1>1. d = IF ~Source!Serving(s) THEN s ELSE IF up THEN u ELSE t
  BY DEF Source!SendRequest
<1>2. SourceRec(r) /\ Rests(s, r) /\ r.wfd = s.wfd /\ r.cseq = m.cseq /\ r.out = s.out
  BY DEF SourceRec, SourceFields, Rests
<1> HIDE DEF r
<1>3. Even(r, t) /\ (up => t.out = Append(r.out, m)) /\ (~up => t.out = r.out)
  BY <1>2, SourceSends
<1> HIDE DEF t
<1>4. Rests(s, t) /\ t.wfd = s.wfd /\ t.cseq = m.cseq
  BY <1>2, <1>3, RestsTwice DEF Even
<1>5. Rests(s, u) /\ u.wfd = state /\ u.cseq = m.cseq /\ u.out = t.out
  BY <1>4 DEF Rests, SourceRec, SourceFields
<1> HIDE DEF u
<1> QED
  BY <1>1, <1>2, <1>3, <1>4, <1>5 DEF Requested

-----------------------------------------------------------------------------
(* The handlers of the source.  What it has sent so far stands behind t.   *)

SourceAt(k, c, b, t) == Queue(t) /\ Queue(c.out) /\ Exchange(k, c, t \o c.out, b)
SourceNoToken(k, c, b, t) == NoToken(k, c, t \o c.out, b)

\* What a handler tells the agent: nothing that matters, that it wants a producer, or that it plays.
Quiet(c, d) == d.creates = c.creates /\ ("PLAYED" \in d.told <=> "PLAYED" \in c.told)
Produces(k, c, d) == /\ k.creates = 1 /\ c.creates = 0 /\ d.creates = 1
                     /\ "PLAYED" \in d.told <=> "PLAYED" \in c.told
SourceTold(k, c, d) == /\ BothAsked(k, c) /\ d.creates = c.creates
                       /\ "PLAYED" \notin c.told /\ "PLAYED" \in d.told

\* The source calms down without a word.
LEMMA SourceChanges ==
    ASSUME NEW k, NEW c, NEW b, NEW t, SourceAt(k, c, b, t), NEW d, Calmer(c, d), d.out = c.out
    PROVE  SourceAt(k, d, b, t)
BY SourceGivesUp DEF SourceAt

\* It then has no token if it had none.
LEMMA SourceStillNoToken ==
    ASSUME NEW k, NEW c, NEW b, NEW t, SourceNoToken(k, c, b, t), NEW d, Calmer(c, d), d.out = c.out
    PROVE  SourceNoToken(k, d, b, t)
BY DEF Calmer, SourceNoToken, NoToken, SourceToken

\* A response goes out or not.
LEMMA SourceReplies ==
    ASSUME NEW k, NEW c, NEW b, NEW t, SourceAt(k, c, b, t), NEW d, Calmer(c, d),
           NEW m, Says(m, FALSE, "OK", "none", m.cseq), m.cseq <= k.cseq,
           \A h \in k.handlers : h[2] = "M7" /\ h[1] = m.cseq => "PLAYED" \in c.told,
           d.out = c.out \/ d.out = Append(c.out, m)
    PROVE  SourceAt(k, d, b, t) /\ (SourceNoToken(k, c, b, t) => SourceNoToken(k, d, b, t))
<1>1. CASE d.out = c.out
  BY <1>1, SourceChanges, SourceStillNoToken
<1>2. CASE d.out = Append(c.out, m)
  <2>1. m.part \in Parts /\ IsMessage(m) /\ ~m.req /\ m.part = "whole"
    BY DEF Says, Parts
  <2>2. Queue(d.out) /\ Appended(t \o c.out, m, t \o d.out)
    BY <1>2, <2>1, SentBehind DEF SourceAt
  <2>3. Exchange(k, c, t \o d.out, b)
    BY <2>1, <2>2, SourceAnswers DEF SourceAt
  <2>4. Exchange(k, d, t \o d.out, b)
    BY <2>3, SourceGivesUp
  <2>5. ~IsOptions(m) /\ ~IsM5(m)
    BY <2>1 DEF IsOptions, IsM5
  <2>6. SourceNoToken(k, c, b, t) => SourceNoToken(k, d, b, t)
    BY <2>2, <2>5, AppendedEffect DEF Calmer, SourceNoToken, NoToken, SourceToken
  <2> QED
    BY <2>2, <2>4, <2>6 DEF SourceAt
<1> QED
  BY <1>1, <1>2

\* A response that goes out changes nothing else.
LEMMA SourceRepliesEven ==
    ASSUME NEW k, NEW c, NEW b, NEW t, SourceAt(k, c, b, t), TimersOK(c), NEW s, Even(c, s), s.out = c.out,
           NEW m, Says(m, FALSE, "OK", "none", m.cseq), m.cseq <= k.cseq,
           \A h \in k.handlers : h[2] = "M7" /\ h[1] = m.cseq => "PLAYED" \in c.told,
           NEW up \in BOOLEAN, NEW d, d = Source!Send(s, m, up)
    PROVE  /\ SourceAt(k, d, b, t) /\ Keeps(c, d) /\ Quiet(c, d)
           /\ SourceNoToken(k, c, b, t) => SourceNoToken(k, d, b, t)
           /\ Even(c, d)
<1>1. SourceRec(s) /\ c.cseq \in Nat
  BY DEF Even, Rests, SourceAt, Exchange, Numbers
<1>2. Even(s, d) /\ (d.out = s.out \/ d.out = Append(s.out, m))
  BY <1>1, SourceSends
<1>3. Even(c, d) /\ (d.out = c.out \/ d.out = Append(c.out, m))
  BY <1>2, RestsTwice DEF Even
<1>4. Calmer(c, d)
  BY <1>1, <1>3, EvenIsCalmer
<1>5. SourceAt(k, d, b, t) /\ (SourceNoToken(k, c, b, t) => SourceNoToken(k, d, b, t))
  BY <1>3, <1>4, SourceReplies
<1>6. Keeps(c, d) /\ Quiet(c, d)
  BY <1>3, RestsKeeps DEF Even, Rests, Quiet
<1> QED
  BY <1>3, <1>5, <1>6

\* Then the state moves on.
LEMMA SourceRepliesMoves ==
    ASSUME NEW k, NEW c, NEW b, NEW t, SourceAt(k, c, b, t), TimersOK(c), NEW s, Even(c, s), s.out = c.out,
           NEW m, Says(m, FALSE, "OK", "none", m.cseq), m.cseq <= k.cseq,
           \A h \in k.handlers : h[2] = "M7" /\ h[1] = m.cseq => "PLAYED" \in c.told,
           NEW up \in BOOLEAN, NEW u, u = Source!Send(s, m, up),
           NEW state, Settled(state), NEW d, Moved(u, d, state)
    PROVE  /\ SourceAt(k, d, b, t) /\ Keeps(c, d) /\ Quiet(c, d)
           /\ SourceNoToken(k, c, b, t) => SourceNoToken(k, d, b, t)
           /\ Rests(c, d) /\ d.cseq = c.cseq /\ d.wfd = state /\ d.out = u.out
<1>1. SourceAt(k, u, b, t) /\ Even(c, u) /\ (SourceNoToken(k, c, b, t) => SourceNoToken(k, u, b, t))
  BY SourceRepliesEven
<1>2. Rests(u, d) /\ d.cseq = u.cseq /\ d.wfd = state /\ d.out = u.out /\ u.cseq \in Nat
  BY <1>1 DEF Moved, SourceAt, Exchange, Numbers, Even
<1>3. Calmer(u, d)
  BY <1>2 DEF Rests, Calmer, Settled
<1>4. SourceAt(k, d, b, t) /\ (SourceNoToken(k, u, b, t) => SourceNoToken(k, d, b, t))
  BY <1>1, <1>2, <1>3, SourceChanges, SourceStillNoToken
<1>5. Rests(c, d) /\ d.cseq = c.cseq
  BY <1>1, <1>2, RestsTwice DEF Even
<1>6. Keeps(c, d) /\ Quiet(c, d)
  BY <1>5, RestsKeeps DEF Rests, Quiet
<1> QED
  BY <1>1, <1>2, <1>4, <1>5, <1>6

\* HandleOptionRequest: M2's response, and M3.
LEMMA HandleM2 ==
    ASSUME NEW k, NEW c, NEW b, NEW t, SourceAt(k, c, b, t), TimersOK(c), NEW m, IsOptions(m),
           SourceHolds(k, c, t \o c.out, b, m), NEW up \in BOOLEAN, NEW d, d = Source!HandleOptionRequest(c, m, up)
    PROVE  SourceAt(k, d, b, t) /\ Keeps(c, d) /\ Quiet(c, d)
<1> DEFINE s == Source!SendM2Response(c, m.cseq, up)
           p == Source!M2Response(m.cseq)
           u == Source!Send(c, p, up)
           n == s.cseq + 1
           q == Source!M3Request(n)
<1>1. d = IF Source!Serving(c) /\ up THEN Source!SendRequest(s, q, "M3", up) ELSE s
  BY DEF Source!HandleOptionRequest, Source!SendM3Request
<1>2. s = IF ~Source!Serving(c) THEN c ELSE IF up THEN [u EXCEPT !.wfd = "M2"] ELSE u
  BY DEF Source!SendM2Response
<1>3. Even(c, c) /\ SourceRec(c) /\ c.cseq \in Nat /\ Keeps(c, c) /\ Quiet(c, c) /\ k.cseq \in Nat
  BY DEF SourceAt, Exchange, Even, Rests, Numbers, Keeps, Quiet
<1>4. /\ m.cseq \in Nat /\ m.cseq <= k.cseq /\ NoM4(k, c, t \o c.out) /\ SourceNoToken(k, c, b, t)
      /\ \A h \in k.handlers : h[2] = "M7" /\ h[1] = m.cseq => "PLAYED" \in c.told
  BY DEF SourceHolds, IsMessage, IsOptions, IsPlay, SourceNoToken
<1>5. Says(p, FALSE, "OK", "none", m.cseq)
  BY <1>4, SourceMessages
<1>6. /\ Says(p, FALSE, "OK", "none", p.cseq) /\ p.cseq <= k.cseq
      /\ \A h \in k.handlers : h[2] = "M7" /\ h[1] = p.cseq => "PLAYED" \in c.told
  BY <1>4, <1>5 DEF Says
<1> HIDE DEF p
<1> DEFINE v == [u EXCEPT !.wfd = "M2"]
<1>7. /\ SourceAt(k, u, b, t) /\ Keeps(c, u) /\ Quiet(c, u) /\ Even(c, u) /\ SourceNoToken(k, u, b, t)
      /\ up => u.out = Append(c.out, p)
  <2>1. u = Source!Send(c, p, up)
    OBVIOUS
  <2> HIDE DEF u
  <2>2. (up => u.out = Append(c.out, p)) /\ (~up => u.out = c.out)
    BY <1>3, <2>1, SourceSends
  <2> QED
    BY <1>3, <1>4, <1>6, <2>1, <2>2, SourceRepliesEven
<1>8. /\ SourceAt(k, v, b, t) /\ Keeps(c, v) /\ Quiet(c, v) /\ SourceNoToken(k, v, b, t)
      /\ Rests(c, v) /\ v.cseq = c.cseq /\ v.wfd = "M2" /\ v.out = u.out
  <2>1. u = Source!Send(c, p, up)
    OBVIOUS
  <2> HIDE DEF u
  <2>2. Moved(u, v, "M2") /\ Settled("M2")
    BY <1>7, StateSet DEF Even, Rests, Settled
  <2> HIDE DEF v
  <2> QED
    <3>1. /\ SourceAt(k, v, b, t) /\ Keeps(c, v) /\ Quiet(c, v)
          /\ SourceNoToken(k, c, b, t) => SourceNoToken(k, v, b, t)
          /\ Rests(c, v) /\ v.cseq = c.cseq
      <4>1. SourceAt(k, v, b, t) /\ Keeps(c, v)
        BY <1>3, <1>6, <2>1, <2>2, SourceRepliesMoves
      <4>2. Quiet(c, v)
        BY <1>3, <1>6, <2>1, <2>2, SourceRepliesMoves
      <4>3. SourceNoToken(k, v, b, t)
        <5>1. Calmer(u, v)
          BY <1>3, <1>7, <2>2 DEF Even, Moved, Rests, Calmer, Settled
        <5> QED
          BY <1>7, <2>2, <5>1, SourceStillNoToken DEF Moved
      <4>4. Rests(c, v) /\ v.cseq = c.cseq
        BY <1>7, <2>2, RestsTwice DEF Even, Moved
      <4> QED
        BY <4>1, <4>2, <4>3, <4>4
    <3> QED
      BY <1>4, <2>2, <3>1 DEF Moved
<1> HIDE DEF u, v
<1>9. CASE ~Source!Serving(c) \/ ~up
  <2>1. d = c \/ d = u
    BY <1>1, <1>2, <1>9
  <2> QED
    BY <1>3, <1>7, <2>1
<1>10. CASE Source!Serving(c) /\ up
  <2>1. s = v /\ d = Source!SendRequest(s, q, "M3", up)
    BY <1>1, <1>2, <1>10 DEF v
  <2> HIDE DEF s
  <2>2. SourceAt(k, s, b, t) /\ Keeps(c, s) /\ Quiet(c, s) /\ SourceNoToken(k, s, b, t)
        /\ Rests(c, s) /\ s.cseq = c.cseq /\ s.wfd = "M2"
    BY <1>8, <2>1
  <2>3. s.out = Append(c.out, p)
    BY <1>7, <1>8, <1>10, <2>1
  <2>4. SourceRec(s) /\ Source!Serving(s) /\ n \in Nat /\ n = s.cseq + 1 /\ s.cseq \in Nat
    <3>1. SourceRec(s) /\ s.server = c.server /\ s.cseq \in Nat
      BY <1>3, <2>2 DEF Rests
    <3> QED
      BY <1>10, <3>1 DEF Source!Serving
  <2>5. NoM4(k, s, t \o s.out)
    <3>1. p.part \in Parts /\ IsMessage(p) /\ ~IsM4(p)
      BY <1>6 DEF Says, Parts, IsM4
    <3>2. Appended(t \o c.out, p, t \o s.out)
      BY <2>3, <3>1, SentBehind DEF SourceAt
    <3> QED
      BY <1>4, <2>2, <3>1, <3>2, AppendedEffect DEF NoM4, Rests
  <2>6. Says(q, TRUE, "GET_PARAMETER", "query", n)
    BY <2>4, SourceMessages
  <2> HIDE DEF q, n
  <2>7. Rests(s, d) /\ d.wfd = "M3" /\ d.cseq = n /\ d.out = Append(s.out, q)
    <3>1. Requested(s, d, q, "M3", up)
      BY <2>1, <2>4, SourceRequests
    <3>2. q.cseq = n
      BY <2>6 DEF Says
    <3> QED
      BY <1>10, <2>4, <3>1, <3>2 DEF Requested
  <2> DEFINE e == [s EXCEPT !.cseq = n]
  <2>8. SourceRec(e) /\ Rests(s, e) /\ e.cseq = n /\ e.wfd = "M2" /\ e.out = s.out /\ e.creates = s.creates
    BY <2>2, <2>4 DEF SourceRec, SourceFields, Rests
  <2> HIDE DEF e
  <2>9. Calmer(s, e)
    BY <2>2, <2>4, <2>8 DEF Rests, Calmer
  <2>10. Exchange(k, e, t \o s.out, b) /\ NoToken(k, e, t \o s.out, b)
    BY <2>2, <2>8, <2>9, SourceGivesUp, SourceStillNoToken DEF SourceAt, SourceNoToken
  <2>11. q.part \in Parts /\ IsMessage(q) /\ ~IsM4(q) /\ ~IsOptions(q) /\ ~IsM5(q) /\ q.part = "whole" /\ q.req
         /\ q.cseq <= e.cseq /\ q.body = "query" /\ q.method = "GET_PARAMETER"
    BY <2>4, <2>6, <2>8 DEF Says, Parts, IsM4, IsM5, IsOptions
  <2>12. Queue(d.out) /\ Appended(t \o s.out, q, t \o d.out)
    BY <2>2, <2>7, <2>11, SentBehind DEF SourceAt
  <2>13. Exchange(k, e, t \o d.out, b)
    BY <2>8, <2>10, <2>11, <2>12, SourceAsks DEF TokenToSink
  <2>14. NoToken(k, e, t \o d.out, b) /\ NoM4(k, e, t \o d.out)
    <3>1. /\ HasOptions(t \o d.out) => HasOptions(t \o s.out)
          /\ HasM5(t \o d.out) => HasM5(t \o s.out)
          /\ HasM4(t \o d.out) => HasM4(t \o s.out)
      BY <2>11, <2>12, AppendedEffect
    <3> QED
      BY <2>5, <2>8, <2>10, <3>1 DEF NoToken, NoM4
  <2>15. SourceRec(d) /\ d.wfd = "M3" /\ d.cseq = e.cseq /\ d.last = e.last /\ d.creates = e.creates
         /\ ("PLAYED" \in d.told <=> "PLAYED" \in e.told)
    BY <2>7, <2>8 DEF Rests
  <2>16. Exchange(k, d, t \o d.out, b)
    BY <2>13, <2>14, <2>15, SourceAwaitsM3
  <2>17. Rests(c, d)
    BY <2>2, <2>7, RestsTwice
  <2>18. Keeps(c, d) /\ Quiet(c, d)
    BY <2>17, RestsKeeps DEF Rests, Quiet
  <2> QED
    BY <2>2, <2>12, <2>16, <2>18 DEF SourceAt
<1> QED
  BY <1>9, <1>10

\* A request that is answered with nothing more to do, or SETUP, after which the state moves on.
LEMMA SourceAnswersRequest ==
    ASSUME NEW k, NEW c, NEW b, NEW t, SourceAt(k, c, b, t), TimersOK(c), NEW m, m.req, ~IsPlay(m),
           SourceHolds(k, c, t \o c.out, b, m), NEW up \in BOOLEAN, NEW s, Even(c, s), s.out = c.out,
           NEW d, d \in {s, Source!SendCommonResponse(s, m.cseq, up), Source!SendM6Response(s, m.cseq, up)}
    PROVE  SourceAt(k, d, b, t) /\ Keeps(c, d) /\ Quiet(c, d)
<1> DEFINE p == Source!WithSession(Source!Response(m.cseq), Source!sessionID)
           p6 == Source!M6Response(m.cseq, Source!sessionID)
           u == Source!Send(s, p, up)
           u6 == Source!Send(s, p6, up)
<1>1. d \in {s, u, [u6 EXCEPT !.wfd = "M7_WAIT"]}
  BY DEF Source!SendCommonResponse, Source!SendM6Response
<1>2. /\ m.cseq \in Nat /\ m.cseq <= k.cseq
      /\ \A h \in k.handlers : h[2] = "M7" /\ h[1] = m.cseq => "PLAYED" \in c.told
  BY DEF SourceHolds, IsMessage
<1>3. Says(p, FALSE, "OK", "none", m.cseq) /\ Says(p6, FALSE, "OK", "none", m.cseq)
  BY <1>2, SourceMessages
<1>4. /\ Says(p, FALSE, "OK", "none", p.cseq) /\ p.cseq <= k.cseq
      /\ Says(p6, FALSE, "OK", "none", p6.cseq) /\ p6.cseq <= k.cseq
      /\ \A h \in k.handlers : h[2] = "M7" /\ h[1] = p.cseq => "PLAYED" \in c.told
      /\ \A h \in k.handlers : h[2] = "M7" /\ h[1] = p6.cseq => "PLAYED" \in c.told
  BY <1>2, <1>3 DEF Says
<1> HIDE DEF p, p6
<1>5. CASE d = s
  <2>1. Calmer(c, s) /\ Keeps(c, s) /\ Quiet(c, s)
    BY EvenIsCalmer, RestsKeeps DEF SourceAt, Exchange, Numbers, Even, Rests, Quiet
  <2> QED
    BY <1>5, <2>1, SourceChanges
<1>6. CASE d = u
  BY <1>2, <1>4, <1>6, SourceRepliesEven
<1>7. CASE d = [u6 EXCEPT !.wfd = "M7_WAIT"]
  <2>1. u6 = Source!Send(s, p6, up)
    OBVIOUS
  <2> HIDE DEF u6
  <2>2. SourceRec(u6)
    BY <2>1, SourceSends DEF Even, Rests
  <2>3. Moved(u6, d, "M7_WAIT") /\ Settled("M7_WAIT")
    BY <1>7, <2>2, StateSet DEF Settled
  <2> QED
    BY <1>2, <1>4, <2>1, <2>3, SourceRepliesMoves
<1> QED
  BY <1>1, <1>5, <1>6, <1>7

\* The source changes the state of its producer and its timer, and the exchange does not notice.
Turns(c, x) == /\ SourceRec(x)
               /\ x.last = c.last /\ x.creates = c.creates /\ x.wfd = c.wfd /\ x.cseq = c.cseq
               /\ "PLAYED" \in x.told <=> "PLAYED" \in c.told
               /\ x.server = c.server /\ x.socket = c.socket /\ x.peer = c.peer /\ x.out = c.out
               /\ TimersOK(x)

\* What it holds it still holds.
LEMMA SourceTurns ==
    ASSUME NEW k, NEW c, NEW b, NEW t, SourceAt(k, c, b, t), NEW m, SourceHolds(k, c, t \o c.out, b, m),
           NEW x, Turns(c, x)
    PROVE  SourceAt(k, x, b, t) /\ SourceHolds(k, x, t \o x.out, b, m)
<1>1. c.cseq \in Nat
  BY DEF SourceAt, Exchange, Numbers
<1>2. Calmer(c, x)
  BY <1>1 DEF Turns, Calmer
<1>3. SourceAt(k, x, b, t)
  BY <1>2, SourceChanges DEF Turns
<1>4. NoToken(k, c, t \o c.out, b) => NoToken(k, x, t \o x.out, b)
  BY DEF Turns, NoToken, SourceToken
<1>5. /\ NoM4(k, c, t \o c.out) => NoM4(k, x, t \o x.out)
      /\ BothAsked(k, c) => BothAsked(k, x)
  BY DEF Turns, NoM4, BothAsked
<1>6. SourceHolds(k, x, t \o x.out, b, m)
  BY <1>4, <1>5 DEF Turns, SourceHolds
<1> QED
  BY <1>3, <1>6

\* HandlePauseRequest and HandleTeardownRequest: TEARDOWN unregisters the timer.
LEMMA SourcePauses ==
    ASSUME NEW k, NEW c, NEW b, NEW t, SourceAt(k, c, b, t), TimersOK(c), NEW m, m.req, ~IsPlay(m),
           SourceHolds(k, c, t \o c.out, b, m), NEW up \in BOOLEAN,
           NEW d, d = Source!HandlePauseRequest(c, m, up) \/ d = Source!HandleTeardownRequest(c, m, up)
    PROVE  SourceAt(k, d, b, t) /\ Keeps(c, d) /\ Quiet(c, d)
<1> DEFINE x == [c EXCEPT !.prosumer = "START"]
           y == Source!NotifyAgent(x, "PAUSE")
           u == Source!NotifyAgent(c, "DESTROY")
           v == [u EXCEPT !.prosumer = "STOP"]
           w == Source!UnsetKeepAliveTimer(v)
<1>1. d = Source!SendCommonResponse(y, m.cseq, up) \/ d = Source!SendCommonResponse(w, m.cseq, up)
  BY DEF Source!HandlePauseRequest, Source!HandleTeardownRequest
<1>2. SourceRec(c)
  BY DEF SourceAt, Exchange
<1>3. Turns(c, x)
  BY <1>2 DEF SourceRec, SourceFields, Turns, TimersOK
<1>4. Turns(c, w)
  <2>1. Even(c, u) /\ u.out = c.out
    BY <1>2, SourceNotifies
  <2> HIDE DEF u
  <2>2. /\ SourceRec(w) /\ w.last = u.last /\ w.creates = u.creates /\ w.wfd = u.wfd /\ w.cseq = u.cseq
        /\ w.told = u.told /\ w.server = u.server /\ w.socket = u.socket /\ w.peer = u.peer /\ w.out = u.out
        /\ w.prosumer = "STOP" /\ w.timerId = FALSE
        /\ w.timers = IF u.timerId THEN u.timers - 1 ELSE u.timers
    BY <2>1 DEF Even, Rests, SourceRec, SourceFields, Source!UnsetKeepAliveTimer
  <2> HIDE DEF w
  <2>3. w.timers = 0 /\ TimersOK(w)
    BY <2>1, <2>2 DEF Even, Rests, TimersOK
  <2> QED
    BY <2>1, <2>2, <2>3 DEF Even, Rests, Turns
<1>5. ASSUME NEW z, Turns(c, z), NEW s, Even(z, s), s.out = z.out, d = Source!SendCommonResponse(s, m.cseq, up)
      PROVE  SourceAt(k, d, b, t) /\ Keeps(c, d) /\ Quiet(c, d)
  <2>1. SourceAt(k, z, b, t) /\ SourceHolds(k, z, t \o z.out, b, m) /\ TimersOK(z)
    BY <1>5, SourceTurns DEF Turns
  <2>2. SourceAt(k, d, b, t) /\ Keeps(z, d) /\ Quiet(z, d)
    BY <1>5, <2>1, SourceAnswersRequest
  <2> QED
    BY <1>5, <2>2 DEF Keeps, Quiet, Turns
<1>6. Even(x, y) /\ y.out = x.out
  BY <1>3, SourceNotifies DEF Turns
<1>7. Even(w, w)
  BY <1>4 DEF Turns, Even, Rests
<1> HIDE DEF x, y, w
<1> QED
  BY <1>1, <1>3, <1>4, <1>5, <1>6, <1>7

\* HandlePlayRequest: the agent is told that the source plays, once, and then the sink is.
LEMMA HandlePlay ==
    ASSUME NEW k, NEW c, NEW b, NEW t, SourceAt(k, c, b, t), TimersOK(c), NEW m, IsPlay(m),
           SourceHolds(k, c, t \o c.out, b, m), NEW up \in BOOLEAN, NEW d, d = Source!HandlePlayRequest(c, m, up)
    PROVE  SourceAt(k, d, b, t) /\ Keeps(c, d) /\ SourceTold(k, c, d)
<1> DEFINE w == Source!SetKeepAliveTimer(c)
           x == [w EXCEPT !.prosumer = "START"]
           y == Source!NotifyAgent(x, "PLAYED")
           p == Source!M7Response(m.cseq, Source!sessionID)
           u == Source!Send(y, p, up)
           v == [u EXCEPT !.wfd = "M7"]
<1>1. d = y \/ d = v
  BY DEF Source!HandlePlayRequest, Source!SendM7Response, TimersOK
<1>2. SourceRec(c) /\ m.cseq \in Nat /\ m.cseq <= k.cseq /\ SourceNoToken(k, c, b, t) /\ BothAsked(k, c)
  BY DEF SourceAt, Exchange, SourceHolds, IsMessage, IsPlay, SourceNoToken
<1>3. "PLAYED" \notin c.told /\ c.timers = 0
  BY <1>2 DEF SourceNoToken, NoToken, SourceToken, TimersOK
<1>4. /\ SourceRec(y) /\ y.wfd = c.wfd /\ y.cseq = c.cseq /\ y.last = c.last /\ y.creates = c.creates
      /\ y.told = c.told \cup {"PLAYED"} /\ y.out = c.out /\ y.server = c.server /\ y.socket = c.socket
      /\ y.peer = c.peer /\ y.timers = c.timers + 1 /\ y.timerId = TRUE /\ y.prosumer = "START"
  BY <1>2 DEF SourceRec, SourceFields, Source!SetKeepAliveTimer, Source!NotifyAgent
<1> HIDE DEF y
<1>5. "PLAYED" \in y.told
  BY <1>4
<1>6. SourceAt(k, y, b, t)
  <2>1. Exchange(k, c, t \o c.out, b) /\ NoToken(k, c, t \o c.out, b)
    BY <1>2 DEF SourceAt, SourceNoToken
  <2>2. Exchange(k, y, t \o c.out, b)
    BY <1>4, <1>5, <2>1, SourcePlayed
  <2> QED
    BY <1>4, <2>2 DEF SourceAt
<1>7. TimersOK(y)
  BY <1>3, <1>4, <1>5 DEF TimersOK
<1>8. /\ Says(p, FALSE, "OK", "none", p.cseq) /\ p.cseq <= k.cseq
      /\ \A h \in k.handlers : h[2] = "M7" /\ h[1] = p.cseq => "PLAYED" \in y.told
  <2>1. Says(p, FALSE, "OK", "none", m.cseq)
    BY <1>2, SourceMessages
  <2> QED
    BY <1>2, <1>5, <2>1 DEF Says
<1> HIDE DEF p
<1>9. Even(y, y)
  BY <1>4 DEF Even, Rests
<1>10. /\ SourceAt(k, v, b, t) /\ Keeps(y, v) /\ Quiet(y, v)
  <2>1. u = Source!Send(y, p, up)
    OBVIOUS
  <2> HIDE DEF u
  <2>2. SourceRec(u)
    BY <1>4, <2>1, SourceSends DEF Even, Rests
  <2>3. Moved(u, v, "M7") /\ Settled("M7")
    BY <2>2, StateSet DEF Settled
  <2> HIDE DEF v
  <2>4. SourceAt(k, v, b, t) /\ Keeps(y, v)
    BY <1>6, <1>7, <1>8, <1>9, <2>1, <2>3, SourceRepliesMoves
  <2>5. Quiet(y, v)
    BY <1>6, <1>7, <1>8, <1>9, <2>1, <2>3, SourceRepliesMoves
  <2> QED
    BY <2>4, <2>5
<1> HIDE DEF u, v
<1> QED
  BY <1>1, <1>2, <1>3, <1>4, <1>5, <1>6, <1>7, <1>10 DEF Keeps, Quiet, SourceTold

\* A request that is not PLAY brings nothing that matters to the agent; PLAY tells that the source plays.
SourceHeard(k, c, d, m) == IF IsPlay(m) THEN SourceTold(k, c, d) ELSE Quiet(c, d)

\* HandleRequest of the source.
LEMMA SourceHandlesRequest ==
    ASSUME NEW j, NEW k, NEW c, c = [j EXCEPT !.last = NoMessage], NEW b, NEW t, SourceAt(k, c, b, t), TimersOK(c),
           NEW m, m.req, SourceHolds(k, c, t \o c.out, b, m), NEW up \in BOOLEAN,
           NEW d, d = Source!HandleRequest(j, m, up)
    PROVE  SourceAt(k, d, b, t) /\ Keeps(c, d) /\ SourceHeard(k, c, d, m)
<1>1. c = [j EXCEPT !.last = Source!NoMessage]
  BY NoMessageIs
<1>2. SourceRec(c) /\ Even(c, c)
  BY DEF SourceAt, Exchange, Even, Rests
<1>3. CASE m.method = "PLAY"
  <2>1. d = Source!HandlePlayRequest(c, m, up) /\ IsPlay(m)
    BY <1>1, <1>3 DEF Source!HandleRequest, IsPlay
  <2> QED
    BY <2>1, HandlePlay DEF SourceHeard
<1>4. CASE m.method # "PLAY"
  <2>1. ~IsPlay(m)
    BY <1>4 DEF IsPlay
  <2> SUFFICES SourceAt(k, d, b, t) /\ Keeps(c, d) /\ Quiet(c, d)
    BY <2>1 DEF SourceHeard
  <2>2. CASE m.method = "OPTIONS"
    <3>1. d = Source!HandleOptionRequest(c, m, up) /\ IsOptions(m)
      BY <1>1, <2>2 DEF Source!HandleRequest, IsOptions
    <3> QED
      BY <3>1, HandleM2
  <2>3. CASE m.method \in {"PAUSE", "TEARDOWN"}
    <3>1. d = Source!HandlePauseRequest(c, m, up) \/ d = Source!HandleTeardownRequest(c, m, up)
      BY <1>1, <2>3 DEF Source!HandleRequest
    <3> QED
      BY <2>1, <3>1, SourcePauses
  <2>4. CASE m.method \notin {"OPTIONS", "PAUSE", "TEARDOWN"}
    <3>1. d \in {c, Source!SendCommonResponse(c, m.cseq, up), Source!SendM6Response(c, m.cseq, up)}
      BY <1>1, <1>4, <2>4 DEF Source!HandleRequest, Source!HandleSetupRequest, Source!HandleIDRRequest
    <3> QED
      <4>1. ASSUME NEW s, Even(c, s), s.out = c.out,
                   d \in {s, Source!SendCommonResponse(s, m.cseq, up), Source!SendM6Response(s, m.cseq, up)}
            PROVE  SourceAt(k, d, b, t) /\ Keeps(c, d) /\ Quiet(c, d)
        BY ONLY SourceAt(k, c, b, t), TimersOK(c), m.req, SourceHolds(k, c, t \o c.out, b, m), up \in BOOLEAN, <2>1, <4>1,
                SourceAnswersRequest
      <4> QED
        BY <1>2, <3>1, <4>1
  <2> QED
    BY <2>2, <2>3, <2>4
<1> QED
  BY <1>3, <1>4

\* What a response brings: nothing, or a producer is wanted and M5 goes out.
SourceGoesOn(k, c, d, t) == Quiet(c, d) \/ (Produces(k, c, d) /\ HasM5(t \o d.out))

\* A request that could not be sent has used its number up.
LEMMA NothingSent ==
    ASSUME NEW k, NEW c, NEW b, NEW t, SourceAt(k, c, b, t), TimersOK(c), NEW d,
           d = c \/ (Rests(c, d) /\ d.wfd = c.wfd /\ d.cseq = c.cseq + 1 /\ d.out = c.out)
    PROVE  SourceAt(k, d, b, t) /\ Keeps(c, d) /\ Quiet(c, d)
<1>1. CASE d = c
  BY <1>1 DEF Keeps, Quiet
<1>2. CASE Rests(c, d) /\ d.wfd = c.wfd /\ d.cseq = c.cseq + 1 /\ d.out = c.out
  <2>1. c.cseq \in Nat
    BY DEF SourceAt, Exchange, Numbers
  <2>2. Calmer(c, d)
    BY <1>2, <2>1 DEF Rests, Calmer
  <2>3. Keeps(c, d) /\ Quiet(c, d)
    BY <1>2, RestsKeeps DEF Rests, Quiet
  <2> QED
    BY <1>2, <2>2, <2>3, SourceChanges
<1> QED
  BY <1>1, <1>2

\* M4 is sent on the response to M3.
LEMMA SourceSendsM4 ==
    ASSUME NEW k, NEW c, NEW b, NEW t, SourceAt(k, c, b, t), TimersOK(c), c.wfd = "M3", NEW params,
           NEW up \in BOOLEAN,
           NEW d, d = Source!SendRequest(c, Source!M4Request(c.cseq + 1, params), "M4", up)
    PROVE  SourceAt(k, d, b, t) /\ Keeps(c, d) /\ Quiet(c, d)
<1> DEFINE q == Source!M4Request(c.cseq + 1, params)
<1>1. SourceRec(c) /\ c.cseq \in Nat /\ c.cseq + 1 \in Nat
  BY DEF SourceAt, Exchange, Numbers
<1>2. Says(q, TRUE, "SET_PARAMETER", "params", c.cseq + 1)
  BY <1>1, SourceMessages
<1>3. d = Source!SendRequest(c, q, "M4", up)
  OBVIOUS
<1> HIDE DEF q
<1>4. Requested(c, d, q, "M4", up)
  BY <1>1, <1>3, SourceRequests
<1>5. q.cseq = c.cseq + 1 /\ q.part \in Parts /\ q.part = "whole" /\ IsMessage(q) /\ IsM4(q)
  BY <1>2 DEF Says, Parts, IsM4
<1>6. CASE d = c \/ (Rests(c, d) /\ d.wfd = c.wfd /\ d.cseq = c.cseq + 1 /\ d.out = c.out)
  BY <1>6, NothingSent
<1>7. CASE Rests(c, d) /\ d.wfd = "M4" /\ d.cseq = c.cseq + 1 /\ d.out = Append(c.out, q)
  <2>1. Queue(d.out) /\ Appended(t \o c.out, q, t \o d.out)
    BY <1>5, <1>7, SentBehind DEF SourceAt
  <2>2. SourceRec(d) /\ d.last = c.last /\ d.creates = c.creates /\ ("PLAYED" \in d.told <=> "PLAYED" \in c.told)
    BY <1>7 DEF Rests
  <2>3. Exchange(k, c, t \o c.out, b)
    BY DEF SourceAt
  <2>4. Exchange(k, d, t \o d.out, b)
    BY <1>5, <1>7, <2>1, <2>2, <2>3, SourceAsksM4
  <2>5. Keeps(c, d) /\ Quiet(c, d)
    BY <1>7, RestsKeeps DEF Rests, Quiet
  <2> QED
    BY <2>1, <2>4, <2>5 DEF SourceAt
<1> QED
  BY <1>4, <1>5, <1>6, <1>7 DEF Requested

\* On the response to M4 the source sends M5 and wants a producer.
LEMMA SourceSendsM5 ==
    ASSUME NEW k, NEW c, NEW b, NEW t, SourceAt(k, c, b, t), TimersOK(c), c.wfd = "M4", k.creates = 1,
           NEW up \in BOOLEAN, NEW d, d = Source!HandleM4Response(c, up)
    PROVE  SourceAt(k, d, b, t) /\ Keeps(c, d) /\ SourceGoesOn(k, c, d, t)
<1> DEFINE q == Source!M5Request(c.cseq + 1)
           e == Source!SendRequest(c, q, "M5", up)
           g == [e EXCEPT !.creates = @ + 1]
<1>1. SourceRec(c) /\ c.cseq \in Nat /\ c.cseq + 1 \in Nat
  BY DEF SourceAt, Exchange, Numbers
<1>2. Says(q, TRUE, "SET_PARAMETER", "setup", c.cseq + 1)
  BY <1>1, SourceMessages
<1>3. d = IF Source!Serving(c) /\ up THEN g ELSE e
  BY DEF Source!HandleM4Response, Source!SendM5Request
<1> HIDE DEF q
<1>4. Requested(c, e, q, "M5", up)
  BY <1>1, SourceRequests
<1> HIDE DEF e
<1>5. /\ q.cseq = c.cseq + 1 /\ q.part \in Parts /\ q.part = "whole" /\ IsMessage(q) /\ q.req /\ IsM5(q)
      /\ ~IsM4(q) /\ ~IsOptions(q) /\ q.body = "setup" /\ q.method = "SET_PARAMETER"
  BY <1>2 DEF Says, Parts, IsM4, IsM5, IsOptions
<1>6. CASE d = e /\ (e = c \/ (Rests(c, e) /\ e.wfd = c.wfd /\ e.cseq = c.cseq + 1 /\ e.out = c.out))
  <2>1. SourceAt(k, d, b, t) /\ Keeps(c, d) /\ Quiet(c, d)
    BY <1>6, NothingSent
  <2> QED
    BY <2>1 DEF SourceGoesOn
<1>7. CASE d = g /\ Rests(c, e) /\ e.wfd = "M5" /\ e.cseq = c.cseq + 1 /\ e.out = Append(c.out, q)
  <2> DEFINE a == t \o c.out
             n == c.cseq + 1
             x == [c EXCEPT !.cseq = n, !.wfd = "M5"]
             y == [x EXCEPT !.creates = 1]
  <2>1. Exchange(k, c, a, b) /\ c.creates = 0 /\ Queue(a)
    BY DEF SourceAt, Exchange, Progress, AwaitsM4
  <2>2. ~HasOptions(a) /\ ~HasM5(a) /\ ~HasOptions(b) /\ ~HasPlay(b) /\ ~SinkToken(k) /\ "PLAYED" \notin c.told
    BY <2>1 DEF Exchange, OneToken, SourceToken
  <2>3. SourceRec(x) /\ x.cseq = n /\ x.wfd = "M5" /\ x.last = c.last /\ x.creates = 0 /\ x.told = c.told
    BY <1>1, <2>1 DEF SourceRec, SourceFields
  <2> HIDE DEF x
  <2>4. Calmer(c, x)
    BY <1>1, <2>1, <2>3 DEF Calmer
  <2> HIDE DEF a
  <2>5. Exchange(k, x, a, b) /\ ~Early(x, a, b)
    BY <2>1, <2>2, <2>3, <2>4, SourceGivesUp DEF Early
  <2>6. SourceRec(y) /\ y.cseq = n /\ y.wfd = "M5" /\ y.last = c.last /\ y.creates = 1 /\ y.told = c.told
    BY <2>3 DEF SourceRec, SourceFields
  <2> HIDE DEF y
  <2>7. Exchange(k, y, a, b)
    BY <2>3, <2>5, <2>6, ProducerAsked
  <2>8. NoToken(k, y, a, b) /\ BothAsked(k, y)
    BY <2>2, <2>6 DEF NoToken, SourceToken, BothAsked
  <2>9. Queue(e.out) /\ Appended(a, q, t \o e.out)
    BY <1>5, <1>7, SentBehind DEF SourceAt, a
  <2>10. q.cseq <= y.cseq
    BY <1>1, <1>5, <2>6
  <2>11. Exchange(k, y, t \o e.out, b)
    BY <1>5, <2>6, <2>7, <2>8, <2>9, <2>10, SourceAsks
  <2>12. /\ SourceRec(d) /\ d.cseq = n /\ d.wfd = "M5" /\ d.last = c.last /\ d.creates = 1
         /\ ("PLAYED" \in d.told <=> "PLAYED" \in c.told) /\ d.out = e.out
         /\ d.server = e.server /\ d.socket = e.socket /\ d.peer = e.peer
         /\ d.timers = e.timers /\ d.timerId = e.timerId /\ d.prosumer = e.prosumer /\ d.told = e.told
    <3>1. SourceRec(e) /\ e.creates = 0 /\ e.last = c.last /\ ("PLAYED" \in e.told <=> "PLAYED" \in c.told)
      BY <1>7, <2>1 DEF Rests
    <3> QED
      BY <1>7, <3>1 DEF SourceRec, SourceFields
  <2>13. Calmer(y, d)
    BY <1>1, <2>6, <2>12 DEF Calmer
  <2>14. Exchange(k, d, t \o d.out, b)
    BY <2>11, <2>12, <2>13, SourceGivesUp
  <2>15. TimersOK(e) /\ Keeps(c, e)
    BY <1>7, RestsKeeps
  <2>16. Keeps(c, d)
    BY <2>12, <2>15 DEF Keeps, TimersOK
  <2>17. HasM5(t \o d.out)
    BY <1>5, <2>9, <2>12, AppendedEffect
  <2>18. Produces(k, c, d)
    BY <2>1, <2>12 DEF Produces
  <2> QED
    BY <2>9, <2>12, <2>14, <2>16, <2>17, <2>18 DEF SourceAt, SourceGoesOn
<1> QED
  BY <1>3, <1>4, <1>5, <1>6, <1>7 DEF Requested

\* HandleResponse of the source.
LEMMA SourceHandlesResponse ==
    ASSUME NEW j, NEW k, NEW c, c = [j EXCEPT !.last = NoMessage], NEW b, NEW t, SourceAt(k, c, b, t), TimersOK(c),
           NEW m, ~m.req, SourceHolds(k, c, t \o c.out, b, m), NEW up \in BOOLEAN,
           NEW d, d = Source!HandleResponse(j, m, up)
    PROVE  SourceAt(k, d, b, t) /\ Keeps(c, d) /\ SourceGoesOn(k, c, d, t)
<1> DEFINE y == [c EXCEPT !.counts = MaxCounts]
           x == IF c.wfd \in Source!Played THEN y ELSE c
<1>1. c = [j EXCEPT !.last = Source!NoMessage]
  BY NoMessageIs
<1>2. \/ d = c
      \/ /\ m.cseq = c.cseq
         /\ d = CASE x.wfd = "M3"      -> Source!HandleM3Response(x, m, up)
                  [] x.wfd = "M4"      -> Source!HandleM4Response(x, up)
                  [] x.wfd = "M7_WAIT" -> Source!HandleM7Response(x)
                  [] x.wfd = "M8"      -> Source!HandleM8Response(x)
                  [] OTHER             -> x
  BY <1>1 DEF Source!HandleResponse
<1>3. SourceRec(c) /\ c.cseq \in Nat
  BY DEF SourceAt, Exchange, Numbers
<1>4. Turns(c, c) /\ Turns(c, y)
  BY <1>3 DEF Turns, SourceRec, SourceFields, TimersOK
<1> HIDE DEF y
<1>5. Turns(c, x)
  BY <1>4
<1> HIDE DEF x
<1>6. ASSUME NEW z, Turns(c, z)
      PROVE  /\ SourceAt(k, z, b, t) /\ SourceHolds(k, z, t \o z.out, b, m) /\ TimersOK(z) /\ SourceRec(z)
             /\ \A g : Keeps(z, g) => Keeps(c, g)
             /\ \A g : Quiet(z, g) => Quiet(c, g)
             /\ \A g : SourceGoesOn(k, z, g, t) => SourceGoesOn(k, c, g, t)
  <2>1. SourceAt(k, z, b, t) /\ SourceHolds(k, z, t \o z.out, b, m)
    BY <1>6, SourceTurns
  <2>2. (\A g : Keeps(z, g) => Keeps(c, g)) /\ (\A g : Quiet(z, g) => Quiet(c, g)) /\ TimersOK(z) /\ SourceRec(z)
    BY <1>6 DEF Turns, Keeps, Quiet
  <2>3. \A g : Produces(k, z, g) => Produces(k, c, g)
    BY <1>6 DEF Turns, Produces
  <2> QED
    BY <2>1, <2>2, <2>3 DEF SourceGoesOn
<1>7. SourceAt(k, x, b, t) /\ SourceHolds(k, x, t \o x.out, b, m) /\ TimersOK(x) /\ SourceRec(x)
  BY <1>5, <1>6
<1>8. CASE d = c \/ d = x
  <2>1. SourceAt(k, d, b, t) /\ Keeps(c, d) /\ Quiet(c, d)
    BY <1>4, <1>5, <1>7, <1>8 DEF Turns, Keeps, Quiet
  <2> QED
    BY <2>1 DEF SourceGoesOn
<1>9. CASE x.wfd = "M3" /\ d = Source!HandleM3Response(x, m, up)
  <2> DEFINE choice == Source!Choose(m.params)
             z == [x EXCEPT !.choice = choice]
             params == Source!M4Params(z.choice)
  <2>1. d = Source!SendRequest(z, Source!M4Request(z.cseq + 1, params), "M4", up)
    BY <1>9 DEF Source!HandleM3Response, Source!SendM4Request
  <2> HIDE DEF choice, params
  <2>2. Turns(x, z) /\ z.wfd = x.wfd
    BY <1>7 DEF Turns, SourceRec, SourceFields, TimersOK
  <2> HIDE DEF z
  <2>3. Turns(c, z) /\ z.wfd = "M3"
    BY <1>5, <1>9, <2>2 DEF Turns
  <2>4. SourceAt(k, z, b, t) /\ TimersOK(z)
    BY <1>6, <2>3
  <2>5. SourceAt(k, d, b, t) /\ Keeps(z, d) /\ Quiet(z, d)
    BY <2>1, <2>3, <2>4, SourceSendsM4
  <2> QED
    BY <1>6, <2>3, <2>5 DEF SourceGoesOn
<1>10. CASE m.cseq = c.cseq /\ x.wfd = "M4" /\ d = Source!HandleM4Response(x, up)
  <2>1. k.creates = 1
    BY <1>5, <1>7, <1>10 DEF Turns, SourceHolds
  <2>2. SourceAt(k, d, b, t) /\ Keeps(x, d) /\ SourceGoesOn(k, x, d, t)
    BY <1>7, <1>10, <2>1, SourceSendsM5
  <2> QED
    BY <1>5, <1>6, <2>2
<1>11. CASE d = Source!HandleM7Response(x)
  <2>1. Moved(x, d, "M7")
    BY <1>7, <1>11, StateSet DEF Source!HandleM7Response
  <2>2. x.cseq \in Nat
    BY <1>3, <1>5 DEF Turns
  <2>3. Calmer(x, d) /\ d.out = x.out /\ Rests(x, d)
    BY <2>1, <2>2 DEF Moved, Rests, Calmer
  <2>4. SourceAt(k, d, b, t)
    BY <1>7, <2>3, SourceChanges
  <2>5. Keeps(x, d) /\ Quiet(x, d)
    BY <1>7, <2>3, RestsKeeps DEF Rests, Quiet
  <2> QED
    BY <1>5, <1>6, <2>4, <2>5 DEF SourceGoesOn
<1>12. CASE d = Source!HandleM8Response(x)
  <2>1. Even(x, d) /\ d.out = x.out
    BY <1>7, <1>12, SourceNotifies DEF Source!HandleM8Response
  <2>2. x.cseq \in Nat
    BY <1>3, <1>5 DEF Turns
  <2>3. Calmer(x, d) /\ Rests(x, d)
    BY <2>1, <2>2, EvenIsCalmer DEF Even
  <2>4. SourceAt(k, d, b, t)
    BY <1>7, <2>1, <2>3, SourceChanges
  <2>5. Keeps(x, d) /\ Quiet(x, d)
    BY <1>7, <2>3, RestsKeeps DEF Rests, Quiet
  <2> QED
    BY <1>5, <1>6, <2>4, <2>5 DEF SourceGoesOn
<1> QED
  BY <1>2, <1>8, <1>9, <1>10, <1>11, <1>12

-----------------------------------------------------------------------------
(* Reads of the source                                                     *)

\* A read of the source: OnServerReadData.
LEMMA SourceParses ==
    ASSUME NEW q, Queue(q), NEW n \in 1..Len(q), n = 1 \/ \A i \in 1..n : q[i].part = "whole",
           NEW chunk, chunk = SubSeq(q, 1, n), NEW last, IsMessage(last),
           NEW first, first = Source!ReadFirst(chunk, last), NEW second, second = Source!ReadSecond(chunk)
    PROVE  Parsed(q, n, last, first, second, Source!ReadKeeps(chunk))
<1>1. Queue(chunk) /\ Len(chunk) = n /\ (\A i \in 1..n : chunk[i] = q[i]) /\ n \in Nat /\ n >= 1 /\ 1 \in 1..n
  BY Chunk, QueueLength
<1>2. chunk[1] = q[1] /\ q[1].part \in {"whole", "head", "tail"} /\ 1 \in 1..Len(q)
  BY <1>1, QueueLength DEF Queue
<1>3. \A m, x : SameMessage(m, x) => m # NoMessage
  BY DEF SameMessage, NoMessage
<1>4. \/ q[1].part = "whole" /\ SameMessage(first, q[1])
      \/ n = 1 /\ first = NoMessage
      \/ n = 1 /\ last.req /\ last.part # "tail" /\ SameMessage(first, last)
  <2>1. CASE q[1].part = "whole"
    <3>1. first = Source!FirstParsed(chunk)
      BY <1>2, <2>1 DEF Source!ReadFirst
    <3> QED
      BY <1>1, <1>2, <2>1, <3>1, ParsedIs
  <2>2. CASE q[1].part = "head"
    <3>1. first = Source!NoMessage
      BY <1>2, <2>2 DEF Source!ReadFirst
    <3> QED
      BY <1>1, <2>2, <3>1, NoMessageIs
  <2>3. CASE q[1].part = "tail"
    <3>1. first = IF last.part = "head" /\ last.req THEN [last EXCEPT !.part = "whole"] ELSE Source!NoMessage
      BY <1>2, <2>3 DEF Source!ReadFirst
    <3>2. SameMessage([last EXCEPT !.part = "whole"], last)
      BY DEF SameMessage, IsMessage, MessageFields
    <3> QED
      BY <1>1, <2>3, <3>1, <3>2, NoMessageIs
  <2> QED
    BY <1>2, <2>1, <2>2, <2>3
<1>5. \/ second = NoMessage
      \/ n >= 2 /\ q[1].part = "whole" /\ q[2].part = "whole" /\ q[2].req /\ SameMessage(second, q[2])
  <2>1. second = Source!NoMessage \/ (q[1].part = "whole" /\ n > 1 /\ chunk[2].req /\ second = Source!FirstParsed(Tail(chunk)))
    BY <1>1, <1>2, NoMessageIs DEF Source!ReadSecond, Source!SplicedRequest
  <2>2. CASE q[1].part = "whole" /\ n > 1 /\ chunk[2].req /\ second = Source!FirstParsed(Tail(chunk))
    <3>1. n >= 2 /\ 2 \in 1..n
      BY <1>1, <2>2
    <3>2. chunk[2] = q[2] /\ q[2].part = "whole"
      BY <1>1, <3>1
    <3>3. Queue(Tail(chunk)) /\ Len(Tail(chunk)) >= 1 /\ Tail(chunk)[1] = q[2]
      <4>1. Len(chunk) >= 2 /\ Queue(chunk)
        BY <1>1, <3>1
      <4>2. Queue(Tail(chunk)) /\ Len(Tail(chunk)) = Len(chunk) - 1 /\ Tail(chunk)[1] = chunk[2]
        BY <4>1, TailOfQueue
      <4> QED
        BY <1>1, <3>1, <3>2, <4>2
    <3>4. SameMessage(second, q[2])
      BY <2>2, <3>2, <3>3, ParsedIs
    <3> QED
      BY <2>2, <3>1, <3>2, <3>4
  <2> QED
    BY <2>1, <2>2, NoMessageIs
<1>6. \/ Source!ReadKeeps(chunk) = NoMessage
      \/ Source!ReadKeeps(chunk) = q[1] /\ q[1].part = "head" /\ n = 1
  BY <1>1, <1>2, NoMessageIs DEF Source!ReadKeeps
<1> QED
  BY <1>3, <1>4, <1>5, <1>6 DEF Parsed

\* The head of a request is kept: it can only be an IDR request.
LEMMA SourceKeeps ==
    ASSUME NEW k, NEW c, NEW a, NEW b, Exchange(k, c, a, b), NEW r, Suffix(b, r, 1), b[1].part = "head",
           NEW d, d = [c EXCEPT !.last = b[1]]
    PROVE  Exchange(k, d, a, r)
<1>1. /\ SourceRec(d) /\ d.last = b[1] /\ d.wfd = c.wfd /\ d.cseq = c.cseq /\ d.creates = c.creates
      /\ d.told = c.told
  BY DEF Exchange, SourceRec, SourceFields
<1>2. 1 \in 1..Len(b) /\ IsMessage(b[1])
  BY DEF Suffix, Exchange, Queue
<1>3. Exchange(k, c, a, r)
  BY ReadBySource
<1>4. b[1].req => b[1].method = "SET_PARAMETER" /\ b[1].cseq <= k.cseq /\ ~IsPlay(b[1])
  BY <1>2 DEF Exchange, Bodies, Numbers, IsPlay
<1>5. \A h \in k.handlers : h[2] = "M7" /\ b[1].req => b[1].cseq # h[1]
  BY <1>2, <1>4 DEF Exchange, PlayAlone
<1>6. OneToken(k, d, a, r)
  BY <1>1, <1>3 DEF Exchange, OneToken, SourceToken
<1>7. Progress(k, d, a, r)
  BY <1>1, <1>3 DEF Exchange, Progress, Early, NoM4, Late, BothAsked, AwaitsM4
<1>8. Numbers(k, d, a, r)
  BY <1>1, <1>3, <1>4 DEF Exchange, Numbers, BeforeM1
<1>9. PlayAlone(k, d, a, r)
  BY <1>1, <1>3, <1>5 DEF Exchange, PlayAlone
<1>10. Bodies(k, d, a, r)
  BY <1>1, <1>3, <1>4 DEF Exchange, Bodies
<1> QED
  BY <1>1, <1>2, <1>3, <1>6, <1>7, <1>8, <1>9, <1>10 DEF Exchange

\* What a read tells the agent.
SourceHears(k, c, d) == Quiet(c, d) \/ Produces(k, c, d) \/ SourceTold(k, c, d)

\* One read of the source: the exchange goes on with what it has sent behind a.
LEMMA OneReadOfSource ==
    ASSUME NEW k, NEW c, NEW a, NEW b, Exchange(k, c, a, b), c.out = <<>>, TimersOK(c),
           NEW n \in 1..Len(b), n = 1 \/ \A i \in 1..n : b[i].part = "whole", NEW up \in BOOLEAN,
           NEW d, d = Source!ReadData(c, SubSeq(b, 1, n), up), NEW r, r = SubSeq(b, n + 1, Len(b))
    PROVE  Queue(d.out) /\ Exchange(k, d, a \o d.out, r) /\ Keeps(c, d) /\ SourceHears(k, c, d)
<1> DEFINE chunk == SubSeq(b, 1, n)
           first == Source!ReadFirst(chunk, c.last)
           second == Source!ReadSecond(chunk)
           t == Source!HandleResponse(c, first, up)
           b1 == SubSeq(b, 1 + 1, Len(b))
           forgot == [c EXCEPT !.last = NoMessage]
<1>1. /\ SourceRec(c) /\ IsMessage(c.last) /\ Queue(a) /\ Queue(b) /\ Len(b) \in Nat /\ n \in Nat /\ n >= 1
      /\ 1 \in 1..Len(b) /\ Queue(<<>>) /\ a \o <<>> = a
  <2>1. Queue(a) /\ Queue(b)
    BY DEF Exchange
  <2> QED
    BY <2>1, QueueLength, EmptyQueue DEF Exchange
<1>2. Suffix(b, b1, 1) /\ Suffix(b, r, n) /\ Suffix(b1, r, n - 1)
  <2>1. Suffix(b, b1, 1) /\ Suffix(b, r, n)
    BY <1>1, Taken
  <2> QED
    BY <1>1, <2>1, RestTaken
<1>3. \A x, y, i : SourceAt(k, x, y, a) /\ Suffix(y, r, i) => Queue(x.out) /\ Exchange(k, x, a \o x.out, r)
  BY ReadBySource DEF SourceAt
<1>4. Parsed(b, n, c.last, first, second, Source!ReadKeeps(chunk))
  <2>1. chunk = SubSeq(b, 1, n) /\ first = Source!ReadFirst(chunk, c.last) /\ second = Source!ReadSecond(chunk)
    OBVIOUS
  <2> HIDE DEF chunk, first, second
  <2> QED
    BY <1>1, <2>1, SourceParses
<1>5. d = IF first = NoMessage THEN [c EXCEPT !.last = Source!ReadKeeps(chunk)]
          ELSE IF first.req THEN Source!HandleRequest(c, first, up)
          ELSE IF second = NoMessage THEN t ELSE Source!HandleRequest(t, second, up)
  BY NoMessageIs DEF Source!ReadData
<1> HIDE DEF chunk
<1>6. Keeps(c, c) /\ Quiet(c, c)
  BY DEF Keeps, Quiet
<1>7. /\ SourceRec(forgot) /\ forgot.out = <<>> /\ TimersOK(forgot)
      /\ \A g : Keeps(forgot, g) => Keeps(c, g)
      /\ \A g : Quiet(forgot, g) => Quiet(c, g)
      /\ \A g : Produces(k, forgot, g) => Produces(k, c, g)
      /\ \A g : SourceTold(k, forgot, g) => SourceTold(k, c, g)
  <2>1. /\ SourceRec(forgot) /\ forgot.out = c.out /\ forgot.creates = c.creates /\ forgot.told = c.told
        /\ forgot.server = c.server /\ forgot.socket = c.socket /\ forgot.peer = c.peer
        /\ forgot.timers = c.timers /\ forgot.timerId = c.timerId /\ forgot.prosumer = c.prosumer
    BY <1>1 DEF SourceRec, SourceFields
  <2> HIDE DEF forgot
  <2> QED
    BY <2>1 DEF Keeps, Quiet, Produces, SourceTold, BothAsked, TimersOK
<1>8. CASE first = NoMessage
  <2> DEFINE kept == Source!ReadKeeps(chunk)
  <2>1. d = [c EXCEPT !.last = kept]
    BY <1>5, <1>8
  <2>2. SourceRec(d) /\ d.out = <<>> /\ Keeps(c, d) /\ Quiet(c, d) /\ d.last = kept /\ d.wfd = c.wfd
        /\ d.cseq = c.cseq /\ d.creates = c.creates /\ d.told = c.told
    BY <1>1, <2>1 DEF SourceRec, SourceFields, Keeps, Quiet, TimersOK
  <2>3. CASE kept = NoMessage
    <3>1. c.cseq \in Nat
      BY DEF Exchange, Numbers
    <3>2. Calmer(c, d)
      BY <2>2, <2>3, <3>1 DEF Calmer
    <3>3. Exchange(k, d, a, r)
      BY <1>2, <3>2, SourceGivesUp, ReadBySource
    <3> QED
      BY <1>1, <2>2, <3>3 DEF SourceHears
  <2>4. CASE kept = b[1] /\ b[1].part = "head" /\ n = 1
    <3>1. d = [c EXCEPT !.last = b[1]] /\ Suffix(b, r, 1)
      BY <1>2, <2>1, <2>4
    <3>2. Exchange(k, d, a, r)
      BY <2>4, <3>1, SourceKeeps
    <3> QED
      BY <1>1, <2>2, <3>2 DEF SourceHears
  <2> QED
    BY <1>4, <2>3, <2>4 DEF Parsed
\* What is at hand when the first message is handled, and c has forgotten what it kept.
<1>9. ASSUME first # NoMessage
      PROVE  SourceAt(k, forgot, b1, a) /\ SourceHolds(k, forgot, a \o forgot.out, b1, first)
  <2>0. a \o forgot.out = a /\ Queue(forgot.out)
    BY <1>1, <1>7
  <2>1. CASE b[1].part = "whole" /\ SameMessage(first, b[1])
    <3> HIDE DEF first, b1, forgot
    <3>1. Exchange(k, c, a, b1) /\ SourceHolds(k, c, a, b1, first)
      BY <1>2, <2>1, SourceTakes
    <3>2. Exchange(k, forgot, a, b1) /\ SourceHolds(k, forgot, a, b1, first)
      BY <3>1, SourceForgets DEF forgot
    <3> QED
      BY <1>1, <2>0, <3>2 DEF SourceAt
  <2>2. CASE c.last.req /\ SameMessage(first, c.last)
    <3> HIDE DEF first, b1, forgot
    <3>1. Exchange(k, c, a, b1)
      BY <1>2, ReadBySource
    <3>2. Exchange(k, forgot, a, b1) /\ SourceHolds(k, forgot, a, b1, first)
      BY <2>2, <3>1, SourceJoins DEF forgot
    <3> QED
      BY <1>1, <2>0, <3>2 DEF SourceAt
  <2> QED
    BY <1>4, <1>9, <2>1, <2>2 DEF Parsed
<1>10. forgot = [c EXCEPT !.last = NoMessage]
  OBVIOUS
<1> HIDE DEF first, second, b1, forgot
<1>11. CASE first # NoMessage /\ first.req
  <2>1. d = Source!HandleRequest(c, first, up)
    BY <1>5, <1>11
  <2>2. SourceAt(k, forgot, b1, a) /\ SourceHolds(k, forgot, a \o forgot.out, b1, first) /\ TimersOK(forgot)
    BY <1>7, <1>9, <1>11
  <2>3. SourceAt(k, d, b1, a) /\ Keeps(forgot, d) /\ SourceHeard(k, forgot, d, first)
    BY <1>10, <1>11, <2>1, <2>2, SourceHandlesRequest
  <2>4. Keeps(c, d) /\ SourceHears(k, c, d)
    BY <1>7, <2>3 DEF SourceHeard, SourceHears
  <2> QED
    BY <1>2, <1>3, <2>3, <2>4
<1>12. CASE first # NoMessage /\ ~first.req
  <2>1. SourceAt(k, forgot, b1, a) /\ SourceHolds(k, forgot, a \o forgot.out, b1, first) /\ TimersOK(forgot)
    BY <1>7, <1>9, <1>12
  <2>2. t = Source!HandleResponse(c, first, up)
    OBVIOUS
  <2> HIDE DEF t
  <2>3. SourceAt(k, t, b1, a) /\ Keeps(forgot, t) /\ SourceGoesOn(k, forgot, t, a)
    BY <1>10, <1>12, <2>1, <2>2, SourceHandlesResponse
  <2>4. Keeps(c, t) /\ (Quiet(c, t) \/ (Produces(k, c, t) /\ HasM5(a \o t.out)))
    BY <1>7, <2>3 DEF SourceGoesOn
  <2>5. CASE second = NoMessage
    <3>1. d = t
      BY <1>5, <1>12, <2>5 DEF t
    <3> QED
      BY <1>2, <1>3, <2>3, <2>4, <3>1 DEF SourceHears
  <2>6. CASE second # NoMessage
    <3> DEFINE b2 == SubSeq(b1, 1 + 1, Len(b1))
               u == [t EXCEPT !.last = NoMessage]
    <3>1. d = Source!HandleRequest(t, second, up)
      BY <1>5, <1>12, <2>6 DEF t
    <3>2. n >= 2 /\ b[2].part = "whole" /\ b[2].req /\ SameMessage(second, b[2])
      BY <1>4, <2>6 DEF Parsed
    <3>3. Queue(b1) /\ 1 \in 1..Len(b1) /\ b1[1] = b[2]
      BY <1>1, <1>2, <3>2 DEF Suffix
    <3>4. Suffix(b1, b2, 1) /\ Suffix(b2, r, (n - 1) - 1)
      <4>1. Suffix(b1, b2, 1)
        BY <3>3, Taken
      <4>2. n - 1 >= 1
        BY <1>1, <3>2
      <4> QED
        BY <1>2, <4>1, <4>2, RestTaken
    <3> HIDE DEF b2
    <3>5. Exchange(k, t, a \o t.out, b2) /\ SourceHolds(k, t, a \o t.out, b2, second)
      <4>1. Exchange(k, t, a \o t.out, b1)
        BY <2>3 DEF SourceAt
      <4> QED
        BY <3>2, <3>3, <3>4, <4>1, SourceTakes
    <3>6. Exchange(k, u, a \o t.out, b2) /\ SourceHolds(k, u, a \o t.out, b2, second)
      BY <3>5, SourceForgets
    <3>7. /\ u.out = t.out /\ u.creates = t.creates /\ u.told = t.told
          /\ Keeps(t, u) /\ TimersOK(u)
          /\ u.server = t.server /\ u.socket = t.socket /\ u.peer = t.peer
      <4>1. SourceRec(t)
        BY <2>3 DEF SourceAt, Exchange
      <4> QED
        BY <2>4, <4>1 DEF Keeps, TimersOK, SourceRec, SourceFields
    <3>8. SourceAt(k, u, b2, a) /\ SourceHolds(k, u, a \o u.out, b2, second)
      BY <2>3, <3>6, <3>7 DEF SourceAt
    <3>9. second.req
      BY <3>2 DEF SameMessage
    <3>10. u = [t EXCEPT !.last = NoMessage]
      OBVIOUS
    <3> HIDE DEF u
    <3>11. SourceAt(k, d, b2, a) /\ Keeps(u, d) /\ SourceHeard(k, u, d, second)
      <4>1. TimersOK(u)
        BY <3>7
      <4> QED
        BY <3>1, <3>8, <3>9, <3>10, <4>1, SourceHandlesRequest
    <3>12. Keeps(c, d)
      BY <2>4, <3>7, <3>11 DEF Keeps
    <3>13. SourceHears(k, c, d)
      <4>1. CASE Quiet(c, t)
        BY <3>7, <3>11, <4>1 DEF Quiet, SourceHeard, SourceHears, SourceTold, BothAsked
      <4>2. CASE Produces(k, c, t) /\ HasM5(a \o t.out)
        <5>1. ~IsPlay(second)
          BY <3>6, <4>2 DEF SourceHolds, NoToken
        <5> QED
          BY <3>7, <3>11, <4>2, <5>1 DEF Quiet, SourceHeard, SourceHears, Produces
      <4> QED
        BY <2>4, <4>1, <4>2
    <3> QED
      BY <1>3, <3>4, <3>11, <3>12, <3>13
  <2> QED
    BY <2>5, <2>6
<1> QED
  BY <1>8, <1>11, <1>12

-----------------------------------------------------------------------------
(* The steps of the sink                                                   *)

Told(k) == k.wfd = "PLAYING" \/ "PLAYED" \in k.told
SameStop(k, l) == "STOPED" \in l.told <=> "STOPED" \in k.told

\* A step of the sink that changes nothing its agent sees, or tells it of a stop.
LEMMA SinkIsUnheard ==
    ASSUME source' = source, sink'.creates = sink.creates, Told(sink') <=> Told(sink),
           "STOPED" \in sink.told => "STOPED" \in sink'.told
    PROVE  [Cast!Next]_(Cast!vars)
<1>1. CASE "STOPED" \in sink.told <=> "STOPED" \in sink'.told
  <2>1. ("STOPED" \in sink.told) = ("STOPED" \in sink'.told)
    BY <1>1
  <2>2. (sink.wfd = "PLAYING" \/ "PLAYED" \in sink.told) = (sink'.wfd = "PLAYING" \/ "PLAYED" \in sink'.told)
    BY DEF Told
  <2> QED
    BY <2>1, <2>2 DEF Cast!vars
<1>2. CASE "STOPED" \notin sink.told /\ "STOPED" \in sink'.told
  <2>1. Cast!Stop
    BY <1>2 DEF Cast!Stop, Told
  <2> QED
    BY <2>1 DEF Cast!Next
<1> QED
  BY <1>1, <1>2

\* A step of the sink that asks its agent for the consumer.
LEMMA SinkWantsConsumer ==
    ASSUME source' = source, sink.creates = 0, sink'.creates = 1, Told(sink') <=> Told(sink), SameStop(sink, sink')
    PROVE  Cast!Next
<1>1. Cast!CreateConsumer
  BY DEF Cast!CreateConsumer, Told, SameStop
<1> QED
  BY <1>1 DEF Cast!Next

\* A step of the sink that tells its agent that it plays.
LEMMA SinkIsPlaying ==
    ASSUME source' = source, sink'.creates = sink.creates, "PLAYED" \in source.told, ~Told(sink), Told(sink'),
           SameStop(sink, sink')
    PROVE  Cast!Next
<1>1. Cast!SinkPlays
  BY DEF Cast!SinkPlays, Told, SameStop
<1> QED
  BY <1>1 DEF Cast!Next

\* What the sink may tell its agent in one step, as CastSession has it.
SinkSaid(k, l, c) == \/ Unheard(k, l) /\ ("STOPED" \in k.told => "STOPED" \in l.told)
                     \/ (Wanted(k, l) \/ Playing(k, l, c)) /\ SameStop(k, l)

\* The sink has become l, with what it has sent on its way.
LEMMA SinkActs ==
    ASSUME RtspInv, source' = source, NEW l, sink' = [l EXCEPT !.out = <<>>], toSource' = toSource \o l.out,
           Exchange(l, source, toSink', toSource'), SinkOK(l, link'), SinkSaid(sink, l, source)
    PROVE  RtspInv' /\ [Cast!Next]_(Cast!vars)
<1> DEFINE k == [l EXCEPT !.out = <<>>]
<1>1. SinkRec(l)
  BY DEF Exchange
<1>2. /\ SinkRec(k) /\ k.out = <<>> /\ k.last = l.last /\ k.handlers = l.handlers /\ k.creates = l.creates
      /\ k.firstCreate = l.firstCreate /\ k.cseq = l.cseq /\ k.sending = l.sending /\ k.told = l.told
      /\ k.wfd = l.wfd /\ k.client = l.client /\ k.connected = l.connected /\ k.socket = l.socket
      /\ k.starting = l.starting
  BY <1>1 DEF SinkRec, SinkFields
<1>3. sink' = k
  OBVIOUS
<1> HIDE DEF k
<1>4. Fewer(l, k)
  BY <1>2 DEF Fewer
<1>5. Exchange(k, source, toSink', toSource')
  BY <1>4, SinkGivesUp
<1>6. SinkOK(k, link')
  BY <1>2 DEF SinkOK
<1>7. RtspInv'
  BY <1>2, <1>3, <1>5, <1>6 DEF RtspInv
<1>8. Progress(sink, source, toSink, toSource) /\ Progress(sink', source', toSink', toSource')
  BY <1>3, <1>5 DEF RtspInv, Exchange
<1>9. /\ Told(sink) <=> Plays(sink)
      /\ Told(sink') <=> Plays(l)
      /\ sink'.creates = l.creates /\ sink'.told = l.told
  BY <1>2, <1>3, <1>8 DEF Progress, Plays, Told
<1>10. [Cast!Next]_(Cast!vars)
  <2>1. CASE Unheard(sink, l) /\ ("STOPED" \in sink.told => "STOPED" \in l.told)
    <3>1. sink'.creates = sink.creates /\ (Told(sink') <=> Told(sink)) /\ ("STOPED" \in sink.told => "STOPED" \in sink'.told)
      BY <1>9, <2>1 DEF Unheard
    <3> QED
      BY <3>1, SinkIsUnheard
  <2>2. CASE Wanted(sink, l) /\ SameStop(sink, l)
    <3>1. sink.creates = 0 /\ sink'.creates = 1 /\ (Told(sink') <=> Told(sink)) /\ SameStop(sink, sink')
      BY <1>9, <2>2 DEF Wanted, SameStop
    <3> QED
      BY <3>1, SinkWantsConsumer
  <2>3. CASE Playing(sink, l, source) /\ SameStop(sink, l)
    <3>1. sink'.creates = sink.creates /\ "PLAYED" \in source.told /\ Told(sink') /\ SameStop(sink, sink')
      BY <1>9, <2>3 DEF Playing, SameStop
    <3>2. CASE Told(sink)
      <4>1. "STOPED" \in sink.told => "STOPED" \in sink'.told
        BY <3>1 DEF SameStop
      <4> QED
        BY <3>1, <3>2, <4>1, SinkIsUnheard
    <3> QED
      BY <3>1, <3>2, SinkIsPlaying
  <2> QED
    BY <2>1, <2>2, <2>3 DEF SinkSaid
<1> QED
  BY <1>7, <1>10

\* A step of the network thread that is still reading leaves the client and the socket in order.
LEMMA SinkOKStays ==
    ASSUME NEW k, NEW l, NEW ln, SinkOK(k, ln), k.socket.heard, k.client, Stays(k, l, ln \in {"up", "deaf"})
    PROVE  SinkOK(l, ln)
<1>1. k.starting \in {"arming", "no"} /\ ln # "none" /\ ln \in {"none", "up", "deaf", "down"}
  BY DEF SinkOK
<1>2. CASE l.client = k.client /\ l.socket = k.socket
  BY <1>1, <1>2 DEF SinkOK, Stays
<1>3. CASE ln \notin {"up", "deaf"} /\ ~l.client /\ l.socket = Closed
  <2>1. ln = "down"
    BY <1>1, <1>3
  <2>2. Closed \in SocketType /\ ~Closed.heard
    BY DEF Closed, SocketType
  <2> QED
    BY <1>1, <1>3, <2>1, <2>2 DEF SinkOK, Stays
<1> QED
  BY <1>2, <1>3 DEF Stays

\* OnClientReadData.
LEMMA SinkHasRead ==
    ASSUME RtspInv, SinkReads
    PROVE  RtspInv' /\ [Cast!Next]_(Cast!vars)
<1>1. PICK n \in 1..MaxChunk : Sink!OnClientReadData(n)
  BY DEF SinkReads
<1> DEFINE up == Sink!Up
           r == SubSeq(toSink, n + 1, Len(toSink))
           l == Sink!ReadData(sink, SubSeq(toSink, 1, n), up)
<1>2. /\ sink.client /\ sink.socket.heard
      /\ n \in 1..Len(toSink) /\ (n = 1 \/ \A i \in 1..n : toSink[i].part = "whole")
      /\ sink' = [l EXCEPT !.out = <<>>] /\ toSource' = toSource \o l.out
      /\ toSink' = r /\ link' = link /\ source' = source
  <2>1. Queue(toSink)
    BY DEF RtspInv, Exchange
  <2>2. Len(toSink) \in Nat
    BY <2>1, QueueLength
  <2>3. n \in 1..Len(toSink)
    BY <1>1, <2>2, RtspAssumption DEF Sink!OnClientReadData, Sink!Splittable
  <2> QED
    BY <1>1, <2>3 DEF Sink!OnClientReadData, Sink!Splittable, Sink!Become, SinkReads
<1>3. l = Sink!ReadData(sink, SubSeq(toSink, 1, n), up) /\ r = SubSeq(toSink, n + 1, Len(toSink))
  OBVIOUS
<1>4. Exchange(sink, source, toSink, toSource) /\ sink.out = <<>> /\ SocketOK(sink)
  BY DEF RtspInv, SinkOK, SocketOK
<1>5. up \in BOOLEAN /\ (up <=> link \in {"up", "deaf"})
  BY DEF Sink!Up
<1> HIDE DEF l, r, up
<1>6. /\ Exchange(l, source, r, toSource \o l.out) /\ Stays(sink, l, up)
      /\ Unheard(sink, l) \/ Wanted(sink, l) \/ Playing(sink, l, source)
  <2>1. n \in 1..Len(toSink) /\ (n = 1 \/ \A i \in 1..n : toSink[i].part = "whole")
    BY <1>2
  <2>2. up \in BOOLEAN
    BY <1>5
  <2>3. Exchange(l, source, r, toSource \o l.out)
    BY <1>3, <1>4, <2>1, <2>2, OneReadOfSink
  <2>4. Stays(sink, l, up)
    BY <1>3, <1>4, <2>1, <2>2, OneReadOfSink
  <2>5. Unheard(sink, l) \/ Wanted(sink, l) \/ Playing(sink, l, source)
    BY <1>3, <1>4, <2>1, <2>2, OneReadOfSink
  <2> QED
    BY <2>3, <2>4, <2>5
<1>7. SinkOK(l, link')
  <2>1. Stays(sink, l, link \in {"up", "deaf"})
    BY <1>5, <1>6 DEF Stays
  <2>2. SinkOK(sink, link)
    BY DEF RtspInv
  <2> QED
    BY <1>2, <2>1, <2>2, SinkOKStays
<1>8. SinkSaid(sink, l, source)
  BY <1>6 DEF SinkSaid, Stays, SameStop
<1>9. Exchange(l, source, toSink', toSource')
  BY <1>2, <1>6
<1> QED
  BY <1>2, <1>9, <1>7, <1>8, SinkActs

\* A step in which the sink sends nothing, and gives up at most.
LEMMA SinkStepsBack ==
    ASSUME RtspInv, source' = source, toSink' = toSink, NEW l, Fewer(sink, l), l.out = <<>>,
           sink' = [l EXCEPT !.out = <<>>], toSource' = toSource \o l.out, SinkOK(l, link'),
           "STOPED" \in sink.told => "STOPED" \in l.told
    PROVE  RtspInv' /\ [Cast!Next]_(Cast!vars)
<1>1. Exchange(sink, source, toSink, toSource) /\ Queue(toSource)
  BY DEF RtspInv, Exchange
<1>2. toSource' = toSource
  <2>1. PICK S : toSource \in Seq(S)
    BY <1>1 DEF Queue
  <2> QED
    BY <2>1
<1>3. Exchange(l, source, toSink', toSource')
  BY <1>1, <1>2, SinkGivesUp
<1>4. SinkSaid(sink, l, source)
  BY DEF Fewer, SinkSaid, Unheard, Plays
<1> QED
  BY <1>3, <1>4, SinkActs

\* A step in which nothing of the exchange changes and the client stays.
LEMMA SinkIdles ==
    ASSUME RtspInv, source' = source, toSink' = toSink, link' = link, NEW l, Same(sink, l), Stays(sink, l, TRUE),
           l.out = <<>>, sink' = [l EXCEPT !.out = <<>>], toSource' = toSource \o l.out
    PROVE  RtspInv' /\ [Cast!Next]_(Cast!vars)
<1>1. SinkOK(l, link')
  BY DEF RtspInv, SinkOK, Same, Stays
<1>2. Fewer(sink, l)
  BY SameIsFewer
<1>3. "STOPED" \in sink.told => "STOPED" \in l.told
  BY DEF Stays
<1> QED
  BY <1>1, <1>2, <1>3, SinkStepsBack

\* OnClientClose.
LEMMA SinkHasClosed ==
    ASSUME RtspInv, SinkCloses
    PROVE  RtspInv' /\ [Cast!Next]_(Cast!vars)
<1> DEFINE l == Sink!ClientClosed(sink)
<1>1. /\ sink.client /\ sink.socket.heard /\ link = "down"
      /\ sink' = [l EXCEPT !.out = <<>>] /\ toSource' = toSource \o l.out
      /\ toSink' = toSink /\ link' = link /\ source' = source
  BY DEF SinkCloses, Sink!OnClientClose, Sink!Become
<1>2. l = Sink!ClientClosed(sink)
  OBVIOUS
<1> HIDE DEF l
<1>3. SinkRec(sink) /\ SocketOK(sink) /\ sink.out = <<>>
  BY DEF RtspInv, Exchange, SinkOK, SocketOK
<1>4. Same(sink, l) /\ Stays(sink, l, FALSE) /\ l.out = <<>>
  BY <1>2, <1>3, ClientClosedEffect
<1>5. Fewer(sink, l)
  BY <1>4, SameIsFewer
<1>6. SinkOK(l, link')
  <2>1. Stays(sink, l, link \in {"up", "deaf"})
    BY <1>1, <1>4 DEF Stays
  <2>2. SinkOK(sink, link)
    BY DEF RtspInv
  <2> QED
    BY <1>1, <2>1, <2>2, SinkOKStays
<1>7. "STOPED" \in sink.told => "STOPED" \in l.told
  BY <1>4 DEF Stays
<1> QED
  BY <1>1, <1>4, <1>5, <1>6, <1>7, SinkStepsBack

\* What a step of another thread may set first: nothing that the exchange or its end depends on.
LEMMA SinkIdlesTwice ==
    ASSUME RtspInv, source' = source, toSink' = toSink, link' = link,
           NEW s, Same(sink, s), Stays(sink, s, TRUE), s.out = sink.out,
           NEW l, l = s \/ l = Sink!CheckInterrupt(s) \/ (\E what : what \notin {"PLAYED", "STOPED"} /\ l = Sink!NotifyAgent(s, what)),
           sink' = [l EXCEPT !.out = <<>>], toSource' = toSource \o l.out
    PROVE  RtspInv' /\ [Cast!Next]_(Cast!vars)
<1>1. SinkRec(s) /\ s.out = <<>>
  BY DEF Same, RtspInv
<1>2. Same(s, l) /\ Stays(s, l, TRUE) /\ l.out = s.out
  <2>1. CASE l = s
    BY <1>1, <2>1 DEF Same, Stays
  <2>2. CASE l = Sink!CheckInterrupt(s)
    BY <1>1, <2>2, CheckInterruptEffect
  <2>3. CASE \E what : what \notin {"PLAYED", "STOPED"} /\ l = Sink!NotifyAgent(s, what)
    <3>1. PICK what : what \notin {"PLAYED", "STOPED"} /\ l = Sink!NotifyAgent(s, what)
      BY <2>3
    <3>2. SinkRec(s)
      BY <1>1
    <3> QED
      BY <3>1, <3>2, NotifyEffect
  <2> QED
    BY <2>1, <2>2, <2>3
<1>3. Same(sink, l) /\ Stays(sink, l, TRUE) /\ l.out = <<>>
  BY <1>1, <1>2, SameTwice
<1> QED
  BY <1>3, SinkIdles

\* TimeoutCallback.
LEMMA SinkHasExpired ==
    ASSUME RtspInv, SinkExpires
    PROVE  RtspInv' /\ [Cast!Next]_(Cast!vars)
<1> DEFINE s == [sink EXCEPT !.timer = "off"]
           l == IF s.timeoutCall = "negotiate" /\ s.interrupting THEN Sink!CheckInterrupt(s) ELSE Sink!NotifyServiceError(s)
<1>1. /\ source' = source /\ toSink' = toSink /\ link' = link
      /\ sink' = [l EXCEPT !.out = <<>>] /\ toSource' = toSource \o l.out
  BY DEF SinkExpires, Sink!TimeoutCallback, Sink!Become
<1>2. l = Sink!CheckInterrupt(s) \/ l = Sink!NotifyAgent(s, "ERROR")
  BY DEF Sink!NotifyServiceError
<1>3. Same(sink, s) /\ Stays(sink, s, TRUE) /\ s.out = sink.out
  BY DEF RtspInv, Exchange, Same, Stays, SinkRec, SinkFields
<1> HIDE DEF s, l
<1> QED
  BY <1>1, <1>2, <1>3, SinkIdlesTwice

\* KeepAliveCallback.
LEMMA SinkHasNoKeepAlive ==
    ASSUME RtspInv, SinkKeepAlive
    PROVE  RtspInv' /\ [Cast!Next]_(Cast!vars)
<1> DEFINE s == [sink EXCEPT !.keepAlive = "off"]
           l == Sink!NotifyAgent(s, "ERROR")
<1>1. /\ source' = source /\ toSink' = toSink /\ link' = link
      /\ sink' = [l EXCEPT !.out = <<>>] /\ toSource' = toSource \o l.out
  BY DEF SinkKeepAlive, Sink!KeepAliveCallback, Sink!Become, Sink!NotifyServiceError
<1>2. l = Sink!NotifyAgent(s, "ERROR")
  OBVIOUS
<1>3. Same(sink, s) /\ Stays(sink, s, TRUE) /\ s.out = sink.out
  BY DEF RtspInv, Exchange, Same, Stays, SinkRec, SinkFields
<1> HIDE DEF s, l
<1> QED
  BY <1>1, <1>2, <1>3, SinkIdlesTwice

\* PauseOrResume.
LEMMA SinkHasPaused ==
    ASSUME RtspInv, SinkPauses
    PROVE  RtspInv' /\ [Cast!Next]_(Cast!vars)
<1>1. PICK status \in {"PAUSE", "RESUME"} :
         Sink!Become(LET s == [sink EXCEPT !.status = status]
                     IN  IF s.interrupting THEN s ELSE Sink!NotifyAgent(s, status))
  BY DEF SinkPauses, Sink!PauseOrResume
<1> DEFINE s == [sink EXCEPT !.status = status]
           l == IF s.interrupting THEN s ELSE Sink!NotifyAgent(s, status)
<1>2. /\ source' = source /\ toSink' = toSink /\ link' = link
      /\ sink' = [l EXCEPT !.out = <<>>] /\ toSource' = toSource \o l.out
  BY <1>1 DEF SinkPauses, Sink!PauseOrResume, Sink!Become
<1>3. l = s \/ (status \notin {"PLAYED", "STOPED"} /\ l = Sink!NotifyAgent(s, status))
  OBVIOUS
<1>4. Same(sink, s) /\ Stays(sink, s, TRUE) /\ s.out = sink.out
  BY DEF RtspInv, Exchange, Same, Stays, SinkRec, SinkFields
<1> HIDE DEF s, l
<1> QED
  BY <1>2, <1>3, <1>4, SinkIdlesTwice

\* ProsumerCreated and ProsumerReports.
LEMMA SinkHasProsumer ==
    ASSUME RtspInv, SinkProsumer
    PROVE  RtspInv' /\ [Cast!Next]_(Cast!vars)
<1>1. \E media, what : Sink!Become(LET s == [sink EXCEPT !.media = media]
                                   IN  IF s.interrupting /\ s.status = "INTERRUPT"
                                       THEN Sink!CheckInterrupt(s) ELSE Sink!NotifyAgent(s, what))
                       /\ what \in {"MEDIA_INIT", "STARTED", "ERROR"}
  BY DEF SinkProsumer, Sink!ProsumerCreated, Sink!ProsumerReports
<1>2. PICK media, what : Sink!Become(LET s == [sink EXCEPT !.media = media]
                                     IN  IF s.interrupting /\ s.status = "INTERRUPT"
                                         THEN Sink!CheckInterrupt(s) ELSE Sink!NotifyAgent(s, what))
                         /\ what \in {"MEDIA_INIT", "STARTED", "ERROR"}
  BY <1>1
<1> DEFINE s == [sink EXCEPT !.media = media]
           l == IF s.interrupting /\ s.status = "INTERRUPT" THEN Sink!CheckInterrupt(s) ELSE Sink!NotifyAgent(s, what)
<1>3. /\ source' = source /\ toSink' = toSink /\ link' = link
      /\ sink' = [l EXCEPT !.out = <<>>] /\ toSource' = toSource \o l.out
  BY <1>2 DEF SinkProsumer, Sink!ProsumerCreated, Sink!ProsumerReports, Sink!Become
<1>4. l = Sink!CheckInterrupt(s) \/ (what \notin {"PLAYED", "STOPED"} /\ l = Sink!NotifyAgent(s, what))
  BY <1>2
<1>5. Same(sink, s) /\ Stays(sink, s, TRUE) /\ s.out = sink.out
  BY DEF RtspInv, Exchange, Same, Stays, SinkRec, SinkFields
<1> HIDE DEF s, l
<1> QED
  BY <1>3, <1>4, <1>5, SinkIdlesTwice

\* UpdateOperation(SESSION_INTERRUPT).
LEMMA SinkIsInterrupted ==
    ASSUME RtspInv, SinkInterrupt
    PROVE  RtspInv' /\ [Cast!Next]_(Cast!vars)
<1> DEFINE s == [sink EXCEPT !.status = "INTERRUPT"]
           t == Sink!CheckInterrupt(s)
           l == [t EXCEPT !.interrupting = TRUE]
<1>1. /\ source' = source /\ toSink' = toSink /\ link' = link
      /\ sink' = [l EXCEPT !.out = <<>>] /\ toSource' = toSource \o l.out
  BY DEF SinkInterrupt, Sink!Interrupt, Sink!Become
<1>2. Same(sink, s) /\ Stays(sink, s, TRUE) /\ s.out = sink.out /\ SinkRec(s)
  BY DEF RtspInv, Exchange, Same, Stays, SinkRec, SinkFields
<1>3. t = Sink!CheckInterrupt(s)
  OBVIOUS
<1> HIDE DEF s
<1>4. Same(s, t) /\ Stays(s, t, TRUE) /\ t.out = s.out
  BY <1>2, <1>3, CheckInterruptEffect
<1> HIDE DEF t
<1>5. Same(sink, t) /\ Stays(sink, t, TRUE) /\ t.out = sink.out
  BY <1>2, <1>4, SameTwice
<1>6. SinkRec(t)
  BY <1>4 DEF Same
<1>7. Same(sink, l) /\ Stays(sink, l, TRUE) /\ l.out = sink.out
  BY <1>5, <1>6 DEF Same, Stays, SinkRec, SinkFields
<1> HIDE DEF l
<1> QED
  BY <1>1, <1>7, SinkIdlesTwice

\* A failed attempt ends the start, or the next one begins.
LEMMA AttemptFailsEffect ==
    ASSUME NEW s, SinkRec(s), NEW l, l = Sink!AttemptFails(s)
    PROVE  /\ Same(s, l) /\ l.out = s.out /\ l.client = s.client /\ l.socket = s.socket
           /\ l.sending = s.sending /\ l.connected = s.connected /\ SameStop(s, l)
           /\ l.starting \in {"connecting", "no"}
<1> DEFINE t == [s EXCEPT !.tries = @ + 1, !.starting = "connecting"]
           over == [t EXCEPT !.starting = "no"]
           u == IF l.starting = "no" THEN over ELSE t
<1>1. l = Sink!CheckInterrupt(over) \/ l = Sink!NotifyAgent(over, "ERROR") \/ l = t
  BY DEF Sink!AttemptFails, Sink!NotifyServiceError
<1>2. /\ SinkRec(over) /\ Same(s, over) /\ over.out = s.out /\ over.client = s.client /\ over.socket = s.socket
      /\ over.sending = s.sending /\ over.connected = s.connected /\ SameStop(s, over) /\ over.starting = "no"
  BY DEF Same, SameStop, SinkRec, SinkFields
<1>3. /\ Same(s, t) /\ t.out = s.out /\ t.client = s.client /\ t.socket = s.socket
      /\ t.sending = s.sending /\ t.connected = s.connected /\ SameStop(s, t) /\ t.starting = "connecting"
  BY DEF Same, SameStop, SinkRec, SinkFields
<1> HIDE DEF t, over
<1>4. CASE l = Sink!CheckInterrupt(over) \/ l = Sink!NotifyAgent(over, "ERROR")
  <2>1. Same(over, l) /\ Stays(over, l, TRUE) /\ l.out = over.out /\ l.client = over.client
    <3>1. CASE l = Sink!CheckInterrupt(over)
      BY <1>2, <3>1, CheckInterruptEffect
    <3>2. CASE l = Sink!NotifyAgent(over, "ERROR")
      <4>1. SinkRec(over) /\ "ERROR" \notin {"PLAYED", "STOPED"}
        BY <1>2
      <4> QED
        BY ONLY <3>2, <4>1, NotifyEffect
    <3> QED
      BY <1>4, <3>1, <3>2
  <2> QED
    BY <1>2, <2>1 DEF Same, Stays, SameStop
<1> QED
  BY <1>1, <1>3, <1>4

\* A connection attempt fails.
LEMMA SinkHasFailed ==
    ASSUME RtspInv, ConnectFails
    PROVE  RtspInv' /\ [Cast!Next]_(Cast!vars)
<1> DEFINE l == Sink!AttemptFails(sink)
<1>1. /\ source' = source /\ toSink' = toSink /\ link' = link /\ sink.starting = "connecting"
      /\ sink' = [l EXCEPT !.out = <<>>] /\ toSource' = toSource \o l.out
  BY DEF ConnectFails, Sink!ConnectFails, Sink!Become
<1>2. SinkRec(sink) /\ l = Sink!AttemptFails(sink)
  BY DEF RtspInv, Exchange
<1> HIDE DEF l
<1>3. /\ Same(sink, l) /\ l.out = sink.out /\ l.client = sink.client /\ l.socket = sink.socket
      /\ l.sending = sink.sending /\ l.connected = sink.connected /\ SameStop(sink, l)
      /\ l.starting \in {"connecting", "no"}
  BY <1>2, AttemptFailsEffect
<1>4. SinkOK(l, link') /\ l.out = <<>>
  BY <1>1, <1>3 DEF RtspInv, SinkOK, Same, SameStop
<1>5. Fewer(sink, l) /\ ("STOPED" \in sink.told => "STOPED" \in l.told)
  BY <1>3 DEF Same, SameStop, Fewer
<1> QED
  BY <1>1, <1>4, <1>5, SinkStepsBack

\* The connection is made and select() returned.
LEMMA SinkHasSelected ==
    ASSUME RtspInv, SinkSelects
    PROVE  RtspInv' /\ [Cast!Next]_(Cast!vars)
<1>1. PICK rc : Sink!SelectReturns(rc)
  BY DEF SinkSelects
<1> DEFINE x == Sink!TcpClientConnect(rc)
           s == [sink EXCEPT !.socket = x]
<1>2. x \in SocketType /\ (x.heard => x.known) /\ (~x.heard => x = Closed)
  BY DEF Sink!TcpClientConnect, Sink!CheckAsyncConnect, Sink!AddFdListener, Sink!CreateSocket, Sink!CloseSocket,
         Sink!AddEventHandler, Sink!Closed, Closed, SocketType
<1>3. /\ sink.starting = "selecting" /\ source' = source /\ sink.out = <<>>
      /\ Exchange(sink, source, toSink, toSource) /\ SinkOK(sink, link) /\ SinkRec(sink)
  BY <1>1 DEF Sink!SelectReturns, SinkSelects, RtspInv, Exchange
<1>4. Closed \in SocketType /\ ~Closed.heard
  BY DEF Closed, SocketType
<1>5. CASE x.heard
  <2> DEFINE l == [s EXCEPT !.starting = "arming"]
  <2>1. sink' = [l EXCEPT !.out = <<>>] /\ toSource' = toSource \o l.out /\ toSink' = toSink /\ link' = link
    BY <1>1, <1>3, <1>5 DEF Sink!SelectReturns, Sink!CreateTcpClient, Sink!Become, SinkRec, SinkFields
  <2>2. /\ Fewer(sink, l) /\ l.out = <<>> /\ l.told = sink.told /\ l.starting = "arming" /\ l.socket = x
        /\ l.client = sink.client /\ l.sending = sink.sending /\ l.wfd = sink.wfd
        /\ l.connected = sink.connected
    BY <1>3 DEF Fewer, SinkRec, SinkFields
  <2> HIDE DEF l, x, s
  <2>3. SinkOK(l, link')
    BY <1>2, <1>3, <1>5, <2>1, <2>2 DEF SinkOK
  <2> QED
    BY <1>3, <2>1, <2>2, <2>3, SinkStepsBack
<1>6. CASE ~x.heard
  <2> DEFINE l == Sink!AttemptFails(s)
  <2>1. sink' = [l EXCEPT !.out = <<>>] /\ toSource' = toSource \o l.out /\ toSink' = <<>> /\ link' = "down"
    BY <1>1, <1>3, <1>6 DEF Sink!SelectReturns, Sink!CreateTcpClient, Sink!Become, SinkRec, SinkFields
  <2>2. /\ SinkRec(s) /\ Same(sink, s) /\ s.out = <<>> /\ s.told = sink.told /\ s.socket = x
        /\ s.client = sink.client /\ s.sending = sink.sending
        /\ s.connected = sink.connected /\ l = Sink!AttemptFails(s)
    BY <1>3 DEF Same, SinkRec, SinkFields
  <2> HIDE DEF l, x, s
  <2>3. /\ Same(s, l) /\ l.out = s.out /\ l.client = s.client /\ l.socket = s.socket
        /\ l.sending = s.sending /\ l.connected = s.connected /\ SameStop(s, l)
        /\ l.starting \in {"connecting", "no"}
    BY <2>2, AttemptFailsEffect
  <2>4. SinkOK(l, link')
    BY <1>2, <1>3, <1>4, <1>6, <2>1, <2>2, <2>3 DEF SinkOK, Same, SameStop
  <2>5. Fewer(sink, l) /\ l.out = <<>> /\ SameStop(sink, l)
    BY <2>2, <2>3 DEF Same, SameStop, Fewer
  <2>6. Exchange(l, source, toSink', toSource')
    <3>1. Queue(toSink) /\ Queue(toSource)
      BY <1>3 DEF Exchange
    <3>2. Suffix(toSink, <<>>, Len(toSink))
      BY <3>1, QueueLength, EmptyQueue DEF Suffix
    <3>3. Exchange(sink, source, toSink', toSource)
      BY <1>3, <2>1, <3>2, ReadBySink
    <3>4. toSource' = toSource
      <4>1. PICK S : toSource \in Seq(S)
        BY <3>1 DEF Queue
      <4> QED
        BY <2>1, <2>5, <4>1
    <3> QED
      BY <2>5, <3>3, <3>4, SinkGivesUp
  <2>7. SinkSaid(sink, l, source)
    BY <2>5 DEF Fewer, SinkSaid, Unheard, Plays, SameStop
  <2> QED
    BY <1>3, <2>1, <2>4, <2>6, <2>7, SinkActs
<1> QED
  BY <1>5, <1>6

\* The timer is set up.
LEMMA SinkHasArmed ==
    ASSUME RtspInv, SinkArms
    PROVE  RtspInv' /\ [Cast!Next]_(Cast!vars)
<1> DEFINE t == [sink EXCEPT !.starting = "no", !.timer = "M1", !.timeoutCall = "negotiate"]
           s == [t EXCEPT !.connected = ~(t.interrupting /\ t.status = "INTERRUPT")]
           l == Sink!CheckInterrupt(s)
<1>1. /\ source' = source /\ toSink' = toSink /\ link' = link /\ sink.starting = "arming"
      /\ sink' = [l EXCEPT !.out = <<>>] /\ toSource' = toSource \o l.out
  BY DEF SinkArms, Sink!ArmSession, Sink!Become
<1>2. /\ SinkRec(sink) /\ sink.out = <<>> /\ SinkOK(sink, link)
  BY DEF RtspInv, Exchange
<1>3. /\ SinkRec(s) /\ Same(sink, s) /\ s.out = <<>> /\ s.told = sink.told /\ s.socket = sink.socket
      /\ s.client = sink.client /\ s.sending = sink.sending /\ s.starting = "no"
      /\ l = Sink!CheckInterrupt(s)
  BY <1>2 DEF Same, SinkRec, SinkFields
<1> HIDE DEF s, l, t
<1>4. Same(s, l) /\ Stays(s, l, TRUE) /\ l.out = s.out /\ l.client = s.client
  BY <1>3, CheckInterruptEffect
<1>5. SinkOK(l, link')
  BY <1>1, <1>2, <1>3, <1>4 DEF SinkOK, Same, Stays
<1>6. Fewer(sink, l) /\ l.out = <<>> /\ ("STOPED" \in sink.told => "STOPED" \in l.told)
  BY <1>3, <1>4 DEF Same, Stays, Fewer
<1> QED
  BY <1>1, <1>5, <1>6, SinkStepsBack

\* The client is made before a number was given out.
LEMMA SinkHasStarted ==
    ASSUME RtspInv, SinkStarts
    PROVE  RtspInv' /\ [Cast!Next]_(Cast!vars)
<1>1. PICK config :
         Sink!Become([sink EXCEPT !.status = "START", !.starting = "connecting", !.client = TRUE, !.config = config])
  BY DEF SinkStarts, Sink!StartSession
<1> DEFINE l == [sink EXCEPT !.status = "START", !.starting = "connecting", !.client = TRUE, !.config = config]
<1>2. /\ source' = source /\ toSink' = toSink /\ link' = link /\ sink.starting = "never"
      /\ sink' = [l EXCEPT !.out = <<>>] /\ toSource' = toSource \o l.out
  BY <1>1 DEF SinkStarts, Sink!StartSession, Sink!Become
<1>3. /\ Exchange(sink, source, toSink, toSource) /\ SinkOK(sink, link) /\ SinkRec(sink) /\ sink.out = <<>>
  BY DEF RtspInv, Exchange
<1>4. /\ SinkRec(l) /\ l.out = <<>> /\ l.client /\ l.starting = "connecting" /\ l.socket = sink.socket
      /\ l.told = sink.told /\ l.sending = sink.sending /\ l.connected = sink.connected
      /\ l.last = sink.last /\ l.handlers = sink.handlers /\ l.creates = sink.creates
      /\ l.firstCreate = sink.firstCreate /\ l.cseq = sink.cseq /\ l.wfd = sink.wfd
  BY <1>3 DEF SinkRec, SinkFields
<1> HIDE DEF l
<1>5. sink.cseq = 0 /\ ~sink.socket.heard
  BY <1>2, <1>3 DEF SinkOK
<1>6. Exchange(l, source, toSink, toSource)
  <2>1. OneToken(l, source, toSink, toSource)
    BY <1>3, <1>4 DEF Exchange, OneToken, SinkToken
  <2>2. Progress(l, source, toSink, toSource)
    BY <1>3, <1>4 DEF Exchange, Progress, NoM4, Late, SinkToken, BothAsked, AwaitsM4
  <2>3. Numbers(l, source, toSink, toSource)
    BY <1>3, <1>4, <1>5 DEF Exchange, Numbers, Sending, OnlyTeardown
  <2>4. PlayAlone(l, source, toSink, toSource)
    BY <1>3, <1>4 DEF Exchange, PlayAlone, Sending
  <2>5. Bodies(l, source, toSink, toSource)
    BY <1>3, <1>4 DEF Exchange, Bodies
  <2> QED
    BY <1>3, <1>4, <2>1, <2>2, <2>3, <2>4, <2>5 DEF Exchange
<1>7. SinkOK(l, link')
  BY <1>2, <1>3, <1>4, <1>5 DEF SinkOK
<1>8. SinkSaid(sink, l, source)
  BY <1>4 DEF SinkSaid, Unheard, Plays
<1>9. toSource' = toSource
  <2>1. PICK S : toSource \in Seq(S)
    BY <1>3 DEF Exchange, Queue
  <2> QED
    BY <1>2, <1>4, <2>1
<1>10. Exchange(l, source, toSink', toSource')
  BY <1>2, <1>6, <1>9
<1> QED
  BY <1>2, <1>7, <1>8, <1>10, SinkActs

\* A pool thread takes a number.
LEMMA SinkTakesNumber ==
    ASSUME RtspInv, source' = source, toSink' = toSink, link' = link,
           sink.client, sink.sending[1] = "none", sink.wfd # "STOPPING", sink.connected \/ sink.wfd = "PLAYING",
           NEW what \in {"STOP", "TEARDOWN", "IDR"}, what = "IDR" => sink.wfd = "PLAYING",
           NEW status, NEW idrs,
           NEW l, l = [sink EXCEPT !.status = status, !.idrs = idrs, !.cseq = @ + 1, !.sending = <<what, sink.cseq + 1>>],
           sink' = [l EXCEPT !.out = <<>>], toSource' = toSource \o l.out
    PROVE  RtspInv' /\ [Cast!Next]_(Cast!vars)
<1>1. /\ Exchange(sink, source, toSink, toSource) /\ SinkOK(sink, link) /\ SinkRec(sink) /\ sink.out = <<>>
  BY DEF RtspInv, Exchange
<1>2. /\ SinkRec(l) /\ l.out = <<>> /\ l.client = sink.client /\ l.starting = sink.starting /\ l.socket = sink.socket
      /\ l.told = sink.told /\ l.connected = sink.connected /\ l.sending = <<what, sink.cseq + 1>>
      /\ l.last = sink.last /\ l.handlers = sink.handlers /\ l.creates = sink.creates
      /\ l.firstCreate = sink.firstCreate /\ l.cseq = sink.cseq + 1 /\ l.wfd = sink.wfd
  BY <1>1 DEF SinkRec, SinkFields
<1>3. Exchange(l, source, toSink, toSource)
  <2>1. SinkRec(l)
    BY <1>2
  <2>2. /\ l.cseq = sink.cseq + 1 /\ l.sending[2] = sink.cseq + 1 /\ l.handlers = sink.handlers
        /\ l.creates = sink.creates /\ l.firstCreate = sink.firstCreate /\ l.last = sink.last
        /\ l.wfd = sink.wfd
        /\ "PLAYED" \in l.told <=> "PLAYED" \in sink.told
    BY <1>2
  <2>3. Exchange(sink, source, toSink, toSource)
    BY <1>1
  <2>4. l.sending[1] \in {"STOP", "TEARDOWN", "IDR"} /\ (l.sending[1] = "IDR" => sink.wfd = "PLAYING")
    BY <1>2
  <2> QED
    BY <2>1, <2>2, <2>3, <2>4, PoolBegins
<1>4. SinkOK(l, link')
  BY <1>1, <1>2 DEF SinkOK
<1>5. SinkSaid(sink, l, source)
  BY <1>2 DEF SinkSaid, Unheard, Plays
<1>6. toSource' = toSource
  <2>1. PICK S : toSource \in Seq(S)
    BY <1>1 DEF Exchange, Queue
  <2> QED
    BY <1>2, <2>1
<1>7. Exchange(l, source, toSink', toSource')
  BY <1>3, <1>6
<1> QED
  BY <1>4, <1>5, <1>7, SinkActs

\* UpdateOperation(SESSION_STOP) and HandleEvent(EVENT_SESSION_TEARDOWN), up to the number of M8.
LEMMA SinkHasBegunM8 ==
    ASSUME RtspInv, SinkStops
    PROVE  RtspInv' /\ [Cast!Next]_(Cast!vars)
<1>1. /\ Exchange(sink, source, toSink, toSource) /\ SinkOK(sink, link) /\ SinkRec(sink) /\ sink.out = <<>>
  BY DEF RtspInv, Exchange
<1>2. CASE Sink!TeardownBegin
  <2> DEFINE l == [sink EXCEPT !.status = sink.status, !.idrs = sink.idrs, !.cseq = @ + 1,
                               !.sending = <<"TEARDOWN", sink.cseq + 1>>]
  <2>1. l = [sink EXCEPT !.cseq = @ + 1, !.sending = <<"TEARDOWN", sink.cseq + 1>>]
    BY <1>1 DEF SinkRec, SinkFields
  <2>2. /\ source' = source /\ toSink' = toSink /\ link' = link
        /\ sink.client /\ sink.sending[1] = "none" /\ sink.wfd # "STOPPING" /\ sink.connected
        /\ sink' = [l EXCEPT !.out = <<>>] /\ toSource' = toSource \o l.out
    BY <1>2, <2>1 DEF SinkStops, Sink!TeardownBegin, Sink!MaySendM8, Sink!Become
  <2> QED
    BY <2>2, SinkTakesNumber
<1>3. CASE Sink!StopBegin /\ Sink!MaySendM8([sink EXCEPT !.status = "STOP"])
  <2> DEFINE s == [sink EXCEPT !.status = "STOP"]
             l == [sink EXCEPT !.status = "STOP", !.idrs = sink.idrs, !.cseq = @ + 1,
                               !.sending = <<"STOP", sink.cseq + 1>>]
  <2>1. l = [s EXCEPT !.cseq = @ + 1, !.sending = <<"STOP", s.cseq + 1>>]
    BY <1>1 DEF SinkRec, SinkFields
  <2>2. /\ source' = source /\ toSink' = toSink /\ link' = link
        /\ sink.client /\ sink.sending[1] = "none" /\ sink.wfd # "STOPPING" /\ sink.connected
    BY <1>1, <1>3 DEF SinkStops, Sink!StopBegin, Sink!MaySendM8, SinkRec, SinkFields
  <2>3. sink' = [l EXCEPT !.out = <<>>] /\ toSource' = toSource \o l.out
    BY <1>3, <2>1 DEF Sink!StopBegin, Sink!Become
  <2> QED
    BY <2>2, <2>3, SinkTakesNumber
<1>4. CASE Sink!StopBegin /\ ~Sink!MaySendM8([sink EXCEPT !.status = "STOP"])
  <2> DEFINE s == [sink EXCEPT !.status = "STOP"]
             l == Sink!NotifyAgent([s EXCEPT !.connected = FALSE], "STOPED")
  <2>1. /\ source' = source /\ toSink' = toSink /\ link' = link /\ sink.starting = "no"
        /\ sink' = [l EXCEPT !.out = <<>>] /\ toSource' = toSource \o l.out
    BY <1>4 DEF SinkStops, Sink!StopBegin, Sink!Become
  <2>2. /\ Fewer(sink, l) /\ l.out = <<>> /\ l.told = sink.told \cup {"STOPED"} /\ l.starting = sink.starting
        /\ l.socket = sink.socket /\ l.client = sink.client /\ l.sending = sink.sending /\ ~l.connected
        /\ l.wfd = sink.wfd
    BY <1>1 DEF Sink!NotifyAgent, Fewer, SinkRec, SinkFields
  <2> HIDE DEF l, s
  <2>3. SinkOK(l, link')
    BY <1>1, <2>1, <2>2 DEF SinkOK, Fewer
  <2> QED
    BY <2>1, <2>2, <2>3, SinkStepsBack
<1> QED
  BY <1>2, <1>3, <1>4 DEF SinkStops

\* SendIDRRequest, up to the number.
LEMMA SinkHasBegunIdr ==
    ASSUME RtspInv, SinkIdr
    PROVE  RtspInv' /\ [Cast!Next]_(Cast!vars)
<1> DEFINE l == [sink EXCEPT !.status = sink.status, !.idrs = sink.idrs + 1, !.cseq = @ + 1,
                             !.sending = <<"IDR", sink.cseq + 1>>]
<1>1. SinkRec(sink)
  BY DEF RtspInv, Exchange
<1>2. l = [sink EXCEPT !.idrs = @ + 1, !.cseq = @ + 1, !.sending = <<"IDR", sink.cseq + 1>>]
  BY <1>1 DEF SinkRec, SinkFields
<1>3. /\ source' = source /\ toSink' = toSink /\ link' = link
      /\ sink.client /\ sink.sending[1] = "none" /\ sink.wfd = "PLAYING"
      /\ sink' = [l EXCEPT !.out = <<>>] /\ toSource' = toSource \o l.out
  BY <1>2 DEF SinkIdr, Sink!IdrBegin, Sink!Become
<1> QED
  BY <1>3, SinkTakesNumber

\* The agent lets go of the session.
LEMMA SinkIsDestroyed ==
    ASSUME RtspInv, SinkDestroys
    PROVE  RtspInv' /\ [Cast!Next]_(Cast!vars)
<1> DEFINE x == Sink!Disconnect(sink.socket)
           s == [sink EXCEPT !.status = "DESTROY", !.client = FALSE, !.socket = x,
                             !.connected = FALSE, !.timer = "null", !.keepAlive = "null"]
           l == Sink!NotifyAgent(s, "DESTROYED")
<1>1. /\ Exchange(sink, source, toSink, toSource) /\ SinkOK(sink, link) /\ SinkRec(sink) /\ sink.out = <<>>
  BY DEF RtspInv, Exchange
<1>2. /\ source' = source /\ toSink' = toSink /\ "STOPED" \in sink.told /\ sink.sending[1] = "none"
      /\ link' = IF link \in {"up", "deaf"} THEN "down" ELSE link
      /\ sink' = [l EXCEPT !.out = <<>>] /\ toSource' = toSource \o l.out
  BY DEF SinkDestroys, Sink!DestroySession, Sink!Become, Sink!Up
<1>3. x = Closed
  BY <1>1, SocketCloses DEF SinkOK
<1> HIDE DEF x
<1>4. /\ Fewer(sink, l) /\ l.out = <<>> /\ l.told = sink.told \cup {"DESTROYED"} /\ l.starting = sink.starting
      /\ l.socket = Closed /\ ~l.client /\ l.sending = sink.sending /\ ~l.connected
      /\ l.wfd = sink.wfd
  <2>1. /\ SinkRec(s) /\ s.told = sink.told /\ s.starting = sink.starting /\ s.socket = Closed /\ ~s.client
        /\ s.sending = sink.sending /\ ~s.connected /\ s.wfd = sink.wfd /\ s.last = sink.last
        /\ s.handlers = sink.handlers /\ s.creates = sink.creates /\ s.firstCreate = sink.firstCreate
        /\ s.cseq = sink.cseq /\ s.out = <<>>
    BY ONLY <1>1, <1>3 DEF SinkRec, SinkFields
  <2> HIDE DEF s
  <2> QED
    BY ONLY <2>1 DEF Sink!NotifyAgent, Fewer, SinkRec, SinkFields
<1> HIDE DEF l, s
<1>5. Closed \in SocketType /\ ~Closed.heard
  BY DEF Closed, SocketType
<1>6. SinkOK(l, link')
  BY <1>1, <1>2, <1>4, <1>5 DEF SinkOK, Fewer
<1> QED
  BY <1>2, <1>4, <1>6, SinkStepsBack

\* A queue behind which nothing is sent, and one behind which a message is.
LEMMA SentOnly ==
    ASSUME NEW q, Queue(q)
    PROVE  /\ q \o <<>> = q
           /\ \A m : IsMessage(m) /\ m.part = "whole" => Appended(q, m, q \o <<m>>)
<1>1. q \o <<>> = q
  <2>1. PICK S : q \in Seq(S)
    BY DEF Queue
  <2> QED
    BY <2>1
<1>2. ASSUME NEW m, IsMessage(m), m.part = "whole"
      PROVE  Appended(q, m, q \o <<m>>)
  <2>1. Appended(q \o <<>>, m, q \o Append(<<>>, m))
    BY <1>2, EmptyQueue, SentBehind DEF Parts
  <2>2. Append(<<>>, m) = <<m>>
    OBVIOUS
  <2> QED
    BY <1>1, <2>1, <2>2
<1> QED
  BY <1>1, <1>2

\* A pool thread has sent m and is done: f is the session behind it.
Finished(k, f, m) ==
    /\ SinkRec(f) /\ f.out = <<m>>
    /\ IsMessage(m) /\ m.part = "whole" /\ m.req /\ m.cseq = k.sending[2]
    /\ m.method \notin {"OPTIONS", "PLAY"} /\ (m.body # "none" => m.method = "SET_PARAMETER")
    /\ \A h \in f.handlers : h \in k.handlers \/ (h = <<k.cseq, "M8">>) \/ (h = <<k.cseq, "IDR">>)
    /\ f.wfd = k.wfd \/ f.wfd = "STOPPING"
    /\ f.wfd = "STOPPING" \/ k.sending[1] = "IDR"
    /\ f.creates = k.creates /\ f.firstCreate = k.firstCreate /\ f.last = k.last /\ f.cseq = k.cseq
    /\ f.client = k.client /\ f.socket = k.socket /\ f.starting = k.starting
    /\ "PLAYED" \in f.told <=> "PLAYED" \in k.told
    /\ "STOPED" \in k.told => "STOPED" \in f.told

\* The second step of a pool thread.
LEMMA SinkHasSent ==
    ASSUME RtspInv, source' = source, toSink' = toSink, link' = link, Sending(sink),
           NEW f, NEW m, sink.client /\ Sink!Up => Finished(sink, f, m),
           NEW l, l = Sink!PoolSend(f), sink' = [l EXCEPT !.out = <<>>], toSource' = toSource \o l.out
    PROVE  RtspInv' /\ [Cast!Next]_(Cast!vars)
<1>1. /\ Exchange(sink, source, toSink, toSource) /\ SinkOK(sink, link) /\ SinkRec(sink) /\ sink.out = <<>>
      /\ Queue(toSource) /\ SocketOK(sink)
  BY DEF RtspInv, Exchange, SinkOK, SocketOK
<1>2. sink.sending[1] # "none" /\ sink.starting \in {"arming", "no"} /\ link # "none"
  BY <1>1 DEF Sending, SinkOK
<1>3. toSource \o <<>> = toSource
  BY <1>1, SentOnly
<1>4. CASE ~sink.client
  <2>1. l = [sink EXCEPT !.sending = <<"crash", 0>>]
    BY <1>4 DEF Sink!PoolSend
  <2>2. /\ SinkRec(l) /\ l.out = <<>> /\ l.client = sink.client /\ l.starting = sink.starting /\ l.socket = sink.socket
        /\ l.told = sink.told /\ l.connected = sink.connected /\ l.sending = <<"crash", 0>>
        /\ l.last = sink.last /\ l.handlers = sink.handlers /\ l.creates = sink.creates
        /\ l.firstCreate = sink.firstCreate /\ l.cseq = sink.cseq /\ l.wfd = sink.wfd
    BY ONLY <1>1, <2>1 DEF SinkRec, SinkFields
  <2>3. l.sending[1] = "crash"
    BY <2>2
  <2>4. Exchange(l, source, toSink, toSource)
    BY <1>1, <2>2, <2>3, PoolEnds
  <2>5. SinkOK(l, link')
    BY <1>1, <1>2, <1>4, <2>2, <2>3 DEF SinkOK
  <2>6. SinkSaid(sink, l, source)
    BY <2>2 DEF SinkSaid, Unheard, Plays
  <2>7. Exchange(l, source, toSink', toSource')
    BY <1>3, <2>2, <2>4
  <2> QED
    BY <2>5, <2>6, <2>7, SinkActs
<1>5. CASE sink.client /\ ~Sink!Up
  <2> DEFINE s == Sink!ClientClosed(sink)
  <2>1. l = [s EXCEPT !.sending = <<"deadlock", 0>>] /\ s = Sink!ClientClosed(sink)
    BY <1>5 DEF Sink!PoolSend
  <2> HIDE DEF s
  <2>2. Same(sink, s) /\ Stays(sink, s, FALSE) /\ s.out = sink.out /\ ~s.client
    BY <1>1, <2>1, ClientClosedEffect
  <2>3. /\ SinkRec(l) /\ l.out = <<>> /\ l.client = s.client /\ l.starting = s.starting /\ l.socket = s.socket
        /\ l.told = s.told /\ l.connected = s.connected /\ l.sending = <<"deadlock", 0>>
        /\ l.last = s.last /\ l.handlers = s.handlers /\ l.creates = s.creates
        /\ l.firstCreate = s.firstCreate /\ l.cseq = s.cseq /\ l.wfd = s.wfd
    BY ONLY <1>1, <2>1, <2>2 DEF Same, SinkRec, SinkFields
  <2>4. l.sending[1] = "deadlock" /\ SameStop(sink, l)
    BY <2>2, <2>3 DEF Stays, SameStop
  <2>5. Exchange(l, source, toSink, toSource)
    <3>1. /\ l.handlers = sink.handlers /\ l.creates = sink.creates /\ l.firstCreate = sink.firstCreate
          /\ l.last = sink.last /\ l.cseq = sink.cseq /\ l.wfd = sink.wfd
          /\ "PLAYED" \in l.told <=> "PLAYED" \in sink.told
      BY <2>2, <2>3 DEF Same
    <3> QED
      BY <1>1, <2>3, <2>4, <3>1, PoolEnds
  <2>6. SinkOK(l, link')
    <3>1. link = "down"
      BY <1>1, <1>2, <1>5 DEF Sink!Up, SinkOK
    <3>2. l.socket = Closed /\ l.starting = sink.starting
      <4>1. SinkRec(s) /\ (s.socket = Closed \/ s.client = sink.client)
        BY <2>2 DEF Stays
      <4> QED
        BY <1>5, <2>2, <2>3, <4>1 DEF Stays
    <3>3. Closed \in SocketType /\ ~Closed.heard
      BY DEF Closed, SocketType
    <3> QED
      BY <1>1, <1>2, <2>2, <2>3, <2>4, <3>1, <3>2, <3>3 DEF SinkOK
  <2>7. SinkSaid(sink, l, source)
    BY <2>2, <2>3, <2>4 DEF SinkSaid, Unheard, Plays, Same, SameStop
  <2>8. Exchange(l, source, toSink', toSource')
    BY <1>3, <2>3, <2>5
  <2> QED
    BY <2>6, <2>7, <2>8, SinkActs
<1>6. CASE sink.client /\ Sink!Up
  <2>1. l = [f EXCEPT !.sending = <<"none", 0>>] /\ Finished(sink, f, m)
    BY <1>6 DEF Sink!PoolSend
  <2>2. /\ SinkRec(l) /\ l.out = <<m>> /\ l.client = f.client /\ l.starting = f.starting /\ l.socket = f.socket
        /\ l.told = f.told /\ l.sending = <<"none", 0>>
        /\ l.last = f.last /\ l.handlers = f.handlers /\ l.creates = f.creates
        /\ l.firstCreate = f.firstCreate /\ l.cseq = f.cseq /\ l.wfd = f.wfd
    BY <2>1 DEF Finished, SinkRec, SinkFields
  <2>3. l.sending[1] = "none"
    BY <2>2
  <2> DEFINE r == toSource \o <<m>>
  <2>4. Appended(toSource, m, r) /\ r = toSource'
    BY <1>1, <2>1, <2>2, SentOnly DEF Finished
  <2> HIDE DEF r
  <2>5. Exchange(sink, source, toSink, r)
    <3>1. m.req /\ m.part = "whole" /\ (m.body # "none" => m.method = "SET_PARAMETER") /\ m.cseq = sink.sending[2]
      BY <2>1 DEF Finished
    <3>2. ~IsOptions(m) /\ ~IsPlay(m) /\ ~TokenToSource(m)
      BY <2>1 DEF Finished, IsOptions, IsPlay, TokenToSource
    <3>3. m.cseq <= sink.cseq
      BY <1>1, <3>1 DEF Exchange, Numbers
    <3>4. \A h \in sink.handlers : ~(h[2] = "M7" /\ h[1] = m.cseq)
      BY <1>1, <3>1 DEF Exchange, PlayAlone
    <3>5. \A h \in sink.handlers : h[2] = "M7" /\ h[1] = m.cseq => IsPlay(m)
      BY <3>4
    <3>6. Exchange(sink, source, toSink, toSource)
      BY <1>1
    <3> QED
      BY <2>4, <3>1, <3>2, <3>3, <3>5, <3>6, SinkAsks
  <2>6. Exchange(l, source, toSink, r)
    <3>1. \A h \in l.handlers : h \in sink.handlers \/ (h = <<sink.cseq, "M8">>) \/ (h = <<sink.cseq, "IDR">>)
      BY <2>1, <2>2 DEF Finished
    <3>2. (l.wfd = sink.wfd \/ l.wfd = "STOPPING") /\ (l.wfd = "STOPPING" \/ sink.sending[1] = "IDR")
      BY <2>1, <2>2 DEF Finished
    <3>3. /\ l.creates = sink.creates /\ l.firstCreate = sink.firstCreate /\ l.last = sink.last /\ l.cseq = sink.cseq
          /\ "PLAYED" \in l.told <=> "PLAYED" \in sink.told
      BY <2>1, <2>2 DEF Finished
    <3>4. SinkRec(l)
      BY <2>2
    <3> QED
      BY <2>3, <2>5, <3>1, <3>2, <3>3, <3>4, PoolEnds
  <2>7. SinkOK(l, link')
    <3>1. /\ l.client = sink.client /\ l.starting = sink.starting /\ l.socket = sink.socket /\ l.cseq = sink.cseq
          /\ l.wfd = sink.wfd \/ l.wfd = "STOPPING"
      BY <2>1, <2>2 DEF Finished
    <3> QED
      BY <1>1, <1>2, <1>6, <2>3, <3>1 DEF SinkOK
  <2>8. SinkSaid(sink, l, source)
    BY <2>1, <2>2 DEF Finished, SinkSaid, Unheard, Plays
  <2>9. Exchange(l, source, toSink', toSource')
    BY <2>4, <2>6
  <2> QED
    BY <2>7, <2>8, <2>9, SinkActs
<1> QED
  BY <1>4, <1>5, <1>6

\* The number of a pool thread is one.
LEMMA PoolNumber ==
    ASSUME RtspInv, Sending(sink)
    PROVE  sink.sending[2] \in Nat /\ SinkRec(sink) /\ sink.out = <<>>
BY DEF RtspInv, Exchange, Numbers

\* SendM8Request, behind ++cseq_.
LEMMA M8Finished ==
    ASSUME RtspInv, Sending(sink), sink.sending[1] \in {"STOP", "TEARDOWN"}, sink.client, NEW up, up,
           NEW t, t = Sink!FinishM8(sink, sink.sending[2], up),
           NEW f, f = IF sink.sending[1] = "STOP" THEN Sink!NotifyAgent([t EXCEPT !.connected = FALSE], "STOPED")
                      ELSE Sink!CheckInterrupt(t)
    PROVE  Finished(sink, f, Sink!WithSession(Sink!RtspRequestTeardown(sink.sending[2]), sink.session))
<1> DEFINE m == Sink!WithSession(Sink!RtspRequestTeardown(sink.sending[2]), sink.session)
           g == {h \in sink.handlers : h[1] # sink.cseq} \cup {<<sink.cseq, "M8">>}
<1>1. sink.sending[2] \in Nat /\ SinkRec(sink) /\ sink.out = <<>>
  BY PoolNumber
<1>2. Says(m, TRUE, "TEARDOWN", "none", sink.sending[2])
  BY <1>1, SinkMessages
<1>3. t = [[[sink EXCEPT !.handlers = g] EXCEPT !.out = Append(@, m)] EXCEPT !.wfd = "STOPPING"]
  BY DEF Sink!FinishM8, Sink!Send, Sink!SetHandler
<1>4. \A h \in g : h \in sink.handlers \/ h = <<sink.cseq, "M8">>
  OBVIOUS
<1>5. Append(<<>>, m) = <<m>>
  OBVIOUS
<1> HIDE DEF m, g
<1>6. /\ SinkRec(t) /\ t.out = <<m>> /\ t.handlers = g /\ t.wfd = "STOPPING" /\ t.told = sink.told
      /\ t.creates = sink.creates /\ t.firstCreate = sink.firstCreate /\ t.last = sink.last /\ t.cseq = sink.cseq
      /\ t.client = sink.client /\ t.socket = sink.socket /\ t.starting = sink.starting
  BY ONLY <1>1, <1>3, <1>5 DEF SinkRec, SinkFields
<1>7. /\ SinkRec(f) /\ f.out = <<m>> /\ f.handlers = g /\ f.wfd = "STOPPING"
      /\ f.creates = sink.creates /\ f.firstCreate = sink.firstCreate /\ f.last = sink.last /\ f.cseq = sink.cseq
      /\ f.client = sink.client /\ f.socket = sink.socket /\ f.starting = sink.starting
      /\ "PLAYED" \in f.told <=> "PLAYED" \in sink.told
      /\ "STOPED" \in sink.told => "STOPED" \in f.told
  <2>1. CASE sink.sending[1] = "STOP"
    <3> DEFINE u == [t EXCEPT !.connected = FALSE]
    <3>1. f = Sink!NotifyAgent(u, "STOPED")
      BY <2>1
    <3>2. /\ SinkRec(u) /\ u.out = <<m>> /\ u.handlers = g /\ u.wfd = "STOPPING" /\ u.told = sink.told
          /\ u.creates = sink.creates /\ u.firstCreate = sink.firstCreate /\ u.last = sink.last
          /\ u.cseq = sink.cseq /\ u.client = sink.client /\ u.socket = sink.socket /\ u.starting = sink.starting
      BY ONLY <1>6 DEF SinkRec, SinkFields
    <3> HIDE DEF u
    <3> QED
      BY ONLY <3>1, <3>2 DEF Sink!NotifyAgent, SinkRec, SinkFields
  <2>2. CASE sink.sending[1] = "TEARDOWN"
    <3>1. Same(t, f) /\ Stays(t, f, TRUE) /\ f.out = t.out /\ f.client = t.client
      <4>1. f = Sink!CheckInterrupt(t)
        BY <2>2
      <4> QED
        BY ONLY <1>6, <4>1, CheckInterruptEffect
    <3> QED
      BY ONLY <1>6, <3>1 DEF Same, Stays
  <2> QED
    BY <2>1, <2>2
<1> QED
  BY <1>2, <1>4, <1>7 DEF Finished, Says, m

\* SendIDRRequest, behind ++cseq_.
LEMMA IdrFinished ==
    ASSUME RtspInv, Sending(sink), sink.sending[1] = "IDR", NEW up, up,
           NEW f, f = Sink!CheckInterrupt(Sink!FinishIdr(sink, sink.sending[2], up))
    PROVE  Finished(sink, f, Sink!IDRRequest(sink.sending[2], sink.session))
<1> DEFINE m == Sink!IDRRequest(sink.sending[2], sink.session)
           g == {h \in sink.handlers : h[1] # sink.cseq} \cup {<<sink.cseq, "IDR">>}
           s == [sink EXCEPT !.handlers = g]
           x == IF s.timer = "null" THEN s ELSE [s EXCEPT !.timer = "IDR"]
           t == [x EXCEPT !.out = Append(@, m)]
<1>1. sink.sending[2] \in Nat /\ SinkRec(sink) /\ sink.out = <<>>
  BY PoolNumber
<1>2. Says(m, TRUE, "SET_PARAMETER", "idr", sink.sending[2])
  BY <1>1, SinkMessages
<1>3. Sink!FinishIdr(sink, sink.sending[2], up) = t
  BY DEF Sink!FinishIdr, Sink!Send, Sink!SetHandler, Sink!StartTimer
<1>4. \A h \in g : h \in sink.handlers \/ h = <<sink.cseq, "IDR">>
  OBVIOUS
<1>5. Append(<<>>, m) = <<m>>
  OBVIOUS
<1> HIDE DEF m, g
<1>6. /\ SinkRec(s) /\ s.out = <<>> /\ s.handlers = g /\ s.wfd = sink.wfd /\ s.told = sink.told
      /\ s.creates = sink.creates /\ s.firstCreate = sink.firstCreate /\ s.last = sink.last /\ s.cseq = sink.cseq
      /\ s.client = sink.client /\ s.socket = sink.socket /\ s.starting = sink.starting
  BY <1>1 DEF SinkRec, SinkFields
<1> HIDE DEF s
<1>7. /\ SinkRec(t) /\ t.out = <<m>> /\ t.handlers = g /\ t.wfd = sink.wfd /\ t.told = sink.told
      /\ t.creates = sink.creates /\ t.firstCreate = sink.firstCreate /\ t.last = sink.last /\ t.cseq = sink.cseq
      /\ t.client = sink.client /\ t.socket = sink.socket /\ t.starting = sink.starting
  BY ONLY <1>5, <1>6 DEF SinkRec, SinkFields
<1> HIDE DEF t
<1>8. Same(t, f) /\ Stays(t, f, TRUE) /\ f.out = t.out /\ f.client = t.client
  BY <1>3, <1>7, CheckInterruptEffect
<1>9. /\ SinkRec(f) /\ f.out = <<m>> /\ f.handlers = g /\ f.wfd = sink.wfd
      /\ f.creates = sink.creates /\ f.firstCreate = sink.firstCreate /\ f.last = sink.last /\ f.cseq = sink.cseq
      /\ f.client = sink.client /\ f.socket = sink.socket /\ f.starting = sink.starting
      /\ "PLAYED" \in f.told <=> "PLAYED" \in sink.told
      /\ "STOPED" \in sink.told => "STOPED" \in f.told
  BY ONLY <1>7, <1>8 DEF Same, Stays
<1> QED
  BY <1>2, <1>4, <1>9 DEF Finished, Says, m

\* M8 or the IDR request goes out, on a connection that may end under it.
LEMMA SinkHasSentRequest ==
    ASSUME RtspInv, SinkSends
    PROVE  RtspInv' /\ [Cast!Next]_(Cast!vars)
<1>1. CASE Sink!M8Finish
  <2> DEFINE t == Sink!FinishM8(sink, sink.sending[2], Sink!Up)
             f == IF sink.sending[1] = "STOP" THEN Sink!NotifyAgent([t EXCEPT !.connected = FALSE], "STOPED")
                  ELSE Sink!CheckInterrupt(t)
             m == Sink!WithSession(Sink!RtspRequestTeardown(sink.sending[2]), sink.session)
             l == Sink!PoolSend(f)
  <2>1. /\ source' = source /\ toSink' = toSink /\ link' = link /\ sink.sending[1] \in {"STOP", "TEARDOWN"}
        /\ sink' = [l EXCEPT !.out = <<>>] /\ toSource' = toSource \o l.out
    BY <1>1 DEF SinkSends, Sink!M8Finish, Sink!Become
  <2>2. Sending(sink)
    BY <2>1 DEF Sending
  <2>3. ASSUME sink.client, Sink!Up PROVE Finished(sink, f, m)
    BY <2>1, <2>2, <2>3, M8Finished
  <2>4. l = Sink!PoolSend(f)
    OBVIOUS
  <2> HIDE DEF f, m, l
  <2> QED
    BY <2>1, <2>2, <2>3, <2>4, SinkHasSent
<1>2. CASE Sink!IdrFinish
  <2> DEFINE f == Sink!CheckInterrupt(Sink!FinishIdr(sink, sink.sending[2], Sink!Up))
             m == Sink!IDRRequest(sink.sending[2], sink.session)
             l == Sink!PoolSend(f)
  <2>1. /\ source' = source /\ toSink' = toSink /\ link' = link /\ sink.sending[1] = "IDR"
        /\ sink' = [l EXCEPT !.out = <<>>] /\ toSource' = toSource \o l.out
    BY <1>2 DEF SinkSends, Sink!IdrFinish, Sink!Become
  <2>2. Sending(sink)
    BY <2>1 DEF Sending
  <2>3. ASSUME sink.client, Sink!Up PROVE Finished(sink, f, m)
    BY <2>1, <2>2, <2>3, IdrFinished
  <2>4. l = Sink!PoolSend(f)
    OBVIOUS
  <2> HIDE DEF f, m, l
  <2> QED
    BY <2>1, <2>2, <2>3, <2>4, SinkHasSent
<1> QED
  BY <1>1, <1>2 DEF SinkSends

-----------------------------------------------------------------------------
(* The steps of the source                                                 *)

\* A step of the source that its agent hears nothing of.
LEMMA SourceIsUnheard ==
    ASSUME sink' = sink, Quiet(source, source')
    PROVE  [Cast!Next]_(Cast!vars)
<1>1. ("PLAYED" \in source.told) = ("PLAYED" \in source'.told)
  BY DEF Quiet
<1> QED
  BY <1>1 DEF Quiet, Cast!vars

\* A step that asks its agent for the producer.
LEMMA SourceWantsProducer ==
    ASSUME sink' = sink, Produces(sink, source, source')
    PROVE  Cast!Next
<1>1. Cast!CreateProducer
  BY DEF Cast!CreateProducer, Produces
<1> QED
  BY <1>1 DEF Cast!Next

\* A step that tells its agent that the source plays.
LEMMA SourceIsPlaying ==
    ASSUME sink' = sink, SourceTold(sink, source, source')
    PROVE  Cast!Next
<1>1. Cast!SourcePlays
  BY DEF Cast!SourcePlays, SourceTold, BothAsked
<1> QED
  BY <1>1 DEF Cast!Next

\* The source has become d, with what it has sent on its way.
LEMMA SourceActs ==
    ASSUME RtspInv, sink' = sink, NEW d, source' = [d EXCEPT !.out = <<>>], toSink' = toSink \o d.out,
           Exchange(sink, d, toSink', toSource'), SourceOK(d), SinkOK(sink, link'), SourceHears(sink, source, d)
    PROVE  RtspInv' /\ [Cast!Next]_(Cast!vars)
<1> DEFINE c == [d EXCEPT !.out = <<>>]
<1>1. SourceRec(d)
  BY DEF Exchange
<1>2. /\ SourceRec(c) /\ c.out = <<>> /\ c.last = d.last /\ c.creates = d.creates /\ c.cseq = d.cseq
      /\ c.told = d.told /\ c.wfd = d.wfd /\ c.server = d.server /\ c.socket = d.socket /\ c.peer = d.peer
      /\ c.timers = d.timers /\ c.timerId = d.timerId /\ c.prosumer = d.prosumer
  BY <1>1 DEF SourceRec, SourceFields
<1>3. source' = c
  OBVIOUS
<1> HIDE DEF c
<1>4. Calmer(d, c)
  BY <1>2 DEF Calmer, Exchange, Numbers
<1>5. Exchange(sink, c, toSink', toSource')
  BY <1>4, SourceGivesUp
<1>6. SourceOK(c)
  BY <1>2 DEF SourceOK
<1>7. RtspInv'
  BY <1>2, <1>3, <1>5, <1>6 DEF RtspInv
<1>8. [Cast!Next]_(Cast!vars)
  <2>1. CASE Quiet(source, d)
    <3>1. Quiet(source, source')
      BY <1>2, <1>3, <2>1 DEF Quiet
    <3> QED
      BY <3>1, SourceIsUnheard
  <2>2. CASE Produces(sink, source, d)
    <3>1. Produces(sink, source, source')
      BY <1>2, <1>3, <2>2 DEF Produces
    <3> QED
      BY <3>1, SourceWantsProducer
  <2>3. CASE SourceTold(sink, source, d)
    <3>1. SourceTold(sink, source, source')
      BY <1>2, <1>3, <2>3 DEF SourceTold, BothAsked
    <3> QED
      BY <3>1, SourceIsPlaying
  <2> QED
    BY <2>1, <2>2, <2>3 DEF SourceHears
<1> QED
  BY <1>7, <1>8

\* OnServerReadData.
LEMMA SourceHasRead ==
    ASSUME RtspInv, SourceReads
    PROVE  RtspInv' /\ [Cast!Next]_(Cast!vars)
<1>1. PICK n \in 1..MaxChunk : Source!OnServerReadData(n)
  BY DEF SourceReads
<1> DEFINE up == Source!Up
           r == SubSeq(toSource, n + 1, Len(toSource))
           d == Source!ReadData(source, SubSeq(toSource, 1, n), up)
<1>2. /\ n \in 1..Len(toSource) /\ (n = 1 \/ \A i \in 1..n : toSource[i].part = "whole")
      /\ source' = [d EXCEPT !.out = <<>>] /\ toSink' = toSink \o d.out
      /\ toSource' = r /\ link' = link /\ sink' = sink
  <2>1. Queue(toSource)
    BY DEF RtspInv, Exchange
  <2>2. Len(toSource) \in Nat
    BY <2>1, QueueLength
  <2>3. n \in 1..Len(toSource)
    BY <1>1, <2>2, RtspAssumption DEF Source!OnServerReadData, Source!Splittable
  <2> QED
    BY <1>1, <2>3 DEF Source!OnServerReadData, Source!Splittable, Source!Become, SourceReads
<1>3. d = Source!ReadData(source, SubSeq(toSource, 1, n), up) /\ r = SubSeq(toSource, n + 1, Len(toSource))
  OBVIOUS
<1>4. Exchange(sink, source, toSink, toSource) /\ source.out = <<>> /\ TimersOK(source)
  BY DEF RtspInv, SourceOK, TimersOK
<1>5. up \in BOOLEAN
  BY DEF Source!Up
<1> HIDE DEF d, r, up
<1>6. n \in 1..Len(toSource) /\ (n = 1 \/ \A i \in 1..n : toSource[i].part = "whole")
  BY <1>2
<1>7. Exchange(sink, d, toSink \o d.out, r)
  BY <1>3, <1>4, <1>5, <1>6, OneReadOfSource
<1>8. Keeps(source, d)
  BY <1>3, <1>4, <1>5, <1>6, OneReadOfSource
<1>9. SourceHears(sink, source, d)
  BY <1>3, <1>4, <1>5, <1>6, OneReadOfSource
<1>10. SourceOK(d)
  BY <1>8 DEF RtspInv, SourceOK, Keeps, TimersOK
<1>11. SinkOK(sink, link')
  BY <1>2 DEF RtspInv
<1>12. Exchange(sink, d, toSink', toSource')
  BY <1>2, <1>7
<1> QED
  BY <1>2, <1>9, <1>10, <1>11, <1>12, SourceActs

\* A step in which the source sends nothing and calms down at most.
LEMMA SourceStepsBack ==
    ASSUME RtspInv, sink' = sink, toSource' = toSource, NEW d, Calmer(source, d), d.out = <<>>,
           source' = [d EXCEPT !.out = <<>>], toSink' = toSink \o d.out, SourceOK(d), SinkOK(sink, link')
    PROVE  RtspInv' /\ [Cast!Next]_(Cast!vars)
<1>1. Exchange(sink, source, toSink, toSource) /\ Queue(toSink)
  BY DEF RtspInv, Exchange
<1>2. toSink' = toSink
  BY <1>1, SentOnly
<1>3. Exchange(sink, d, toSink', toSource')
  BY <1>1, <1>2, SourceGivesUp
<1>4. SourceHears(sink, source, d)
  BY DEF Calmer, SourceHears, Quiet
<1> QED
  BY <1>3, <1>4, SourceActs

\* The connection may end under the sink.
LEMMA SinkOKDown ==
    ASSUME NEW k, NEW ln, SinkOK(k, ln)
    PROVE  SinkOK(k, "down")
BY DEF SinkOK

\* OnSessionClose.
LEMMA SourceHasClosed ==
    ASSUME RtspInv, SourceCloses
    PROVE  RtspInv' /\ [Cast!Next]_(Cast!vars)
<1> DEFINE d == Source!NotifyAgent([source EXCEPT !.closed = TRUE], "ERROR")
<1>1. /\ sink' = sink /\ toSource' = toSource /\ link' = link
      /\ source' = [d EXCEPT !.out = <<>>] /\ toSink' = toSink \o d.out
  BY DEF SourceCloses, Source!OnSessionClose, Source!NotifyServiceError, Source!Become
<1>2. SourceRec(source) /\ source.cseq \in Nat /\ source.out = <<>>
  BY DEF RtspInv, Exchange, Numbers
<1>3. /\ Calmer(source, d) /\ d.out = <<>> /\ ("PLAYED" \in d.told <=> "PLAYED" \in source.told)
      /\ d.server = source.server /\ d.socket = source.socket /\ d.peer = source.peer
      /\ d.timers = source.timers /\ d.timerId = source.timerId /\ d.prosumer = source.prosumer
  <2>1. /\ SourceRec(d) /\ d.out = source.out /\ d.server = source.server /\ d.socket = source.socket
        /\ d.peer = source.peer /\ d.timers = source.timers /\ d.timerId = source.timerId
        /\ d.prosumer = source.prosumer /\ d.last = source.last /\ d.wfd = source.wfd /\ d.cseq = source.cseq
        /\ d.creates = source.creates
    BY <1>2 DEF Source!NotifyAgent, SourceRec, SourceFields
  <2>2. "PLAYED" \in d.told <=> "PLAYED" \in source.told
    <3>1. d.told = source.told \cup {"ERROR"}
      BY <1>2 DEF Source!NotifyAgent, SourceRec, SourceFields
    <3> QED
      BY <3>1
  <2>3. d.cseq \in Nat /\ d.cseq >= source.cseq
    BY <1>2, <2>1
  <2>4. Calmer(source, d)
    BY <2>1, <2>2, <2>3 DEF Calmer
  <2>5. d.out = <<>>
    BY <1>2, <2>1
  <2> QED
    BY <2>1, <2>2, <2>4, <2>5
<1> HIDE DEF d
<1>4. SourceOK(d) /\ SinkOK(sink, link')
  BY <1>1, <1>3 DEF RtspInv, SourceOK
<1> QED
  BY <1>1, <1>3, <1>4, SourceStepsBack

\* ProsumerCreated and ProsumerReports.
LEMMA SourceHasProsumer ==
    ASSUME RtspInv, SourceProsumer
    PROVE  RtspInv' /\ [Cast!Next]_(Cast!vars)
<1>1. \E media, what : /\ Source!Become(Source!NotifyAgent([source EXCEPT !.media = media], what))
                       /\ what \in {"MEDIA_INIT", "STARTED", "ERROR"}
  BY DEF SourceProsumer, Source!ProsumerCreated, Source!ProsumerReports
<1>2. PICK media, what : /\ Source!Become(Source!NotifyAgent([source EXCEPT !.media = media], what))
                         /\ what \in {"MEDIA_INIT", "STARTED", "ERROR"}
  BY <1>1
<1> DEFINE d == Source!NotifyAgent([source EXCEPT !.media = media], what)
<1>3. /\ sink' = sink /\ toSource' = toSource /\ link' = link
      /\ source' = [d EXCEPT !.out = <<>>] /\ toSink' = toSink \o d.out
  BY <1>2 DEF SourceProsumer, Source!ProsumerCreated, Source!ProsumerReports, Source!Become
<1>4. SourceRec(source) /\ source.cseq \in Nat /\ source.out = <<>>
  BY DEF RtspInv, Exchange, Numbers
<1>5. /\ Calmer(source, d) /\ d.out = <<>> /\ ("PLAYED" \in d.told <=> "PLAYED" \in source.told)
      /\ d.server = source.server /\ d.socket = source.socket /\ d.peer = source.peer
      /\ d.timers = source.timers /\ d.timerId = source.timerId /\ d.prosumer = source.prosumer
  <2>1. /\ SourceRec(d) /\ d.out = source.out /\ d.server = source.server /\ d.socket = source.socket
        /\ d.peer = source.peer /\ d.timers = source.timers /\ d.timerId = source.timerId
        /\ d.prosumer = source.prosumer /\ d.last = source.last /\ d.wfd = source.wfd /\ d.cseq = source.cseq
        /\ d.creates = source.creates
    BY <1>4 DEF Source!NotifyAgent, SourceRec, SourceFields
  <2>2. d.told = source.told \cup {what}
    BY <1>4 DEF Source!NotifyAgent, SourceRec, SourceFields
  <2> QED
    BY <1>2, <1>4, <2>1, <2>2 DEF Calmer
<1> HIDE DEF d
<1>6. SourceOK(d) /\ SinkOK(sink, link')
  BY <1>3, <1>5 DEF RtspInv, SourceOK
<1> QED
  BY <1>3, <1>5, <1>6, SourceStepsBack

\* M1 is sent when the connection is there.
LEMMA SourceSendsM1 ==
    ASSUME NEW k, NEW c, NEW b, NEW t, SourceAt(k, c, b, t), TimersOK(c), c.wfd = "M0",
           NEW up \in BOOLEAN, NEW d, d = Source!SendM1Request(c, up)
    PROVE  SourceAt(k, d, b, t) /\ Keeps(c, d) /\ Quiet(c, d)
<1> DEFINE q == Source!M1Request(c.cseq + 1)
<1>1. SourceRec(c) /\ c.cseq \in Nat /\ c.cseq + 1 \in Nat
  BY DEF SourceAt, Exchange, Numbers
<1>2. Says(q, TRUE, "OPTIONS", "none", c.cseq + 1)
  BY <1>1, SourceMessages
<1>3. d = Source!SendRequest(c, q, "M1", up)
  BY DEF Source!SendM1Request
<1> HIDE DEF q
<1>4. Requested(c, d, q, "M1", up)
  BY <1>1, <1>3, SourceRequests
<1>5. /\ q.cseq = c.cseq + 1 /\ q.part \in Parts /\ q.part = "whole" /\ IsMessage(q) /\ q.req
      /\ ~IsM4(q) /\ ~IsM5(q) /\ q.body = "none"
  BY <1>2 DEF Says, Parts, IsM4, IsM5
<1>6. CASE d = c \/ (Rests(c, d) /\ d.wfd = c.wfd /\ d.cseq = c.cseq + 1 /\ d.out = c.out)
  BY <1>6, NothingSent
<1>7. CASE Rests(c, d) /\ d.wfd = "M1" /\ d.cseq = c.cseq + 1 /\ d.out = Append(c.out, q)
  <2> DEFINE a == t \o c.out
  <2>1. Exchange(k, c, a, b) /\ Queue(a)
    BY DEF SourceAt, Exchange
  <2>2. ~HasOptions(a) /\ ~HasM5(a) /\ ~HasOptions(b) /\ ~HasPlay(b) /\ ~SinkToken(k) /\ "PLAYED" \notin c.told
    BY <2>1 DEF Exchange, OneToken, SourceToken
  <2>3. NoM4(k, c, a) /\ OnlyTeardown(k)
    BY <2>1 DEF Exchange, Progress, Early, Numbers, BeforeM1
  <2>4. Calmer(c, d)
    BY <1>1, <1>7 DEF Rests, Calmer
  <2>5. Exchange(k, d, a, b)
    BY <2>1, <2>4, SourceGivesUp
  <2>6. NoToken(k, d, a, b) /\ NoM4(k, d, a)
    BY <1>7, <2>2, <2>3 DEF NoToken, SourceToken, Rests, NoM4
  <2> HIDE DEF a
  <2>7. Queue(d.out) /\ Appended(a, q, t \o d.out)
    BY <1>5, <1>7, SentBehind DEF SourceAt, a
  <2>8. q.cseq <= d.cseq /\ q.cseq >= 1 /\ d.wfd # "M4"
    BY <1>1, <1>5, <1>7
  <2>9. Exchange(k, d, t \o d.out, b)
    BY <1>5, <2>3, <2>5, <2>6, <2>7, <2>8, SourceAsks
  <2>10. Keeps(c, d) /\ Quiet(c, d)
    BY <1>7, RestsKeeps DEF Rests, Quiet
  <2> QED
    BY <2>7, <2>9, <2>10 DEF SourceAt
<1> QED
  BY <1>4, <1>5, <1>6, <1>7 DEF Requested

\* M16 is sent while the source plays.
LEMMA SourceSendsM16 ==
    ASSUME NEW k, NEW c, NEW b, NEW t, SourceAt(k, c, b, t), TimersOK(c), c.timers > 0,
           NEW up \in BOOLEAN, NEW d, d = Source!SendM16Request(c, up)
    PROVE  SourceAt(k, d, b, t) /\ Keeps(c, d) /\ Quiet(c, d)
<1> DEFINE s == [c EXCEPT !.cseq = @ + 1, !.counts = @ - 1]
           q == Source!M16Request(s.cseq, Source!sessionID)
           e == Source!NotifyAgent(c, "ERROR")
           g == Source!Send(s, q, up)
<1>1. SourceRec(c) /\ c.cseq \in Nat /\ c.cseq + 1 \in Nat
  BY DEF SourceAt, Exchange, Numbers
<1>2. /\ SourceRec(s) /\ Rests(c, s) /\ s.cseq = c.cseq + 1 /\ s.wfd = c.wfd /\ s.out = c.out
  BY <1>1 DEF SourceRec, SourceFields, Rests
<1>3. d = IF c.counts = 0 THEN e ELSE IF ~Source!Serving(c) THEN c ELSE g
  BY DEF Source!SendM16Request, Source!NotifyServiceError
<1> HIDE DEF s
<1>4. Says(q, TRUE, "GET_PARAMETER", "none", c.cseq + 1)
  BY <1>1, <1>2, SourceMessages
<1> HIDE DEF q
<1>5. Even(c, e) /\ e.out = c.out
  BY <1>1, SourceNotifies
<1>6. Even(s, g) /\ (up => g.out = Append(s.out, q)) /\ (~up => g.out = s.out)
  BY <1>2, SourceSends
<1> HIDE DEF e, g
<1>7. /\ q.cseq = c.cseq + 1 /\ q.part \in Parts /\ q.part = "whole" /\ IsMessage(q) /\ q.req
      /\ ~IsM4(q) /\ ~IsM5(q) /\ ~IsOptions(q) /\ ~TokenToSink(q) /\ q.body = "none"
  BY <1>4 DEF Says, Parts, IsM4, IsM5, IsOptions, TokenToSink
<1>8. CASE d = e
  <2>1. SourceAt(k, d, b, t)
    BY <1>1, <1>5, <1>8, EvenIsCalmer, SourceChanges
  <2> QED
    BY <1>5, <1>8, <2>1, RestsKeeps DEF Even, Rests, Quiet
<1>9. Rests(c, g) /\ g.wfd = c.wfd /\ g.cseq = c.cseq + 1
  BY <1>2, <1>6, RestsTwice DEF Even
<1>10. CASE d = c \/ (d = g /\ ~up)
  BY <1>2, <1>6, <1>9, <1>10, NothingSent
<1>11. CASE d = g /\ up
  <2> DEFINE a == t \o c.out
  <2>1. Exchange(k, c, a, b) /\ Queue(a)
    BY DEF SourceAt, Exchange
  <2>2. c.wfd # "M4"
    <3>1. c.timers = 1 /\ "PLAYED" \in c.told
      BY DEF TimersOK
    <3> QED
      BY <2>1, <3>1 DEF Exchange, OneToken
  <2>3. Calmer(c, g)
    BY <1>1, <1>9 DEF Rests, Calmer
  <2>4. Exchange(k, g, a, b)
    BY <2>1, <2>3, SourceGivesUp
  <2> HIDE DEF a
  <2>5. Queue(g.out) /\ Appended(a, q, t \o g.out)
    BY <1>2, <1>6, <1>7, <1>11, SentBehind DEF SourceAt, a
  <2>6. q.cseq <= g.cseq /\ g.wfd # "M4"
    BY <1>1, <1>7, <1>9, <2>2
  <2>7. Exchange(k, g, t \o g.out, b)
    BY <1>7, <2>4, <2>5, <2>6, SourceAsks
  <2>8. Keeps(c, g) /\ Quiet(c, g)
    BY <1>9, RestsKeeps DEF Rests, Quiet
  <2> QED
    BY <1>11, <2>5, <2>7, <2>8 DEF SourceAt
<1> QED
  BY <1>3, <1>8, <1>10, <1>11

\* A step of the source that leaves what has arrived.
LEMMA SourceSpeaks ==
    ASSUME RtspInv, sink' = sink, toSource' = toSource, NEW s, Calmer(source, s), s.out = <<>>, NEW d,
           SourceAt(sink, s, toSource, toSink) => SourceAt(sink, d, toSource, toSink) /\ Quiet(s, d),
           SourceOK(d), source' = [d EXCEPT !.out = <<>>], toSink' = toSink \o d.out, SinkOK(sink, link')
    PROVE  RtspInv' /\ [Cast!Next]_(Cast!vars)
<1>1. Exchange(sink, source, toSink, toSource) /\ Queue(toSink)
  BY DEF RtspInv, Exchange
<1>2. Exchange(sink, s, toSink, toSource) /\ toSink \o <<>> = toSink
  BY <1>1, SourceGivesUp, SentOnly
<1>3. SourceAt(sink, s, toSource, toSink)
  BY <1>1, <1>2, EmptyQueue DEF SourceAt
<1>4. SourceAt(sink, d, toSource, toSink) /\ Quiet(s, d)
  BY <1>3
<1>5. SourceHears(sink, source, d)
  BY <1>4 DEF Calmer, Quiet, SourceHears
<1>6. Exchange(sink, d, toSink', toSource')
  BY <1>4 DEF SourceAt
<1> QED
  BY <1>5, <1>6, SourceActs

\* OnSendKeepAlive.
LEMMA SourceHasKeptAlive ==
    ASSUME RtspInv, SourceKeepAlive
    PROVE  RtspInv' /\ [Cast!Next]_(Cast!vars)
<1> DEFINE s == [source EXCEPT !.fired = @ + 1]
           up == Source!Up
           d == Source!SendM16Request(s, up)
<1>1. /\ sink' = sink /\ toSource' = toSource /\ link' = link /\ source.timers > 0
      /\ source' = [d EXCEPT !.out = <<>>] /\ toSink' = toSink \o d.out
  BY DEF SourceKeepAlive, Source!OnSendKeepAlive, Source!Become
<1>2. SourceRec(source) /\ source.cseq \in Nat /\ source.out = <<>> /\ SourceOK(source) /\ SinkOK(sink, link)
  BY DEF RtspInv, Exchange, Numbers
<1>3. Even(source, s) /\ s.out = <<>>
  BY <1>2 DEF SourceRec, SourceFields, Even, Rests
<1>4. up \in BOOLEAN /\ d = Source!SendM16Request(s, up)
  BY DEF Source!Up
<1> HIDE DEF s, d, up
<1>5. Calmer(source, s)
  BY <1>2, <1>3, EvenIsCalmer
<1>6. TimersOK(source)
  BY <1>2 DEF SourceOK, TimersOK
<1>7. TimersOK(s) /\ s.timers > 0
  BY <1>1, <1>3, <1>6, RestsKeeps DEF Even, Keeps, Rests
<1>8. SourceAt(sink, s, toSource, toSink) => SourceAt(sink, d, toSource, toSink) /\ Keeps(s, d) /\ Quiet(s, d)
  BY <1>4, <1>7, SourceSendsM16
<1>9. SourceAt(sink, s, toSource, toSink)
  <2>1. Exchange(sink, source, toSink, toSource) /\ Queue(toSink)
    BY DEF RtspInv, Exchange
  <2>2. Exchange(sink, s, toSink, toSource) /\ toSink \o <<>> = toSink
    BY <1>5, <2>1, SourceGivesUp, SentOnly
  <2> QED
    BY <1>3, <2>1, <2>2, EmptyQueue DEF SourceAt
<1>10. SourceOK(d)
  BY <1>2, <1>3, <1>8, <1>9 DEF SourceOK, Keeps, TimersOK, Even, Rests
<1> QED
  BY <1>1, <1>2, <1>3, <1>5, <1>8, <1>10, SourceSpeaks

\* UpdateOperation(SESSION_START).
LEMMA SourceHasStarted ==
    ASSUME RtspInv, SourceStarts
    PROVE  RtspInv' /\ [Cast!Next]_(Cast!vars)
<1>1. \E fail : LET s == [source EXCEPT !.socket = Source!TcpServerStart(fail)]
                IN  Source!Become(IF Source!CreateTcpServer(s.socket) THEN [s EXCEPT !.server = "listening"]
                                  ELSE Source!NotifyServiceError([s EXCEPT !.server = "failed"]))
  BY DEF SourceStarts, Source!StartServer
<1>2. PICK fail : LET s == [source EXCEPT !.socket = Source!TcpServerStart(fail)]
                  IN  Source!Become(IF Source!CreateTcpServer(s.socket) THEN [s EXCEPT !.server = "listening"]
                                    ELSE Source!NotifyServiceError([s EXCEPT !.server = "failed"]))
  BY <1>1
<1> DEFINE x == Source!TcpServerStart(fail)
           s == [source EXCEPT !.socket = x]
           f == Source!NotifyAgent([s EXCEPT !.server = "failed"], "ERROR")
           d == IF s.socket.heard THEN [s EXCEPT !.server = "listening"] ELSE f
<1>3. /\ sink' = sink /\ toSource' = toSource /\ link' = link
      /\ source' = [d EXCEPT !.out = <<>>] /\ toSink' = toSink \o d.out
  BY <1>2 DEF SourceStarts, Source!StartServer, Source!Become, Source!CreateTcpServer, Source!NotifyServiceError
<1>4. SourceRec(source) /\ source.cseq \in Nat /\ source.out = <<>> /\ SourceOK(source) /\ SinkOK(sink, link)
  BY DEF RtspInv, Exchange, Numbers
<1>5. x \in SocketType /\ (x.heard => x.known)
  BY DEF Source!TcpServerStart, Source!TcpSocketBind, Source!BindSocket, Source!ListenSocket, Source!AddFdListener,
         Source!CreateSocket, Source!AddEventHandler, Source!Closed, SocketType
<1> HIDE DEF x
<1>6. /\ SourceRec(s) /\ s.out = <<>> /\ s.socket = x /\ s.told = source.told /\ s.creates = source.creates
      /\ s.cseq = source.cseq /\ s.wfd = source.wfd /\ s.last = source.last /\ s.peer = source.peer
      /\ s.timers = source.timers /\ s.timerId = source.timerId /\ s.prosumer = source.prosumer
  BY <1>4 DEF SourceRec, SourceFields
<1> HIDE DEF s
<1>7. /\ SourceRec(d) /\ d.out = <<>> /\ d.socket = x /\ ("PLAYED" \in d.told <=> "PLAYED" \in source.told)
      /\ d.creates = source.creates /\ d.server # "stopped"
      /\ d.cseq = source.cseq /\ d.wfd = source.wfd /\ d.last = source.last /\ d.peer = source.peer
      /\ d.timers = source.timers /\ d.timerId = source.timerId /\ d.prosumer = source.prosumer
  <2>1. CASE d = [s EXCEPT !.server = "listening"]
    BY <1>6, <2>1 DEF SourceRec, SourceFields
  <2>2. CASE d = f
    BY <1>6, <2>2 DEF Source!NotifyAgent, SourceRec, SourceFields
  <2> QED
    BY <2>1, <2>2
<1> HIDE DEF d
<1>8. SourceOK(d)
  BY <1>4, <1>5, <1>7 DEF SourceOK
<1>9. Calmer(source, d)
  BY <1>4, <1>7 DEF Calmer
<1> QED
  BY <1>3, <1>4, <1>7, <1>8, <1>9, SourceStepsBack

\* UpdateOperation(SESSION_STOP).
LEMMA SourceHasStopped ==
    ASSUME RtspInv, SourceStops
    PROVE  RtspInv' /\ [Cast!Next]_(Cast!vars)
<1> DEFINE x == Source!TcpServerStop(source.socket)
           y == Source!SessionShutdown(source.peer)
           s == [source EXCEPT !.server = "stopped", !.timers = 0, !.timerId = FALSE, !.socket = x, !.peer = y]
           d == Source!NotifyAgent(s, "STOPED")
<1>1. /\ sink' = sink /\ toSource' = toSource /\ (link' = link \/ link' = "down")
      /\ source' = [d EXCEPT !.out = <<>>] /\ toSink' = toSink \o d.out
  BY DEF SourceStops, Source!StopSession, Source!Become
<1>2. SourceRec(source) /\ source.cseq \in Nat /\ source.out = <<>> /\ SourceOK(source) /\ SinkOK(sink, link)
  BY DEF RtspInv, Exchange, Numbers
<1>3. x = Closed /\ y = Closed
  BY <1>2, SocketCloses DEF SourceOK
<1> HIDE DEF x, y
<1>4. /\ SourceRec(d) /\ d.out = <<>> /\ d.socket = Closed /\ d.peer = Closed
      /\ ("PLAYED" \in d.told <=> "PLAYED" \in source.told)
      /\ d.creates = source.creates
      /\ d.cseq = source.cseq /\ d.wfd = source.wfd /\ d.last = source.last
      /\ d.timers = 0 /\ d.timerId = FALSE /\ d.prosumer = source.prosumer
  BY <1>2, <1>3 DEF Source!NotifyAgent, SourceRec, SourceFields
<1> HIDE DEF d, s
<1>5. Closed \in SocketType /\ ~Closed.heard
  BY DEF Closed, SocketType
<1>6. SourceOK(d)
  BY <1>2, <1>4, <1>5 DEF SourceOK
<1>7. Calmer(source, d)
  BY <1>2, <1>4 DEF Calmer
<1>8. SinkOK(sink, link')
  BY <1>1, <1>2, SinkOKDown
<1> QED
  BY <1>1, <1>4, <1>6, <1>7, <1>8, SourceStepsBack

\* OnAccept: M1 goes out, or the new session is shut down.
LEMMA SourceHasAccepted ==
    ASSUME RtspInv, SourceAccepts
    PROVE  RtspInv' /\ [Cast!Next]_(Cast!vars)
<1>1. \E fail : LET s == [source EXCEPT !.accepted = TRUE, !.peer = Source!SessionStart(Source!AcceptSocket, fail)]
                IN  IF s.peer.heard
                    THEN Source!Become(Source!SendM1Request(s, Source!Up)) /\ UNCHANGED link
                    ELSE /\ Source!Become([s EXCEPT !.peer = Source!SessionShutdown(@), !.closed = TRUE])
                         /\ link' = "down"
  BY DEF SourceAccepts, Source!OnAccept
<1>2. PICK fail :
         LET s == [source EXCEPT !.accepted = TRUE, !.peer = Source!SessionStart(Source!AcceptSocket, fail)]
         IN  IF s.peer.heard
             THEN Source!Become(Source!SendM1Request(s, Source!Up)) /\ UNCHANGED link
             ELSE /\ Source!Become([s EXCEPT !.peer = Source!SessionShutdown(@), !.closed = TRUE])
                  /\ link' = "down"
  BY <1>1
<1> DEFINE x == Source!SessionStart(Source!AcceptSocket, fail)
           s == [source EXCEPT !.accepted = TRUE, !.peer = x]
           up == Source!Up
           d == Source!SendM1Request(s, up)
           y == Source!SessionShutdown(s.peer)
           e == [s EXCEPT !.peer = y, !.closed = TRUE]
<1>3. /\ sink' = sink /\ toSource' = toSource /\ source.server = "listening" /\ source.wfd = "M0"
      /\ \/ source' = [d EXCEPT !.out = <<>>] /\ toSink' = toSink \o d.out /\ link' = link
         \/ source' = [e EXCEPT !.out = <<>>] /\ toSink' = toSink \o e.out /\ link' = "down"
  BY <1>2 DEF SourceAccepts, Source!OnAccept, Source!Become, Source!Serving
<1>4. SourceRec(source) /\ source.cseq \in Nat /\ source.out = <<>> /\ SourceOK(source) /\ SinkOK(sink, link)
  BY DEF RtspInv, Exchange, Numbers
<1>5. x \in SocketType /\ (x.heard => x.known)
  BY DEF Source!SessionStart, Source!AcceptSocket, Source!AddFdListener,
         Source!CreateSocket, Source!AddEventHandler, Source!Closed, SocketType
<1> HIDE DEF x
<1>6. /\ SourceRec(s) /\ s.out = <<>> /\ s.peer = x /\ s.told = source.told /\ s.creates = source.creates
      /\ s.cseq = source.cseq /\ s.wfd = source.wfd /\ s.last = source.last /\ s.socket = source.socket
      /\ s.timers = source.timers /\ s.timerId = source.timerId /\ s.prosumer = source.prosumer
      /\ s.server = source.server
  BY <1>4 DEF SourceRec, SourceFields
<1>7. d = Source!SendM1Request(s, up) /\ up \in BOOLEAN
  BY DEF Source!Up
<1>8. y = Source!SessionShutdown(s.peer) /\ e = [s EXCEPT !.peer = y, !.closed = TRUE]
  OBVIOUS
<1> HIDE DEF s, d, e, y, up
<1>9. Calmer(source, s) /\ SourceOK(s)
  BY <1>3, <1>4, <1>5, <1>6 DEF Calmer, SourceOK
<1>10. CASE source' = [d EXCEPT !.out = <<>>] /\ toSink' = toSink \o d.out /\ link' = link
  <2>1. SourceAt(sink, s, toSource, toSink)
    <3>1. Exchange(sink, source, toSink, toSource) /\ Queue(toSink)
      BY DEF RtspInv, Exchange
    <3>2. Exchange(sink, s, toSink, toSource) /\ toSink \o <<>> = toSink
      BY <1>9, <3>1, SourceGivesUp, SentOnly
    <3> QED
      BY <1>6, <3>1, <3>2, EmptyQueue DEF SourceAt
  <2>2. TimersOK(s) /\ s.wfd = "M0"
    BY <1>3, <1>6, <1>9 DEF SourceOK, TimersOK
  <2>3. SourceAt(sink, d, toSource, toSink) /\ Keeps(s, d) /\ Quiet(s, d)
    BY <1>7, <2>1, <2>2, SourceSendsM1
  <2>4. SourceOK(d)
    BY <1>9, <2>3 DEF SourceOK, Keeps, TimersOK
  <2>5. SinkOK(sink, link')
    BY <1>4, <1>10
  <2> QED
    BY <1>3, <1>6, <1>9, <1>10, <2>3, <2>4, <2>5, SourceSpeaks
<1>11. CASE source' = [e EXCEPT !.out = <<>>] /\ toSink' = toSink \o e.out /\ link' = "down"
  <2>1. y = Closed /\ Closed \in SocketType /\ ~Closed.heard
    BY <1>5, <1>6, <1>8, SocketCloses DEF Closed, SocketType
  <2>2. /\ SourceRec(e) /\ e.out = <<>> /\ e.peer = Closed /\ e.told = source.told /\ e.creates = source.creates
        /\ e.cseq = source.cseq /\ e.wfd = source.wfd /\ e.last = source.last /\ e.socket = source.socket
        /\ e.timers = source.timers /\ e.timerId = source.timerId /\ e.prosumer = source.prosumer
        /\ e.server = source.server
    BY <1>6, <1>8, <2>1 DEF SourceRec, SourceFields
  <2>3. Calmer(source, e)
    BY <1>4, <2>2 DEF Calmer
  <2>4. SourceOK(e)
    BY <1>4, <2>1, <2>2 DEF SourceOK
  <2>5. SinkOK(sink, link')
    BY <1>4, <1>11, SinkOKDown
  <2> QED
    BY <1>3, <1>11, <2>2, <2>3, <2>4, <2>5, SourceStepsBack
<1> QED
  BY ONLY <1>3, <1>10, <1>11

-----------------------------------------------------------------------------
(* The network                                                             *)

\* A connection is made.
LEMMA IsConnected ==
    ASSUME RtspInv, Connect
    PROVE  RtspInv' /\ [Cast!Next]_(Cast!vars)
<1>1. /\ Exchange(sink, source, toSink, toSource) /\ SinkOK(sink, link) /\ SourceOK(source)
      /\ SinkRec(sink) /\ SourceRec(source) /\ source.cseq \in Nat /\ sink.out = <<>> /\ source.out = <<>>
  BY DEF RtspInv, Exchange, Numbers
<1>2. /\ sink.starting = "connecting" /\ sink' = [sink EXCEPT !.starting = "selecting"]
      /\ link' \in {"up", "deaf"} /\ toSink' = toSink /\ toSource' = toSource
      /\ source' = source \/ source' = [source EXCEPT !.accepted = FALSE, !.closed = FALSE]
  BY DEF Connect
<1> DEFINE k == [sink EXCEPT !.starting = "selecting"]
           c == [source EXCEPT !.accepted = FALSE, !.closed = FALSE]
<1>3. /\ SinkRec(k) /\ k.out = <<>> /\ k.client = sink.client /\ k.starting = "selecting" /\ k.socket = sink.socket
      /\ k.told = sink.told /\ k.connected = sink.connected /\ k.sending = sink.sending
      /\ k.last = sink.last /\ k.handlers = sink.handlers /\ k.creates = sink.creates
      /\ k.firstCreate = sink.firstCreate /\ k.cseq = sink.cseq /\ k.wfd = sink.wfd
  BY <1>1 DEF SinkRec, SinkFields
<1>4. /\ SourceRec(c) /\ c.out = <<>> /\ c.peer = source.peer /\ c.told = source.told /\ c.creates = source.creates
      /\ c.cseq = source.cseq /\ c.wfd = source.wfd /\ c.last = source.last /\ c.socket = source.socket
      /\ c.timers = source.timers /\ c.timerId = source.timerId /\ c.prosumer = source.prosumer
      /\ c.server = source.server
  BY <1>1 DEF SourceRec, SourceFields
<1>5. sink' = k /\ (source' = source \/ source' = c)
  BY <1>2
<1> HIDE DEF k, c
<1>6. Fewer(sink, k) /\ Calmer(source, c)
  BY <1>1, <1>3, <1>4 DEF Fewer, Calmer
<1>7. Exchange(k, source, toSink, toSource) /\ Exchange(k, c, toSink, toSource)
  BY <1>1, <1>6, SinkGivesUp, SourceGivesUp
<1>8. SinkOK(k, link')
  BY <1>1, <1>2, <1>3 DEF SinkOK
<1>9. SourceOK(c)
  BY <1>1, <1>4 DEF SourceOK
<1>10. RtspInv'
  BY <1>1, <1>2, <1>3, <1>4, <1>5, <1>7, <1>8, <1>9 DEF RtspInv
<1>11. UNCHANGED Cast!vars
  BY <1>3, <1>4, <1>5 DEF Cast!vars
<1> QED
  BY <1>10, <1>11

\* What was on its way is lost.
LEMMA IsLost ==
    ASSUME RtspInv, LoseLink
    PROVE  RtspInv' /\ [Cast!Next]_(Cast!vars)
<1>1. /\ Exchange(sink, source, toSink, toSource) /\ SinkOK(sink, link) /\ SourceOK(source)
      /\ Queue(toSink) /\ Queue(toSource) /\ sink.out = <<>> /\ source.out = <<>>
  BY DEF RtspInv, Exchange
<1>2. sink' = sink /\ source' = source /\ link' = "down" /\ toSink' = <<>> /\ toSource' = <<>>
  BY DEF LoseLink
<1>3. Suffix(toSink, <<>>, Len(toSink)) /\ Suffix(toSource, <<>>, Len(toSource))
  BY <1>1, QueueLength, EmptyQueue DEF Suffix
<1>4. Exchange(sink, source, <<>>, toSource)
  BY <1>1, <1>3, ReadBySink
<1>5. Exchange(sink, source, <<>>, <<>>)
  BY <1>3, <1>4, ReadBySource
<1>6. SinkOK(sink, "down")
  BY <1>1, SinkOKDown
<1>7. RtspInv'
  BY <1>1, <1>2, <1>5, <1>6 DEF RtspInv
<1>8. UNCHANGED Cast!vars
  BY <1>2 DEF Cast!vars
<1> QED
  BY <1>7, <1>8

\* A message and a part of it, or the part that moved up.
Like(m, n) == /\ m.req = n.req /\ m.method = n.method /\ m.body = n.body /\ m.cseq = n.cseq
              /\ m.params = n.params

\* r is q with its first message cut, which has a body.
Cut(q, r) == /\ Queue(r) /\ Len(q) \in Nat /\ Len(q) >= 1 /\ Len(r) = Len(q) + 1
             /\ q[1].body # "none" /\ q[1].part = "whole"
             /\ Like(r[1], q[1]) /\ Like(r[2], q[1]) /\ r[2].part = "tail"
             /\ \A j \in 3..Len(r) : r[j] = q[j - 1]

\* Fragment does this.
LEMMA FragmentCuts ==
    ASSUME NEW q, Queue(q), CanFragment(q)
    PROVE  Cut(q, Fragment(q))
<1> DEFINE x == [q[1] EXCEPT !.part = "head"]
           y == [q[1] EXCEPT !.part = "tail"]
           t == Tail(q)
           p == <<x, y>>
           r == p \o t
<1>1. PICK S : q \in Seq(S)
  BY DEF Queue
<1>2. q # <<>> /\ q[1].part = "whole" /\ q[1].body # "none"
  BY DEF CanFragment, HasBody
<1>3. Len(q) \in Nat /\ Len(q) >= 1 /\ 1 \in 1..Len(q)
  BY <1>1, <1>2
<1>4. t \in Seq(S) /\ Len(t) = Len(q) - 1 /\ \A i \in 1..Len(t) : t[i] = q[i + 1]
  BY <1>1, <1>3
<1>5. Queue(t)
  <2>1. \A i \in 1..Len(t) : i + 1 \in 1..Len(q)
    BY <1>3, <1>4
  <2> QED
    BY <1>4, <2>1 DEF Queue
<1>6. IsMessage(q[1])
  BY <1>3 DEF Queue
<1>7. IsMessage(x) /\ IsMessage(y) /\ Like(x, q[1]) /\ Like(y, q[1]) /\ x.part = "head" /\ y.part = "tail"
  BY <1>6 DEF IsMessage, MessageFields, Like
<1> HIDE DEF x, y
<1>8. p \in Seq({x, y}) /\ Len(p) = 2 /\ p[1] = x /\ p[2] = y
  OBVIOUS
<1>9. Queue(p)
  <2>1. \A i \in 1..Len(p) : p[i] = x \/ p[i] = y
    BY <1>8
  <2> QED
    BY <1>7, <1>8, <2>1 DEF Queue
<1> HIDE DEF p, t
<1>10. /\ Queue(r) /\ Len(r) = 2 + Len(t) /\ r[1] = x /\ r[2] = y
       /\ \A i \in 1..Len(t) : r[2 + i] = t[i]
  <2>1. /\ Queue(r) /\ Len(r) = Len(p) + Len(t)
        /\ \A i \in 1..Len(p) : r[i] = p[i]
        /\ \A i \in 1..Len(t) : r[Len(p) + i] = t[i]
    BY <1>5, <1>9, Joined
  <2> HIDE DEF r
  <2>2. 1 \in 1..Len(p) /\ 2 \in 1..Len(p)
    BY <1>8
  <2> QED
    BY <1>8, <2>1, <2>2
<1>11. Fragment(q) = r
  BY DEF Fragment, p, x, y, t
<1> HIDE DEF r
<1>12. Len(r) = Len(q) + 1
  BY <1>3, <1>4, <1>10
<1>13. \A j \in 3..Len(r) : r[j] = q[j - 1]
  <2> TAKE j \in 3..Len(r)
  <2>1. j - 2 \in 1..Len(t) /\ 2 + (j - 2) = j /\ (j - 2) + 1 = j - 1
    BY <1>3, <1>4, <1>12
  <2> QED
    BY <1>4, <1>10, <2>1
<1> QED
  BY <1>2, <1>3, <1>7, <1>10, <1>11, <1>12, <1>13 DEF Cut

\* Where a message of the cut queue comes from.
From(j) == IF j = 1 THEN 1 ELSE j - 1

\* It is like that message; a tail stands in the second place.
LEMMA CutEffect ==
    ASSUME NEW q, NEW r, Queue(q), Cut(q, r)
    PROVE  \A j \in 1..Len(r) :
              /\ From(j) \in 1..Len(q) /\ Like(r[j], q[From(j)])
              /\ r[j].part = "whole" \/ q[From(j)].body # "none" \/ (r[j] = q[From(j)] /\ From(j) = j - 1)
              /\ r[j].part = "tail" \/ q[From(j)].part # "tail"
              /\ j = 2 => q[From(j)].body # "none" /\ r[j].part = "tail"
              /\ \A i \in 1..Len(r) : i # 2 /\ j # 2 /\ From(i) = From(j) => i = j
<1> TAKE j \in 1..Len(r)
<1>1. Len(q) \in Nat /\ Len(q) >= 1 /\ Len(r) = Len(q) + 1
  BY DEF Cut
<1>2. \A i \in 1..Len(r) : i # 2 /\ j # 2 /\ From(i) = From(j) => i = j
  BY <1>1 DEF From
<1>3. From(j) \in 1..Len(q)
  BY <1>1 DEF From
<1>4. CASE j = 1
  BY <1>2, <1>3, <1>4 DEF Cut, From
<1>5. CASE j = 2
  BY <1>2, <1>3, <1>5 DEF Cut, From
<1>6. CASE j # 1 /\ j # 2
  <2>1. j \in 3..Len(r) /\ From(j) = j - 1
    BY <1>1, <1>6 DEF From
  <2>2. r[j] = q[From(j)]
    BY <2>1 DEF Cut
  <2> QED
    BY <1>2, <1>3, <1>6, <2>1, <2>2 DEF Like
<1> QED
  BY <1>4, <1>5, <1>6

\* No message becomes one that moves the exchange on.
LEMMA CutTokens ==
    ASSUME NEW q, NEW r, Queue(q), Cut(q, r)
    PROVE  /\ HasM4(r) => HasM4(q)
           /\ HasM5(r) => HasM5(q)
           /\ HasOptions(r) => HasOptions(q)
           /\ HasPlay(r) => HasPlay(q)
<1>1. \A j \in 1..Len(r) : /\ From(j) \in 1..Len(q) /\ Like(r[j], q[From(j)])
                           /\ r[j].part = "tail" \/ q[From(j)].part # "tail"
  BY CutEffect
<1>2. \A j \in 1..Len(r) : /\ From(j) \in 1..Len(q)
                           /\ IsM4(r[j]) => IsM4(q[From(j)])
                           /\ IsM5(r[j]) => IsM5(q[From(j)])
                           /\ IsOptions(r[j]) => IsOptions(q[From(j)])
                           /\ IsPlay(r[j]) => IsPlay(q[From(j)])
  BY <1>1 DEF Like, IsM4, IsM5, IsOptions, IsPlay
<1> QED
  BY <1>2 DEF HasM4, HasM5, HasOptions, HasPlay

\* A message on its way to the sink is cut.
LEMMA CutBySink ==
    ASSUME NEW k, NEW c, NEW a, NEW b, Exchange(k, c, a, b), NEW r, Cut(a, r)
    PROVE  Exchange(k, c, r, b)
<1>1. \A j \in 1..Len(r) :
         /\ From(j) \in 1..Len(a) /\ Like(r[j], a[From(j)])
         /\ r[j].part = "whole" \/ a[From(j)].body # "none" \/ (r[j] = a[From(j)] /\ From(j) = j - 1)
         /\ r[j].part = "tail" \/ a[From(j)].part # "tail"
         /\ j = 2 => a[From(j)].body # "none" /\ r[j].part = "tail"
         /\ \A i \in 1..Len(r) : i # 2 /\ j # 2 /\ From(i) = From(j) => i = j
  BY CutEffect DEF Exchange
<1>2. /\ HasM4(r) => HasM4(a)
      /\ HasM5(r) => HasM5(a)
      /\ HasOptions(r) => HasOptions(a)
  BY CutTokens DEF Exchange
<1>3. Queue(r)
  BY DEF Cut
<1>4. \A j \in 1..Len(r) : TokenToSink(r[j]) => TokenToSink(a[From(j)]) /\ j # 2
  <2> TAKE j \in 1..Len(r)
  <2>1. TokenToSink(r[j]) => TokenToSink(a[From(j)])
    BY <1>1 DEF TokenToSink, IsOptions, IsM5, Like
  <2>2. ASSUME j = 2, TokenToSink(r[j]) PROVE FALSE
    <3>1. a[From(j)].body # "none" /\ r[j].part = "tail" /\ From(j) \in 1..Len(a) /\ Like(r[j], a[From(j)])
      BY <1>1, <2>2
    <3>2. IsOptions(r[j])
      BY <2>2, <3>1 DEF TokenToSink, IsM5
    <3>3. a[From(j)].req /\ a[From(j)].body # "none" => a[From(j)].method # "OPTIONS"
      BY <3>1 DEF Exchange, Bodies
    <3> QED
      BY <3>1, <3>2, <3>3 DEF IsOptions, Like
  <2> QED
    BY <2>1, <2>2
<1>5. \A i, j \in 1..Len(r) : TokenToSink(r[i]) /\ TokenToSink(r[j]) => i = j
  <2> TAKE i, j \in 1..Len(r)
  <2> HAVE TokenToSink(r[i]) /\ TokenToSink(r[j])
  <2>1. TokenToSink(a[From(i)]) /\ TokenToSink(a[From(j)]) /\ i # 2 /\ j # 2
    BY <1>4
  <2>2. From(i) \in 1..Len(a) /\ From(j) \in 1..Len(a)
    BY <1>1
  <2>3. From(i) = From(j)
    BY <2>1, <2>2 DEF Exchange, OneToken
  <2> QED
    BY <1>1, <2>1, <2>3
<1>6. OneToken(k, c, r, b)
  BY <1>2, <1>5 DEF Exchange, OneToken
<1>7. \A j \in 1..Len(r) : /\ From(j) \in 1..Len(a)
                           /\ r[j].req = a[From(j)].req /\ r[j].cseq = a[From(j)].cseq /\ r[j].body = a[From(j)].body
                           /\ r[j].method = a[From(j)].method
                           /\ IsOptions(r[j]) <=> IsOptions(a[From(j)])
                           /\ IsM4(r[j]) <=> IsM4(a[From(j)])
  BY <1>1 DEF Like, IsOptions, IsM4
<1>8. Progress(k, c, r, b)
  <2>1. Early(c, r, b) => Early(c, a, b)
    BY <1>2 DEF Early
  <2>2. Late(k, r, b) => Late(k, a, b)
    BY <1>2 DEF Late
  <2>3. NoM4(k, c, a) => NoM4(k, c, r)
    BY <1>2 DEF NoM4
  <2>4. AwaitsM4(k, c, r, b)
    BY <1>7 DEF Exchange, Progress, AwaitsM4
  <2> QED
    BY <2>1, <2>2, <2>3, <2>4 DEF Exchange, Progress
<1>9. Numbers(k, c, r, b)
  <2>1. BeforeM1(c, r) => BeforeM1(c, a)
    BY <1>2 DEF BeforeM1
  <2>2. \A j \in 1..Len(r) : r[j].cseq <= IF r[j].req THEN c.cseq ELSE k.cseq
    BY <1>7 DEF Exchange, Numbers
  <2>3. \A j \in 1..Len(r) : IsOptions(r[j]) => r[j].cseq >= 1
    BY <1>7 DEF Exchange, Numbers
  <2> QED
    BY <2>1, <2>2, <2>3 DEF Exchange, Numbers
<1>10. PlayAlone(k, c, r, b)
  BY <1>7 DEF Exchange, PlayAlone
<1>11. Bodies(k, c, r, b)
  <2>1. \A j \in 1..Len(r) : /\ r[j].req => r[j].body \in {"none", "query", "params", "setup"}
                             /\ r[j].req /\ r[j].body # "none" => r[j].method # "OPTIONS"
    BY <1>7 DEF Exchange, Bodies
  <2>2. \A j \in 1..Len(r) : r[j].part # "whole" => r[j].body # "none"
    <3> TAKE j \in 1..Len(r)
    <3>1. CASE r[j] = a[From(j)]
      BY <1>7, <3>1 DEF Exchange, Bodies
    <3>2. CASE r[j] # a[From(j)]
      BY <1>1, <1>7, <3>2
    <3> QED
      BY <3>1, <3>2
  <2> QED
    BY <2>1, <2>2 DEF Exchange, Bodies
<1> QED
  BY <1>3, <1>6, <1>8, <1>9, <1>10, <1>11 DEF Exchange

\* A message on its way to the source is cut.
LEMMA CutBySource ==
    ASSUME NEW k, NEW c, NEW a, NEW b, Exchange(k, c, a, b), NEW r, Cut(b, r)
    PROVE  Exchange(k, c, a, r)
<1>1. \A j \in 1..Len(r) :
         /\ From(j) \in 1..Len(b) /\ Like(r[j], b[From(j)])
         /\ r[j].part = "whole" \/ b[From(j)].body # "none" \/ (r[j] = b[From(j)] /\ From(j) = j - 1)
         /\ j = 2 => b[From(j)].body # "none"
         /\ \A i \in 1..Len(r) : i # 2 /\ j # 2 /\ From(i) = From(j) => i = j
  BY CutEffect DEF Exchange
<1>2. /\ HasOptions(r) => HasOptions(b)
      /\ HasPlay(r) => HasPlay(b)
  BY CutTokens DEF Exchange
<1>3. Queue(r)
  BY DEF Cut
<1>4. \A j \in 1..Len(r) : TokenToSource(r[j]) => TokenToSource(b[From(j)]) /\ j # 2
  <2> TAKE j \in 1..Len(r)
  <2>1. TokenToSource(r[j]) => TokenToSource(b[From(j)])
    BY <1>1 DEF TokenToSource, IsOptions, IsPlay, Like
  <2>2. ASSUME j = 2, TokenToSource(r[j]) PROVE FALSE
    <3>1. b[From(j)].body # "none" /\ From(j) \in 1..Len(b) /\ TokenToSource(b[From(j)])
      BY <1>1, <2>1, <2>2
    <3>2. b[From(j)].req /\ b[From(j)].body # "none" => b[From(j)].method = "SET_PARAMETER"
      BY <3>1 DEF Exchange, Bodies
    <3> QED
      BY <3>1, <3>2 DEF TokenToSource, IsOptions, IsPlay
  <2> QED
    BY <2>1, <2>2
<1>5. \A i, j \in 1..Len(r) : TokenToSource(r[i]) /\ TokenToSource(r[j]) => i = j
  <2> TAKE i, j \in 1..Len(r)
  <2> HAVE TokenToSource(r[i]) /\ TokenToSource(r[j])
  <2>1. TokenToSource(b[From(i)]) /\ TokenToSource(b[From(j)]) /\ i # 2 /\ j # 2
    BY <1>4
  <2>2. From(i) \in 1..Len(b) /\ From(j) \in 1..Len(b)
    BY <1>1
  <2>3. From(i) = From(j)
    BY <2>1, <2>2 DEF Exchange, OneToken
  <2> QED
    BY <1>1, <2>1, <2>3
<1>6. OneToken(k, c, a, r)
  BY <1>2, <1>5 DEF Exchange, OneToken
<1>7. \A j \in 1..Len(r) : /\ From(j) \in 1..Len(b)
                           /\ r[j].req = b[From(j)].req /\ r[j].cseq = b[From(j)].cseq /\ r[j].body = b[From(j)].body
                           /\ r[j].method = b[From(j)].method
                           /\ IsPlay(r[j]) <=> IsPlay(b[From(j)])
  BY <1>1 DEF Like, IsPlay
<1>8. Progress(k, c, a, r)
  <2>1. Early(c, a, r) => Early(c, a, b)
    BY <1>2 DEF Early
  <2>2. Late(k, a, r) => Late(k, a, b)
    BY <1>2 DEF Late
  <2>3. AwaitsM4(k, c, a, r)
    BY <1>7 DEF Exchange, Progress, AwaitsM4
  <2> QED
    BY <2>1, <2>2, <2>3 DEF Exchange, Progress
<1>9. Numbers(k, c, a, r)
  <2>1. \A j \in 1..Len(r) : r[j].cseq <= IF r[j].req THEN k.cseq ELSE c.cseq
    BY <1>7 DEF Exchange, Numbers
  <2> QED
    BY <2>1 DEF Exchange, Numbers
<1>10. PlayAlone(k, c, a, r)
  <2>1. ASSUME NEW h \in k.handlers, h[2] = "M7", NEW j \in 1..Len(r), r[j].req, r[j].cseq = h[1]
        PROVE  IsPlay(r[j])
    <3>1. From(j) \in 1..Len(b) /\ b[From(j)].req /\ b[From(j)].cseq = h[1]
      BY <1>7, <2>1
    <3>2. IsPlay(b[From(j)])
      BY <2>1, <3>1 DEF Exchange, PlayAlone
    <3> QED
      BY <1>7, <3>2
  <2> QED
    BY <2>1 DEF Exchange, PlayAlone
<1>11. Bodies(k, c, a, r)
  <2>1. \A j \in 1..Len(r) : r[j].req /\ r[j].body # "none" => r[j].method = "SET_PARAMETER"
    BY <1>7 DEF Exchange, Bodies
  <2>2. \A j \in 1..Len(r) : r[j].part # "whole" => r[j].body # "none"
    <3> TAKE j \in 1..Len(r)
    <3>1. CASE r[j] = b[From(j)]
      BY <1>7, <3>1 DEF Exchange, Bodies
    <3>2. CASE r[j] # b[From(j)]
      BY <1>1, <1>7, <3>2
    <3> QED
      BY <3>1, <3>2
  <2> QED
    BY <2>1, <2>2 DEF Exchange, Bodies
<1> QED
  BY <1>3, <1>6, <1>8, <1>9, <1>10, <1>11 DEF Exchange

\* A read boundary inside a message.
LEMMA IsCut ==
    ASSUME RtspInv, CutToSink \/ CutToSource
    PROVE  RtspInv' /\ [Cast!Next]_(Cast!vars)
<1>1. /\ Exchange(sink, source, toSink, toSource) /\ SinkOK(sink, link) /\ SourceOK(source)
      /\ Queue(toSink) /\ Queue(toSource) /\ sink.out = <<>> /\ source.out = <<>>
  BY DEF RtspInv, Exchange
<1>2. sink' = sink /\ source' = source /\ link' = link
  BY DEF CutToSink, CutToSource
<1>3. Exchange(sink, source, toSink', toSource')
  <2>1. CASE CutToSink
    <3>1. CanFragment(toSink) /\ toSink' = Fragment(toSink) /\ toSource' = toSource
      BY <2>1 DEF CutToSink
    <3> QED
      BY <1>1, <3>1, FragmentCuts, CutBySink
  <2>2. CASE CutToSource
    <3>1. CanFragment(toSource) /\ toSource' = Fragment(toSource) /\ toSink' = toSink
      BY <2>2 DEF CutToSource
    <3> QED
      BY <1>1, <3>1, FragmentCuts, CutBySource
  <2> QED
    BY <2>1, <2>2
<1>4. RtspInv'
  BY <1>1, <1>2, <1>3 DEF RtspInv
<1>5. UNCHANGED Cast!vars
  BY <1>2 DEF Cast!vars
<1> QED
  BY <1>4, <1>5

-----------------------------------------------------------------------------
(* The theorems                                                            *)

\* No session has done anything yet.
LEMMA InitInv ==
    ASSUME Init
    PROVE  RtspInv /\ Cast!Init
<1>1. toSink = <<>> /\ toSource = <<>> /\ link = "none"
  BY DEF Init
<1>2. /\ SinkRec(sink) /\ sink.out = <<>> /\ sink.client = FALSE /\ sink.starting = "never" /\ sink.socket = Closed
      /\ sink.told = {} /\ sink.connected = FALSE /\ sink.sending = <<"none", 0>>
      /\ sink.last = NoMessage /\ sink.handlers = {} /\ sink.creates = 0
      /\ sink.firstCreate = TRUE /\ sink.cseq = 0 /\ sink.wfd = "INIT"
  BY DEF Init, Sink!InitSink, SinkRec, SinkFields, Sink!Closed, Closed, Sink!NoMessage, NoMessage
<1>3. /\ SourceRec(source) /\ source.out = <<>> /\ source.peer = Closed /\ source.told = {} /\ source.creates = 0
      /\ source.cseq = 0 /\ source.wfd = "M0" /\ source.last = NoMessage /\ source.socket = Closed
      /\ source.timers = 0 /\ source.timerId = FALSE /\ source.prosumer = "INIT"
      /\ source.server = "none"
  BY DEF Init, Source!InitSource, SourceRec, SourceFields, Source!Closed, Closed, Source!NoMessage, NoMessage
<1>4. Closed \in SocketType /\ ~Closed.heard
  BY DEF Closed, SocketType
<1>5. /\ Queue(toSink) /\ Queue(toSource) /\ Len(toSink) = 0 /\ Len(toSource) = 0
      /\ 1..Len(toSink) = {} /\ 1..Len(toSource) = {}
  BY <1>1, EmptyQueue
<1>6. /\ ~HasOptions(toSink) /\ ~HasOptions(toSource) /\ ~HasM4(toSink) /\ ~HasM5(toSink) /\ ~HasPlay(toSource)
  BY <1>5 DEF HasOptions, HasM4, HasM5, HasPlay
<1>7. IsMessage(NoMessage) /\ ~NoMessage.req
  BY NoMessageIs
<1>8. ~IsM4(sink.last) /\ ~IsM5(sink.last) /\ ~SinkToken(sink)
  BY <1>2, <1>7 DEF IsM4, IsM5, SinkToken
<1>9. OneToken(sink, source, toSink, toSource)
  BY <1>2, <1>3, <1>5, <1>6, <1>8 DEF OneToken
<1>10. Progress(sink, source, toSink, toSource)
  <2>1. NoM4(sink, source, toSink)
    BY <1>2, <1>3, <1>6, <1>8 DEF NoM4
  <2>2. ~Late(sink, toSink, toSource)
    BY <1>2, <1>6, <1>8 DEF Late
  <2>3. AwaitsM4(sink, source, toSink, toSource)
    BY <1>3 DEF AwaitsM4
  <2> QED
    BY <1>2, <1>3, <2>1, <2>2, <2>3 DEF Progress
<1>11. Numbers(sink, source, toSink, toSource)
  BY <1>2, <1>3, <1>5, <1>7 DEF Numbers, Sending, OnlyTeardown
<1>12. PlayAlone(sink, source, toSink, toSource)
  BY <1>2 DEF PlayAlone
<1>13. Bodies(sink, source, toSink, toSource)
  BY <1>2, <1>3, <1>5, <1>7 DEF Bodies
<1>14. Exchange(sink, source, toSink, toSource)
  BY <1>2, <1>3, <1>5, <1>7, <1>9, <1>10, <1>11, <1>12, <1>13 DEF Exchange
<1>15. SinkOK(sink, link) /\ SourceOK(source)
  BY <1>1, <1>2, <1>3, <1>4 DEF SinkOK, SourceOK
<1>16. Cast!Init
  BY <1>2, <1>3 DEF Cast!Init
<1> QED
  BY <1>2, <1>3, <1>14, <1>15, <1>16 DEF RtspInv

\* Every step keeps the invariant, and is one of CastSession's or changes nothing it sees.
LEMMA RtspStep ==
    ASSUME RtspInv, [Next]_vars
    PROVE  RtspInv' /\ [Cast!Next]_(Cast!vars)
<1>1. CASE Connect
  BY <1>1, IsConnected
<1>2. CASE SinkSelects
  BY <1>2, SinkHasSelected
<1>3. CASE ConnectFails
  BY <1>3, SinkHasFailed
<1>4. CASE SinkReads
  BY <1>4, SinkHasRead
<1>5. CASE SinkCloses
  BY <1>5, SinkHasClosed
<1>6. CASE SinkStarts
  BY <1>6, SinkHasStarted
<1>7. CASE SinkArms
  BY <1>7, SinkHasArmed
<1>8. CASE SinkProsumer
  BY <1>8, SinkHasProsumer
<1>9. CASE SinkSends
  BY <1>9, SinkHasSentRequest
<1>10. CASE SourceStarts
  BY <1>10, SourceHasStarted
<1>11. CASE SourceAccepts
  BY <1>11, SourceHasAccepted
<1>12. CASE SourceReads
  BY <1>12, SourceHasRead
<1>13. CASE SourceCloses
  BY <1>13, SourceHasClosed
<1>14. CASE SourceProsumer
  BY <1>14, SourceHasProsumer
<1>15. CASE CutToSink \/ CutToSource
  BY <1>15, IsCut
<1>16. CASE LoseLink
  BY <1>16, IsLost
<1>17. CASE SinkExpires
  BY <1>17, SinkHasExpired
<1>18. CASE SinkKeepAlive
  BY <1>18, SinkHasNoKeepAlive
<1>19. CASE SinkInterrupt
  BY <1>19, SinkIsInterrupted
<1>20. CASE SinkPauses
  BY <1>20, SinkHasPaused
<1>21. CASE SinkStops
  BY <1>21, SinkHasBegunM8
<1>22. CASE SinkIdr
  BY <1>22, SinkHasBegunIdr
<1>23. CASE SinkDestroys
  BY <1>23, SinkIsDestroyed
<1>24. CASE SourceKeepAlive
  BY <1>24, SourceHasKeptAlive
<1>25. CASE SourceStops
  BY <1>25, SourceHasStopped
<1>26. CASE UNCHANGED vars
  <2>1. sink' = sink /\ source' = source /\ toSink' = toSink /\ toSource' = toSource /\ link' = link
    BY <1>26 DEF vars
  <2>2. UNCHANGED Cast!vars
    BY <2>1 DEF Cast!vars
  <2> QED
    BY <2>1, <2>2 DEF RtspInv
<1> QED
  BY <1>1, <1>2, <1>3, <1>4, <1>5, <1>6, <1>7, <1>8, <1>9, <1>10, <1>11, <1>12, <1>13, <1>14, <1>15, <1>16, <1>17,
     <1>18, <1>19, <1>20, <1>21, <1>22, <1>23, <1>24, <1>25, <1>26 DEF Next, Threads

\* The invariant holds throughout.
THEOREM RtspCorrect == Spec => []RtspInv
<1>1. Init => RtspInv
  BY InitInv
<1>2. RtspInv /\ [Next]_vars => RtspInv'
  BY RtspStep
<1> QED
  BY <1>1, <1>2, PTL DEF Spec

\* The pool thread of the sink that sends TEARDOWN or an IDR request fails only when the connection ended.
THEOREM PoolSendIsSafe == Spec => []PoolSendSafe
<1>1. RtspInv => PoolSendSafe
  BY DEF RtspInv, SinkOK, PoolSendSafe
<1> QED
  BY <1>1, RtspCorrect, PTL

\* What TEARDOWN, a stop or a failed step of opening leaves behind: no keep-alive timer and no descriptor.
THEOREM NothingIsLeft == Spec => []EndLeavesNothing
<1>1. RtspInv => EndLeavesNothing
  BY DEF RtspInv, SinkOK, SourceOK, EndLeavesNothing
<1> QED
  BY <1>1, RtspCorrect, PTL

\* The two sessions, however their messages are spliced, cut or lost, do what CastSession promises their agents.
THEOREM SessionsImplementCast == Spec => ImplementsCast
<1>1. Init => Cast!Init
  BY InitInv
<1>2. RtspInv /\ [Next]_vars => [Cast!Next]_Cast!vars
  BY RtspStep
<1>3. Spec => []RtspInv
  BY RtspCorrect
<1>4. Spec => Init /\ [][Next]_vars
  BY PTL DEF Spec
<1>5. Cast!Init /\ [][Cast!Next]_Cast!vars => Cast!Spec
  BY PTL DEF Cast!Spec
<1>6. Spec => Cast!Init
  BY <1>1, <1>4
<1>7. Spec => [][Cast!Next]_Cast!vars
  BY <1>2, <1>3, <1>4, PTL
<1>8. Spec => Cast!Spec
  BY <1>5, <1>6, <1>7
<1> QED
  BY <1>8 DEF ImplementsCast

-----------------------------------------------------------------------------
(* The stream that is agreed upon: M3 and M4, from the configuration of the*)
(* sink to the choice of the source and back to the tracks of the sink.    *)

\* Whatever is offered, the source settles on the smallest format, since the byte of the native resolution holds
\* nothing else: this is what it has chosen when M4 is sent, and what M4 sets at the sink.
SettledOn(choice, port) == choice.video = "VIDEO_640X480_60" /\ choice.port = port
Sets(m) == m.params.cea = {0} /\ m.params.audio \in {[codec |-> "LPCM", modes |-> {1}], [codec |-> "AAC", modes |-> {0}]}
AgreedTrack == [video |-> <<640, 480, 60>>, audio |-> <<48000, 2>>]

\* The row of the table that stands for a format is one of seven.
LEMMA FormatRows ==
    ASSUME NEW format
    PROVE  Sink!GetVideoFormatResolution(format) \in {0, 5, 6, 7, 8, 10, 12}
<1>1. ASSUME format \in DOMAIN Sink!CeaOfFormat
      PROVE  Sink!CeaOfFormat[format] \in {0, 5, 6, 7, 8, 10, 12}
  BY <1>1 DEF Sink!CeaOfFormat
<1> QED
  BY <1>1 DEF Sink!GetVideoFormatResolution

\* The lowest byte of the mask, shifted by three, tells nothing of any row but the first.
LEMMA NativeByte ==
    ASSUME NEW format
    PROVE  Sink!OfferVideo(format).native \in {0, 8}
<1> DEFINE i == Sink!GetVideoFormatResolution(format)
<1>1. i \in {0, 5, 6, 7, 8, 10, 12}
  BY FormatRows
<1> DEFINE B(n) == (2 ^ n * 8) % 256
<1>2. B(0) = 8 /\ B(5) = 0 /\ B(6) = 0 /\ B(7) = 0 /\ B(8) = 0 /\ B(10) = 0 /\ B(12) = 0
  OBVIOUS
<1>3. Sink!OfferVideo(format).native = IF format = "VIDEO_NONE" THEN 0 ELSE B(i)
  BY DEF Sink!OfferVideo
<1> HIDE DEF i, B
<1>4. B(i) \in {0, 8}
  BY ONLY <1>1, <1>2
<1> QED
  BY <1>3, <1>4

\* The port is the second field of wfd_client_rtp_ports.
LEMMA PortIsKept ==
    ASSUME NEW port, NEW fields, fields = Sink!SetClientRtpPorts(port)
    PROVE  Source!GetClientRtpPorts(fields) = port
BY DEF Sink!SetClientRtpPorts, Source!GetClientRtpPorts

\* So the source chooses the smallest format, and the port of the sink, from any response to M3.
LEMMA OfferSettles ==
    ASSUME NEW config
    PROVE  SettledOn(Source!Choose(Sink!M3Params(config)), config.port)
<1> DEFINE p == Sink!M3Params(config)
           v == Sink!OfferVideo(config.video)
<1>1. p.video = v /\ p.ports = Sink!SetClientRtpPorts(config.port)
  BY DEF Sink!M3Params
<1>2. v.native \in {0, 8}
  BY NativeByte
<1> HIDE DEF p, v
<1>3. Source!FormatOfCea[0] = "VIDEO_640X480_60"
  BY DEF Source!FormatOfCea, Source!CeaOfFormat
<1>4. 1 \notin DOMAIN Source!FormatOfCea
  BY DEF Source!FormatOfCea
<1>5. Source!GetVideoFormatsByCea(0) = "VIDEO_640X480_60" /\ Source!GetVideoFormatsByCea(1) = "VIDEO_640X480_60"
  BY <1>3, <1>4 DEF Source!GetVideoFormatsByCea
<1>6. Source!GetVideoFormats(v) = "VIDEO_640X480_60"
  <2>1. CASE v.native = 0
    <3>1. v.native % 8 = 0 /\ v.native \div 8 = 0
      BY <2>1
    <3> QED
      BY <1>5, <3>1 DEF Source!GetVideoFormats
  <2>2. CASE v.native = 8
    <3>1. v.native % 8 = 0 /\ v.native \div 8 = 1
      BY <2>2
    <3> QED
      BY <1>5, <3>1 DEF Source!GetVideoFormats
  <2> QED
    BY <1>2, <2>1, <2>2
<1>7. Source!GetClientRtpPorts(p.ports) = config.port
  BY <1>1, PortIsKept
<1> QED
  BY <1>1, <1>6, <1>7 DEF SettledOn, Source!Choose, p

\* M4 says what the source has settled on.
LEMMA SettledIsSent ==
    ASSUME NEW choice, NEW port, SettledOn(choice, port), NEW n
    PROVE  Sets(Source!M4Request(n, Source!M4Params(choice)))
<1> DEFINE p == Source!M4Params(choice)
           m == Source!M4Request(n, p)
<1>1. p.cea = {0} /\ p.audio \in {[codec |-> "LPCM", modes |-> {1}], [codec |-> "AAC", modes |-> {0}]}
  BY DEF SettledOn, Source!M4Params, Source!SettleVideo, Source!SettleAudio
<1> HIDE DEF p
<1>2. m.params = p
  BY DEF Source!M4Request, Source!WithParams, Source!RtspRequestParameter, Source!Request, Source!NoMessage
<1> QED
  BY <1>1, <1>2 DEF Sets, p

\* And the sink takes its tracks from it, whatever they were.
LEMMA SetsTracks ==
    ASSUME NEW m, Sets(m), NEW old
    PROVE  Sink!Tracks(m.params, old) = AgreedTrack
<1>1. Sink!HighestBit({0}) = 0 /\ Sink!HighestBit({1}) = 1
  BY DEF Sink!HighestBit
<1>2. Sink!CeaTable[0 + 1] = <<640, 480, 60>>
  BY DEF Sink!CeaTable
<1>3. Sink!AudioTable["LPCM"][1 + 1] = <<48000, 2>> /\ Sink!AudioTable["AAC"][0 + 1] = <<48000, 2>>
  BY DEF Sink!AudioTable
<1>4. {0} # {} /\ {1} # {}
  OBVIOUS
<1>5. Sink!GetVideoTrack(m.params, old.video) = <<640, 480, 60>>
  BY <1>1, <1>2, <1>4 DEF Sets, Sink!GetVideoTrack
<1>6. Sink!GetAudioTrack(m.params, old.audio) = <<48000, 2>>
  <2>1. CASE m.params.audio = [codec |-> "LPCM", modes |-> {1}]
    <3>1. m.params.audio.codec = "LPCM" /\ m.params.audio.modes = {1}
      BY <2>1
    <3> QED
      BY <1>1, <1>3, <1>4, <3>1 DEF Sink!GetAudioTrack
  <2>2. CASE m.params.audio = [codec |-> "AAC", modes |-> {0}]
    <3>1. m.params.audio.codec = "AAC" /\ m.params.audio.modes = {0}
      BY <2>2
    <3> QED
      BY <1>1, <1>3, <1>4, <3>1 DEF Sink!GetAudioTrack
  <2>3. \/ m.params.audio = [codec |-> "LPCM", modes |-> {1}]
        \/ m.params.audio = [codec |-> "AAC", modes |-> {0}]
    BY DEF Sets
  <2> QED
    BY <2>1, <2>2, <2>3
<1> QED
  BY <1>5, <1>6 DEF Sink!Tracks, AgreedTrack

\* A response that is awaited as the response to M3 offers what the source will settle on; the request that awaits it
\* is M3, as far as the sink can tell; and M4 sets what was settled.
FitsSource(m, c, port) == ~m.req /\ c.wfd = "M3" /\ m.cseq = c.cseq => SettledOn(Source!Choose(m.params), port)
FitsSink(m, c) == /\ m.req /\ c.wfd = "M3" /\ m.cseq = c.cseq => m.method = "GET_PARAMETER"
                  /\ IsM4(m) => Sets(m)

\* The keep-alive timer exists from M7 on, the tracks are set before the consumer is asked for, and the source has
\* settled before it sends M4.
Agreed(k, c, a, b) ==
    /\ \A i \in 1..Len(a) : FitsSink(a[i], c)
    /\ FitsSink(k.last, c)
    /\ \A i \in 1..Len(b) : FitsSource(b[i], c, k.config.port)
    /\ k.keepAlive # "null" => "PLAYED" \in k.told
    /\ k.creates > 0 => k.track = AgreedTrack
    /\ c.wfd = "M4" \/ c.creates > 0 => SettledOn(c.choice, k.config.port)

\* The configuration is made before there is a connection, and the source waits for that.
Unconnected(k, c, ln) == /\ k.starting = "never" => ln = "none"
                         /\ ln = "none" => c.wfd = "M0" /\ ~c.peer.heard

AgreedInv == Agreed(sink, source, toSink, toSource) /\ Unconnected(sink, source, link)

-----------------------------------------------------------------------------
(* The helpers of the sink                                                 *)

\* A sink in the middle of a handler, with what it has sent so far; `was' is what it was before.  Once it has told
\* that it plays, no response to M3 is awaited any more.
Faithful(k, c, was) ==
    /\ SinkRec(k) /\ k.config = was.config /\ (k.starting = "never" => was.starting = "never")
    /\ FitsSink(k.last, c)
    /\ k.keepAlive # "null" => "PLAYED" \in k.told
    /\ k.creates > 0 => k.track = AgreedTrack
    /\ c.wfd = "M4" \/ c.creates > 0 => SettledOn(c.choice, k.config.port)
    /\ \E S : k.out \in Seq(S)
    /\ "PLAYED" \in k.told \/ \A i \in 1..Len(k.out) : FitsSource(k.out[i], c, k.config.port)

\* What the helpers leave alone, and the messages they may send.
Carries(k, l) == /\ SinkRec(l)
                 /\ l.config = k.config /\ l.starting = k.starting /\ l.track = k.track
                 /\ l.creates = k.creates /\ l.last = k.last
                 /\ l.keepAlive # "null" => k.keepAlive # "null"
                 /\ "PLAYED" \in k.told => "PLAYED" \in l.told
Mute(k, l) == Carries(k, l) /\ l.out = k.out
Utters(k, l, m) == Carries(k, l) /\ (l.out = k.out \/ l.out = Append(k.out, m))

\* One helper after another carries on what the first did.
LEMMA CarriesTwice ==
    ASSUME NEW k, NEW l, NEW j, Carries(k, l), Carries(l, j)
    PROVE  Carries(k, j)
BY DEF Carries

\* A helper that sends nothing of its own.
LEMMA StaysFaithful ==
    ASSUME NEW k, NEW l, NEW c, NEW was, Faithful(k, c, was), Mute(k, l)
    PROVE  Faithful(l, c, was)
BY DEF Faithful, Mute, Carries

\* One that sends m.
LEMMA UttersFaithfully ==
    ASSUME NEW k, NEW l, NEW c, NEW was, NEW m, Faithful(k, c, was), Utters(k, l, m),
           "PLAYED" \in k.told \/ FitsSource(m, c, k.config.port)
    PROVE  Faithful(l, c, was)
<1>1. CASE l.out = k.out
  BY <1>1, StaysFaithful DEF Utters, Mute
<1>2. CASE l.out = Append(k.out, m)
  <2>1. PICK S : k.out \in Seq(S)
    BY DEF Faithful
  <2>2. k.out \in Seq(S \cup {m}) /\ m \in S \cup {m}
    BY <2>1
  <2>3. /\ l.out \in Seq(S \cup {m}) /\ Len(k.out) \in Nat /\ Len(l.out) = Len(k.out) + 1
        /\ \A i \in 1..Len(k.out) : l.out[i] = k.out[i]
        /\ l.out[Len(k.out) + 1] = m
    BY <1>2, <2>2
  <2>4. \A i \in 1..Len(l.out) : i \in 1..Len(k.out) \/ i = Len(k.out) + 1
    BY <2>3
  <2>5. "PLAYED" \in l.told \/ \A i \in 1..Len(l.out) : FitsSource(l.out[i], c, l.config.port)
    BY <2>3, <2>4 DEF Faithful, Utters, Carries
  <2>6. \E T : l.out \in Seq(T)
    BY <2>3
  <2> QED
    BY <2>5, <2>6 DEF Faithful, Utters, Carries
<1> QED
  BY <1>1, <1>2 DEF Utters

\* NotifyAgentSessionEvent, CheckInterrupt and OnClientClose send nothing.
LEMMA MuteCalls ==
    ASSUME NEW s, SinkRec(s)
    PROVE  /\ Mute(s, s)
           /\ \A what : Mute(s, Sink!NotifyAgent(s, what))
           /\ Mute(s, Sink!NotifyServiceError(s)) /\ Mute(s, Sink!CheckInterrupt(s))
           /\ Mute(s, Sink!ClientClosed(s))
<1>1. Mute(s, s)
  BY DEF Mute, Carries
<1>2. \A what : Mute(s, Sink!NotifyAgent(s, what))
  BY DEF Sink!NotifyAgent, SinkRec, SinkFields, Mute, Carries
<1>3. Mute(s, Sink!CheckInterrupt(s)) /\ Mute(s, Sink!NotifyServiceError(s))
  BY <1>1, <1>2 DEF Sink!CheckInterrupt, Sink!NotifySessionInterrupted, Sink!NotifyServiceError
<1> DEFINE t == [s EXCEPT !.client = FALSE, !.socket = Sink!Disconnect(@)]
<1>4. Mute(s, t)
  BY DEF SinkRec, SinkFields, Mute, Carries
<1>5. Sink!ClientClosed(s) \in {t, Sink!CheckInterrupt(t), Sink!NotifyServiceError(t)}
  BY DEF Sink!ClientClosed
<1> HIDE DEF t
<1>6. SinkRec(t) /\ \A what : Mute(t, Sink!NotifyAgent(t, what))
  <2>1. SinkRec(t)
    BY <1>4 DEF Mute, Carries
  <2> QED
    BY <2>1 DEF Sink!NotifyAgent, SinkRec, SinkFields, Mute, Carries
<1>7. Mute(t, t) /\ Mute(t, Sink!CheckInterrupt(t)) /\ Mute(t, Sink!NotifyServiceError(t))
  BY <1>6 DEF Sink!CheckInterrupt, Sink!NotifySessionInterrupted, Sink!NotifyServiceError, Mute, Carries
<1>8. Mute(s, Sink!ClientClosed(s))
  BY ONLY <1>4, <1>5, <1>7 DEF Mute, Carries
<1> QED
  BY <1>1, <1>2, <1>3, <1>8

\* Timers and handlers are set without a message.
LEMMA MuteTimers ==
    ASSUME NEW s, SinkRec(s), NEW what, NEW n
    PROVE  /\ Mute(s, Sink!StartTimer(s, what)) /\ Mute(s, Sink!StopTimer(s))
           /\ Mute(s, Sink!SetHandler(s, n, what)) /\ Mute(s, Sink!EraseHandler(s, n))
BY DEF Sink!StartTimer, Sink!StopTimer, Sink!SetHandler, Sink!EraseHandler, SinkRec, SinkFields, Mute, Carries

\* TcpClient::Send sends its message or nothing.
LEMMA SendUtters ==
    ASSUME NEW s, SinkRec(s), NEW m, NEW up
    PROVE  Utters(s, Sink!Send(s, m, up), m)
<1>1. CASE up
  BY <1>1 DEF Sink!Send, SinkRec, SinkFields, Utters, Carries
<1>2. CASE ~up
  BY <1>2, MuteCalls DEF Sink!Send, Utters, Mute
<1> QED
  BY <1>1, <1>2

\* So does a response.
LEMMA ResponseUtters ==
    ASSUME NEW s, SinkRec(s), NEW n, NEW up
    PROVE  Utters(s, Sink!SendCommonResponse(s, n, up), Sink!Response(n))
BY MuteCalls, SendUtters DEF Sink!SendCommonResponse, Utters, Mute

\* And a request with a timer.
LEMMA TimedUtters ==
    ASSUME NEW s, SinkRec(s), NEW m, NEW what, NEW up
    PROVE  Utters(s, Sink!SendTimedRequest(s, m, what, up), m)
<1> DEFINE r == [s EXCEPT !.cseq = m.cseq]
           q == Sink!SetHandler(r, m.cseq, what)
           t == Sink!StartTimer(q, what)
           u == Sink!Send(t, m, up)
           v == Sink!EraseHandler(u, m.cseq)
           w == Sink!StopTimer(v)
           x == Sink!NotifyServiceError(w)
           l == Sink!SendTimedRequest(s, m, what, up)
<1>1. l \in {s, u, x}
  BY DEF Sink!SendTimedRequest
<1>2. Mute(s, r)
  BY DEF SinkRec, SinkFields, Mute, Carries
<1> HIDE DEF r, l
<1>3. Mute(r, q)
  BY <1>2, MuteTimers DEF Mute, Carries
<1> HIDE DEF q
<1>4. Mute(q, t)
  BY <1>3, MuteTimers DEF Mute, Carries
<1> HIDE DEF t
<1>5. Utters(t, u, m)
  BY <1>4, SendUtters DEF Mute, Carries
<1> HIDE DEF u
<1>6. Mute(u, v)
  <2>1. SinkRec(u)
    BY <1>5 DEF Utters, Carries
  <2> QED
    BY <2>1, MuteTimers
<1> HIDE DEF v
<1>7. Mute(v, w)
  BY <1>6, MuteTimers DEF Mute, Carries
<1> HIDE DEF w
<1>8. Mute(w, x)
  BY <1>7, MuteCalls DEF Mute, Carries
<1> HIDE DEF x
<1>9. Utters(s, u, m)
  BY <1>2, <1>3, <1>4, <1>5 DEF Mute, Utters, Carries
<1>10. Utters(s, x, m)
  BY <1>6, <1>7, <1>8, <1>9 DEF Mute, Utters, Carries
<1>11. Utters(s, s, m)
  BY MuteCalls DEF Mute, Utters
<1> QED
  BY <1>1, <1>9, <1>10, <1>11 DEF l

\* The timers, the handlers and the notices to the agent.
LEMMA QuietlyFaithful ==
    ASSUME NEW k, NEW c, NEW was, Faithful(k, c, was)
    PROVE  /\ \A what : Faithful(Sink!StartTimer(k, what), c, was) /\ Faithful(Sink!NotifyAgent(k, what), c, was)
           /\ Faithful(Sink!StopTimer(k), c, was)
           /\ \A n, what : Faithful(Sink!SetHandler(k, n, what), c, was)
           /\ \A n : Faithful(Sink!EraseHandler(k, n), c, was)
           /\ Faithful(Sink!NotifyServiceError(k), c, was) /\ Faithful(Sink!CheckInterrupt(k), c, was)
           /\ Faithful(Sink!ClientClosed(k), c, was)
<1>1. SinkRec(k)
  BY DEF Faithful
<1>2. /\ \A what : Mute(k, Sink!StartTimer(k, what)) /\ Mute(k, Sink!NotifyAgent(k, what))
      /\ Mute(k, Sink!StopTimer(k))
      /\ \A n, what : Mute(k, Sink!SetHandler(k, n, what))
      /\ \A n : Mute(k, Sink!EraseHandler(k, n))
      /\ Mute(k, Sink!NotifyServiceError(k)) /\ Mute(k, Sink!CheckInterrupt(k)) /\ Mute(k, Sink!ClientClosed(k))
  BY <1>1, MuteTimers, MuteCalls
<1>3. \A l : Mute(k, l) => Faithful(l, c, was)
  BY StaysFaithful
<1> QED
  BY <1>2, <1>3

-----------------------------------------------------------------------------
(* The handlers of the sink                                                *)

\* What fits a sink session fits one that has told more, and no request is a response that is awaited.
LEMMA Fits ==
    ASSUME NEW c, NEW port
    PROVE  /\ \A m : m.req => FitsSource(m, c, port)
           /\ \A m, n : FitsSink(n, c) /\ n.req /\ n.method # "GET_PARAMETER" /\ m.cseq = n.cseq => FitsSource(m, c, port)
           /\ FitsSink(NoMessage, c)
<1>1. ~NoMessage.req
  BY NoMessageIs
<1> QED
  BY <1>1 DEF FitsSource, FitsSink, IsM4

\* The response to M3 offers what the source settles on.
LEMMA OfferFits ==
    ASSUME NEW c, NEW config, NEW n
    PROVE  FitsSource(Sink!M3Response(n, Sink!M3Params(config)), c, config.port)
<1> DEFINE p == Sink!M3Params(config)
           m == Sink!M3Response(n, p)
<1>1. SettledOn(Source!Choose(p), config.port)
  BY OfferSettles
<1> HIDE DEF p
<1>2. m.params = p
  BY DEF Sink!M3Response, Sink!WithParams, Sink!Response, Sink!NoMessage
<1> QED
  BY <1>1, <1>2 DEF FitsSource, p

\* The numbers of the messages that the sink composes.
LEMMA SinkSays ==
    ASSUME NEW n
    PROVE  /\ Sink!Response(n).cseq = n
           /\ \A id : /\ Sink!RtspRequestOptions(n).req /\ Sink!RtspRequestSetup(n).req
                      /\ Sink!WithSession(Sink!RtspRequestPlay(n), id).req
                      /\ Sink!WithSession(Sink!RtspRequestTeardown(n), id).req
                      /\ Sink!IDRRequest(n, id).req
BY DEF Sink!RtspRequestOptions, Sink!RtspRequestSetup, Sink!WithSession, Sink!RtspRequestPlay,
       Sink!RtspRequestTeardown, Sink!IDRRequest, Sink!Response, Sink!Request, Sink!NoMessage,
       Sink!RtspRequestParameter

\* A request with a timer keeps the sink faithful.
LEMMA TimedIsFaithful ==
    ASSUME NEW k, NEW c, NEW was, Faithful(k, c, was), NEW m, m.req, NEW what, NEW up
    PROVE  Faithful(Sink!SendTimedRequest(k, m, what, up), c, was)
<1>1. Utters(k, Sink!SendTimedRequest(k, m, what, up), m)
  BY TimedUtters DEF Faithful
<1>2. FitsSource(m, c, k.config.port)
  BY Fits
<1> QED
  BY <1>1, <1>2, UttersFaithfully

\* So does the response to a request other than M3.
LEMMA ResponseIsFaithful ==
    ASSUME NEW k, NEW c, NEW was, Faithful(k, c, was), NEW m, m.req, FitsSink(m, c), m.method # "GET_PARAMETER", NEW up
    PROVE  Faithful(Sink!SendCommonResponse(k, m.cseq, up), c, was)
<1>1. Utters(k, Sink!SendCommonResponse(k, m.cseq, up), Sink!Response(m.cseq))
  BY ResponseUtters DEF Faithful
<1>2. FitsSource(Sink!Response(m.cseq), c, k.config.port)
  <2> DEFINE x == Sink!Response(m.cseq)
  <2>1. x.cseq = m.cseq
    BY SinkSays
  <2> HIDE DEF x
  <2>2. FitsSource(x, c, k.config.port)
    BY <2>1, Fits
  <2> QED
    BY <2>2 DEF x
<1> QED
  BY <1>1, <1>2, UttersFaithfully

\* M1: a response and M2.
LEMMA FaithfulM1 ==
    ASSUME NEW k, NEW c, NEW was, Faithful(k, c, was), NEW m, m.req, FitsSink(m, c), m.method = "OPTIONS", NEW up
    PROVE  Faithful(Sink!HandleM1Request(k, m, up), c, was)
<1> DEFINE s == Sink!StopTimer(k)
           t == [s EXCEPT !.firstCast = TRUE, !.firstCreate = TRUE]
           x == Sink!Response(m.cseq)
           v == Sink!Send(t, x, up)
           w == [v EXCEPT !.cseq = m.cseq]
           u == IF t.client THEN w ELSE t
           q == Sink!RtspRequestOptions(u.cseq + 1)
<1>1. Faithful(s, c, was)
  BY QuietlyFaithful
<1> HIDE DEF s
<1>2. Mute(s, t)
  BY <1>1 DEF Faithful, SinkRec, SinkFields, Mute, Carries
<1> HIDE DEF t
<1>3. Faithful(t, c, was)
  BY <1>1, <1>2, StaysFaithful
<1>4. x.cseq = m.cseq
  BY SinkSays
<1> HIDE DEF x
<1>5. FitsSource(x, c, t.config.port)
  BY <1>4, Fits
<1>6. Utters(t, v, x)
  BY <1>3, SendUtters DEF Faithful
<1> HIDE DEF v
<1>7. Faithful(v, c, was)
  BY <1>3, <1>5, <1>6, UttersFaithfully
<1>8. Mute(v, w)
  BY <1>7 DEF Faithful, SinkRec, SinkFields, Mute, Carries
<1> HIDE DEF w
<1>9. Faithful(u, c, was)
  BY <1>3, <1>7, <1>8, StaysFaithful
<1> HIDE DEF u
<1>10. q.req
  BY SinkSays
<1> HIDE DEF q
<1>11. Faithful(Sink!SendTimedRequest(u, q, "M2", up), c, was)
  BY <1>9, <1>10, TimedIsFaithful
<1> QED
  BY <1>11 DEF Sink!HandleM1Request, Sink!SendM2Request, s, t, x, v, w, u, q

\* M3.
LEMMA FaithfulM3 ==
    ASSUME NEW k, NEW c, NEW was, Faithful(k, c, was), NEW m, NEW up
    PROVE  Faithful(Sink!SendM3Response(k, m, up), c, was)
<1> DEFINE s == Sink!StopTimer(k)
           t == Sink!StartTimer(s, "M4")
           x == Sink!M3Response(m.cseq, Sink!M3Params(k.config))
           v == Sink!Send(t, x, up)
           w == Sink!StopTimer(v)
           y == Sink!NotifyServiceError(w)
           l == Sink!SendM3Response(k, m, up)
<1>1. l \in {s, v, y}
  BY DEF Sink!SendM3Response
<1> HIDE DEF l
<1>2. FitsSource(x, c, k.config.port)
  BY OfferFits
<1> HIDE DEF x
<1>3. Mute(k, s) /\ Faithful(s, c, was)
  <2>1. Faithful(s, c, was)
    BY QuietlyFaithful
  <2> QED
    BY <2>1, MuteTimers DEF Faithful
<1> HIDE DEF s
<1>4. Mute(s, t) /\ Faithful(t, c, was)
  <2>1. SinkRec(s)
    BY <1>3 DEF Mute, Carries
  <2>2. Mute(s, t)
    BY <2>1, MuteTimers
  <2>3. Faithful(t, c, was)
    BY <1>3, QuietlyFaithful
  <2> QED
    BY <2>2, <2>3
<1> HIDE DEF t
<1>5. Utters(t, v, x)
  BY <1>4, SendUtters DEF Faithful
<1> HIDE DEF v
<1>6. t.config = k.config
  BY <1>3, <1>4 DEF Mute, Carries
<1>7. Faithful(v, c, was)
  BY <1>2, <1>4, <1>5, <1>6, UttersFaithfully
<1>8. Faithful(w, c, was)
  BY <1>7, QuietlyFaithful
<1> HIDE DEF w
<1>9. Faithful(y, c, was)
  BY <1>8, QuietlyFaithful
<1> HIDE DEF y
<1> QED
  BY <1>1, <1>3, <1>7, <1>9 DEF l

\* M16: there is a timer to keep alive only behind M7.
LEMMA FaithfulM16 ==
    ASSUME NEW k, NEW c, NEW was, Faithful(k, c, was), NEW m, NEW up
    PROVE  Faithful(Sink!HandleM16Request(k, m, up), c, was)
<1> DEFINE u == Sink!SendCommonResponse(k, m.cseq, up)
           v == [u EXCEPT !.keepAlive = "on"]
<1>1. CASE k.keepAlive = "null"
  BY <1>1 DEF Sink!HandleM16Request
<1>2. CASE k.keepAlive # "null"
  <2>1. "PLAYED" \in k.told
    BY <1>2 DEF Faithful
  <2>2. Utters(k, u, Sink!Response(m.cseq))
    BY ResponseUtters DEF Faithful
  <2> HIDE DEF u
  <2>3. Faithful(u, c, was) /\ "PLAYED" \in u.told
    BY <2>1, <2>2, UttersFaithfully DEF Utters, Carries
  <2>4. Faithful(v, c, was)
    BY <2>3 DEF Faithful, SinkRec, SinkFields
  <2> QED
    BY <1>2, <2>4 DEF Sink!HandleM16Request, u
<1> QED
  BY <1>1, <1>2

\* M4 sets the tracks, and then the consumer is asked for.
LEMMA FaithfulM4 ==
    ASSUME NEW k, NEW c, NEW was, Faithful(k, c, was), NEW m, IsM4(m), FitsSink(m, c), NEW up
    PROVE  Faithful(Sink!HandleM4Request(k, m, up), c, was)
<1> DEFINE track == Sink!Tracks(m.params, k.track)
           s == [k EXCEPT !.track = track]
           s1 == Sink!StopTimer(s)
           s2 == Sink!StartTimer(s1, "M5")
           t == IF k.firstCast THEN s2 ELSE s1
           f == Sink!SendCommonResponse(t, m.cseq, up)
           u == [f EXCEPT !.firstCast = FALSE]
           g == Sink!StopTimer(f)
           h == Sink!NotifyServiceError(g)
           n == u.creates + 1
           y == [u EXCEPT !.firstCreate = FALSE, !.creates = n]
           l == Sink!HandleM4Request(k, m, up)
<1>1. l \in {h, y, u}
  <2>1. s = [k EXCEPT !.track = Sink!Tracks(m.params, @)]
    BY DEF Faithful, SinkRec, SinkFields
  <2>2. y = [u EXCEPT !.firstCreate = FALSE, !.creates = @ + 1]
    BY DEF Faithful, SinkRec, SinkFields
  <2>3. s.firstCast = k.firstCast
    BY DEF Faithful, SinkRec, SinkFields
  <2> HIDE DEF s, track, y, n
  <2> QED
    BY <2>1, <2>2, <2>3 DEF Sink!HandleM4Request
<1> HIDE DEF l
<1>2. m.req /\ m.method # "GET_PARAMETER" /\ Sets(m)
  BY DEF IsM4, FitsSink
<1>3. track = AgreedTrack
  BY <1>2, SetsTracks
<1> HIDE DEF track, n
<1>4. Faithful(s, c, was) /\ s.track = AgreedTrack
  BY <1>3 DEF Faithful, SinkRec, SinkFields
<1> HIDE DEF s
<1>5. Mute(s, s1)
  BY <1>4, MuteTimers DEF Faithful
<1> HIDE DEF s1
<1>6. Mute(s1, s2)
  BY <1>5, MuteTimers DEF Mute, Carries
<1> HIDE DEF s2
<1>7. Faithful(t, c, was) /\ t.track = AgreedTrack
  <2>1. Faithful(s1, c, was) /\ s1.track = AgreedTrack
    BY <1>4, <1>5, StaysFaithful DEF Mute, Carries
  <2>2. Faithful(s2, c, was) /\ s2.track = AgreedTrack
    BY <2>1, <1>6, StaysFaithful DEF Mute, Carries
  <2> QED
    BY <2>1, <2>2
<1> HIDE DEF t
<1>8. Faithful(f, c, was) /\ f.track = AgreedTrack
  <2>1. Faithful(f, c, was)
    BY <1>2, <1>7, ResponseIsFaithful
  <2>2. Utters(t, f, Sink!Response(m.cseq))
    BY <1>7, ResponseUtters DEF Faithful
  <2> QED
    BY <1>7, <2>1, <2>2 DEF Utters, Carries
<1> HIDE DEF f
<1>9. Faithful(u, c, was) /\ u.track = AgreedTrack
  BY <1>8 DEF Faithful, SinkRec, SinkFields
<1> HIDE DEF u
<1>10. Faithful(y, c, was)
  BY <1>9 DEF Faithful, SinkRec, SinkFields
<1> HIDE DEF y
<1>11. Faithful(g, c, was)
  BY <1>8, QuietlyFaithful
<1> HIDE DEF g
<1>12. Faithful(h, c, was)
  BY <1>11, QuietlyFaithful
<1> HIDE DEF h
<1> QED
  BY <1>1, <1>9, <1>10, <1>12 DEF l

\* TEARDOWN: a request.
LEMMA FaithfulM8 ==
    ASSUME NEW k, NEW c, NEW was, Faithful(k, c, was), NEW n, NEW up
    PROVE  Faithful(Sink!FinishM8(k, n, up), c, was)
<1> DEFINE q == Sink!WithSession(Sink!RtspRequestTeardown(n), k.session)
           s == Sink!SetHandler(k, k.cseq, "M8")
           t == Sink!Send(s, q, up)
           e == Sink!EraseHandler(t, k.cseq)
           z == IF up THEN t ELSE e
           l == [z EXCEPT !.wfd = "STOPPING"]
<1>1. Faithful(s, c, was)
  BY QuietlyFaithful
<1>2. q.req
  BY SinkSays
<1>3. Sink!FinishM8(k, n, up) = l
  BY DEF Sink!FinishM8
<1> HIDE DEF s, q
<1>4. Faithful(t, c, was)
  <2>1. Utters(s, t, q)
    BY <1>1, SendUtters DEF Faithful
  <2>2. FitsSource(q, c, s.config.port)
    BY <1>2, Fits
  <2> QED
    BY <1>1, <2>1, <2>2, UttersFaithfully
<1> HIDE DEF t
<1>5. Faithful(e, c, was)
  BY <1>4, QuietlyFaithful
<1> HIDE DEF e
<1>6. Faithful(z, c, was)
  BY <1>4, <1>5
<1> HIDE DEF z
<1>7. Faithful(l, c, was)
  BY <1>6 DEF Faithful, SinkRec, SinkFields
<1> QED
  BY <1>3, <1>7

\* M5, or the request to tear down.
LEMMA FaithfulTrigger ==
    ASSUME NEW k, NEW c, NEW was, Faithful(k, c, was), NEW m, m.req, FitsSink(m, c), m.method # "GET_PARAMETER", NEW up
    PROVE  Faithful(Sink!HandleTriggerMethod(k, m, up), c, was)
<1> DEFINE s == Sink!StopTimer(k)
           t == IF Sink!GetTriggerMethod(m) = "setup" THEN s ELSE k
           u == Sink!SendCommonResponse(t, m.cseq, up)
           e == Sink!NotifyServiceError(u)
           q == Sink!RtspRequestSetup(u.cseq + 1)
           v == Sink!SendTimedRequest(u, q, "M6", up)
           w == [v EXCEPT !.wfd = "READY"]
           x == [u EXCEPT !.cseq = @ + 1]
           y == Sink!FinishM8(x, u.cseq + 1, up)
           l == Sink!HandleTriggerMethod(k, m, up)
<1>1. l \in {e, v, w, y, u}
  BY DEF Sink!HandleTriggerMethod, Sink!SendM6Request, Sink!SendM8Request
<1> HIDE DEF l
<1>2. Faithful(t, c, was)
  BY QuietlyFaithful
<1> HIDE DEF s, t
<1>3. Faithful(u, c, was)
  BY <1>2, ResponseIsFaithful
<1> HIDE DEF u
<1>4. Faithful(e, c, was)
  BY <1>3, QuietlyFaithful
<1> HIDE DEF e
<1>5. q.req
  BY SinkSays
<1> HIDE DEF q
<1>6. Faithful(v, c, was)
  BY <1>3, <1>5, TimedIsFaithful
<1> HIDE DEF v
<1>7. Faithful(w, c, was)
  BY <1>6 DEF Faithful, SinkRec, SinkFields
<1>8. Faithful(x, c, was)
  BY <1>3 DEF Faithful, SinkRec, SinkFields
<1> HIDE DEF w, x
<1>9. Faithful(y, c, was)
  BY <1>8, FaithfulM8
<1> HIDE DEF y
<1> QED
  BY <1>1, <1>3, <1>4, <1>6, <1>7, <1>9 DEF l

\* Whatever request it is.
LEMMA FaithfulRequest ==
    ASSUME NEW j, NEW c, NEW was, Faithful(j, c, was), NEW m, m.req, FitsSink(m, c), NEW up
    PROVE  Faithful(Sink!HandleRequest(j, m, up), c, was)
<1> DEFINE k == [j EXCEPT !.last = NoMessage]
<1>1. k = [j EXCEPT !.last = Sink!NoMessage]
  BY NoMessageIs
<1>2. Faithful(k, c, was)
  BY Fits DEF Faithful, SinkRec, SinkFields
<1> HIDE DEF k
<1>3. CASE m.method = "OPTIONS"
  <2>1. Sink!HandleRequest(j, m, up) = Sink!HandleM1Request(k, m, up)
    BY <1>1, <1>3 DEF Sink!HandleRequest
  <2> QED
    BY <1>2, <1>3, <2>1, FaithfulM1
<1>4. CASE m.method = "GET_PARAMETER" /\ m.body # "none"
  <2>1. Sink!HandleRequest(j, m, up) = Sink!SendM3Response(k, m, up)
    BY <1>1, <1>4 DEF Sink!HandleRequest
  <2> QED
    BY <1>2, <2>1, FaithfulM3
<1>5. CASE m.method = "GET_PARAMETER" /\ m.body = "none"
  <2>1. Sink!HandleRequest(j, m, up) = Sink!HandleM16Request(k, m, up)
    BY <1>1, <1>5 DEF Sink!HandleRequest
  <2> QED
    BY <1>2, <2>1, FaithfulM16
<1>6. CASE m.method = "SET_PARAMETER" /\ Sink!GetTriggerMethod(m) # "none"
  <2>1. Sink!HandleRequest(j, m, up) = Sink!HandleTriggerMethod(k, m, up)
    BY <1>1, <1>6 DEF Sink!HandleRequest, Sink!GetTriggerMethod
  <2> QED
    BY <1>2, <1>6, <2>1, FaithfulTrigger
<1>7. CASE m.method = "SET_PARAMETER" /\ m.body = "params" /\ Sink!GetTriggerMethod(m) = "none"
  <2>1. Sink!HandleRequest(j, m, up) = Sink!HandleM4Request(k, m, up)
    BY <1>1, <1>7 DEF Sink!HandleRequest
  <2> QED
    BY <1>2, <1>7, <2>1, FaithfulM4 DEF IsM4
<1>8. CASE /\ m.method # "OPTIONS" /\ m.method # "GET_PARAMETER"
           /\ m.method = "SET_PARAMETER" => Sink!GetTriggerMethod(m) = "none" /\ m.body # "params"
  <2>1. Sink!HandleRequest(j, m, up) = k
    BY <1>1, <1>8 DEF Sink!HandleRequest
  <2> QED
    BY <1>2, <2>1
<1> QED
  BY <1>3, <1>4, <1>5, <1>6, <1>7, <1>8

\* Whatever response it is.
LEMMA FaithfulResponse ==
    ASSUME NEW j, NEW c, NEW was, Faithful(j, c, was), NEW m, NEW up, Sink!Handlers(j, m.cseq) # {},
           \A h \in j.handlers : h[2] \in Sink!HandlerKinds
    PROVE  Faithful(Sink!HandleResponse(j, m, up), c, was)
<1> DEFINE k == [j EXCEPT !.last = NoMessage]
           kind == CHOOSE x \in Sink!Handlers(j, m.cseq) : TRUE
           u == CASE kind = "M2"  -> Sink!HandleM2Response(k)
                  [] kind = "M6"  -> Sink!HandleM6Response(k, m, up)
                  [] kind = "M7"  -> Sink!HandleM7Response(k)
                  [] kind = "M8"  -> Sink!HandleM8Response(k)
                  [] kind = "IDR" -> Sink!HandleCommonResponse(k)
<1>1. k = [j EXCEPT !.last = Sink!NoMessage]
  BY NoMessageIs
<1>2. Faithful(k, c, was)
  BY Fits DEF Faithful, SinkRec, SinkFields
<1>3. Sink!HandleResponse(j, m, up) = Sink!EraseHandler(u, m.cseq)
  BY <1>1 DEF Sink!HandleResponse
<1>4. kind \in Sink!Handlers(j, m.cseq)
  OBVIOUS
<1> HIDE DEF k, kind
<1>5. kind \in {"M2", "M6", "M7", "M8", "IDR"}
  BY <1>4 DEF Sink!Handlers, Sink!HandlerKinds
<1>6. Faithful(Sink!StopTimer(k), c, was)
  BY <1>2, QuietlyFaithful
<1>7. CASE kind = "M2"
  <2> DEFINE s == Sink!StopTimer(k)
  <2>1. u = Sink!StartTimer(s, "M3")
    BY <1>7 DEF Sink!HandleM2Response
  <2> HIDE DEF s, u
  <2>2. Faithful(u, c, was)
    BY <1>6, <2>1, QuietlyFaithful DEF s
  <2> QED
    BY <1>3, <2>2, QuietlyFaithful
<1>8. CASE kind = "M6"
  <2> DEFINE s == [k EXCEPT !.session = m.session]
             t == Sink!StopTimer(s)
             q == Sink!WithSession(Sink!RtspRequestPlay(t.cseq + 1), t.session)
  <2>1. u = Sink!SendTimedRequest(t, q, "M7", up)
    BY <1>8 DEF Sink!HandleM6Response, Sink!SendM7Request
  <2>2. Faithful(s, c, was)
    BY <1>2 DEF Faithful, SinkRec, SinkFields
  <2> HIDE DEF s
  <2>3. Faithful(t, c, was)
    BY <2>2, QuietlyFaithful
  <2> HIDE DEF t
  <2>4. q.req
    BY SinkSays
  <2> HIDE DEF q
  <2>5. Faithful(u, c, was)
    BY <2>1, <2>3, <2>4, TimedIsFaithful
  <2> HIDE DEF u
  <2> QED
    BY <1>3, <2>5, QuietlyFaithful
<1>9. CASE kind = "M7"
  <2> DEFINE s == Sink!StopTimer(k)
             p == Sink!NotifyAgent(s, "PLAYED")
             x == [p EXCEPT !.wfd = "PLAYING", !.timeoutCall = "network", !.keepAlive = "on"]
  <2>1. u = x
    BY <1>9 DEF Sink!HandleM7Response
  <2> HIDE DEF s, u
  <2>2. Mute(s, p) /\ "PLAYED" \in p.told
    BY <1>6, MuteCalls DEF s, Faithful, Sink!NotifyAgent, SinkRec, SinkFields
  <2>3. Faithful(p, c, was)
    BY <1>6, <2>2, StaysFaithful DEF s
  <2> HIDE DEF p
  <2>4. Faithful(x, c, was)
    BY <2>2, <2>3 DEF Faithful, SinkRec, SinkFields
  <2> HIDE DEF x
  <2> QED
    BY <1>3, <2>1, <2>4, QuietlyFaithful
<1>10. CASE kind = "M8"
  <2>1. u = Sink!NotifyAgent(k, "TEARDOWN")
    BY <1>10 DEF Sink!HandleM8Response
  <2>2. Faithful(u, c, was)
    BY <1>2, <2>1, QuietlyFaithful
  <2> HIDE DEF u
  <2> QED
    BY <1>3, <2>2, QuietlyFaithful
<1>11. CASE kind = "IDR"
  <2>1. u = Sink!StopTimer(k)
    BY <1>11 DEF Sink!HandleCommonResponse
  <2>2. Faithful(u, c, was)
    BY <1>6, <2>1
  <2> HIDE DEF u
  <2> QED
    BY <1>3, <2>2, QuietlyFaithful
<1> QED
  BY <1>5, <1>7, <1>8, <1>9, <1>10, <1>11

\* A message that was parsed fits as it did on its way, and one that was put together as it did when it was cut.
LEMMA ParsedFits ==
    ASSUME NEW c, NEW m, NEW n, SameMessage(m, n), FitsSink(n, c)
    PROVE  FitsSink(m, c)
<1>1. IsM4(m) => IsM4(n) /\ (Sets(n) => Sets(m))
  BY DEF SameMessage, IsM4, Sets
<1> QED
  BY <1>1 DEF SameMessage, FitsSink

\* One read of the sink.
LEMMA FaithfulRead ==
    ASSUME NEW k, NEW c, NEW was, Faithful(k, c, was), IsMessage(k.last), \A h \in k.handlers : h[2] \in Sink!HandlerKinds,
           NEW a, Queue(a), \A i \in 1..Len(a) : FitsSink(a[i], c),
           NEW n \in 1..Len(a), n = 1 \/ \A i \in 1..n : a[i].part = "whole", NEW up,
           NEW l, l = Sink!ReadData(k, SubSeq(a, 1, n), up)
    PROVE  Faithful(l, c, was)
<1> DEFINE chunk == SubSeq(a, 1, n)
           first == Sink!ReadFirst(chunk, k.last)
           second == Sink!ReadSecond(chunk)
           kept == Sink!ReadKeeps(chunk)
           t == Sink!HandleResponse(k, first, up)
<1>1. Parsed(a, n, k.last, first, second, kept)
  <2>1. chunk = SubSeq(a, 1, n) /\ first = Sink!ReadFirst(chunk, k.last) /\ second = Sink!ReadSecond(chunk)
    OBVIOUS
  <2> HIDE DEF chunk, first, second
  <2> QED
    BY <2>1, SinkParses
<1>2. l = IF k.interrupting THEN Sink!CheckInterrupt(k)
          ELSE IF first = NoMessage THEN [k EXCEPT !.last = kept]
          ELSE IF first.req THEN Sink!HandleRequest(k, first, up)
          ELSE IF Sink!Handlers(k, first.cseq) = {} THEN k
          ELSE IF second = NoMessage THEN t ELSE Sink!HandleRequest(t, second, up)
  BY NoMessageIs DEF Sink!ReadData
<1> HIDE DEF chunk, first, second, kept
<1>3. 1 \in 1..Len(a) /\ (n >= 2 => 2 \in 1..Len(a))
  BY QueueLength
<1>4. first # NoMessage => FitsSink(first, c)
  <2>1. FitsSink(a[1], c) /\ FitsSink(k.last, c)
    BY <1>3 DEF Faithful
  <2> QED
    BY <1>1, <2>1, ParsedFits DEF Parsed
<1>5. second # NoMessage => FitsSink(second, c) /\ second.req
  <2> HAVE second # NoMessage
  <2>1. n >= 2 /\ a[2].req /\ SameMessage(second, a[2])
    BY <1>1 DEF Parsed
  <2>2. FitsSink(a[2], c)
    BY <1>3, <2>1
  <2> QED
    BY <2>1, <2>2, ParsedFits DEF SameMessage
<1>6. CASE k.interrupting
  BY <1>2, <1>6, QuietlyFaithful
<1>7. CASE ~k.interrupting /\ first = NoMessage
  <2>1. FitsSink(kept, c)
    <3>1. FitsSink(a[1], c)
      BY <1>3
    <3> QED
      BY <1>1, <3>1, Fits DEF Parsed
  <2>2. l = [k EXCEPT !.last = kept]
    BY <1>2, <1>7
  <2> QED
    BY <2>1, <2>2 DEF Faithful, SinkRec, SinkFields
<1>8. CASE ~k.interrupting /\ first # NoMessage /\ first.req
  BY <1>2, <1>4, <1>8, FaithfulRequest
<1>9. CASE ~k.interrupting /\ first # NoMessage /\ ~first.req /\ Sink!Handlers(k, first.cseq) = {}
  BY <1>2, <1>9
<1>10. CASE ~k.interrupting /\ first # NoMessage /\ ~first.req /\ Sink!Handlers(k, first.cseq) # {}
  <2>1. Faithful(t, c, was)
    BY <1>10, FaithfulResponse
  <2>2. l = IF second = NoMessage THEN t ELSE Sink!HandleRequest(t, second, up)
    BY <1>2, <1>10
  <2> HIDE DEF t
  <2> QED
    BY <1>5, <2>1, <2>2, FaithfulRequest
<1> QED
  BY <1>6, <1>7, <1>8, <1>9, <1>10

-----------------------------------------------------------------------------
(* The steps of the sink                                                   *)

\* Between two handlers the sink is faithful.
LEMMA SinkIsFaithful ==
    ASSUME RtspInv, AgreedInv
    PROVE  Faithful(sink, source, sink)
<1>1. SinkRec(sink) /\ sink.out = <<>>
  BY DEF RtspInv, Exchange
<1>2. <<>> \in Seq({}) /\ 1..Len(<<>>) = {}
  OBVIOUS
<1>3. (\E S : sink.out \in Seq(S)) /\ \A i \in 1..Len(sink.out) : FitsSource(sink.out[i], source, sink.config.port)
  BY <1>1, <1>2
<1> QED
  BY <1>1, <1>3 DEF Faithful, AgreedInv, Agreed

\* Behind a handler that leaves the sink faithful the two still agree.
LEMMA SinkAgrees ==
    ASSUME RtspInv, RtspInv', AgreedInv, source' = source, NEW l, Faithful(l, source, sink),
           sink' = [l EXCEPT !.out = <<>>], toSource' = toSource \o l.out,
           \A i \in 1..Len(toSink') : FitsSink(toSink'[i], source),
           link' = link \/ (link' # "none" /\ l.starting # "never")
    PROVE  AgreedInv'
<1> DEFINE k == [l EXCEPT !.out = <<>>]
           c == source
<1>1. /\ k.last = l.last /\ k.keepAlive = l.keepAlive /\ k.told = l.told /\ k.creates = l.creates
      /\ k.track = l.track /\ k.config = l.config /\ k.starting = l.starting
  BY DEF Faithful, SinkRec, SinkFields
<1>2. sink' = k
  OBVIOUS
<1> HIDE DEF k
<1>3. k.config = sink.config
  BY <1>1 DEF Faithful
<1>4. "PLAYED" \in k.told => c.wfd # "M3"
  BY <1>2 DEF RtspInv, Exchange, Progress, OneToken
<1>5. \A i \in 1..Len(toSource') : FitsSource(toSource'[i], c, k.config.port)
  <2>1. PICK S : toSource \in Seq(S)
    BY DEF RtspInv, Exchange, Queue
  <2>2. PICK T : l.out \in Seq(T)
    BY DEF Faithful
  <2>3. toSource \in Seq(S \cup T) /\ l.out \in Seq(S \cup T)
    BY <2>1, <2>2
  <2>4. ASSUME NEW i \in 1..Len(toSource') PROVE FitsSource(toSource'[i], c, k.config.port)
    <3>1. /\ Len(toSource) \in Nat /\ Len(l.out) \in Nat /\ Len(toSource') = Len(toSource) + Len(l.out)
          /\ i \in 1..Len(toSource) => toSource'[i] = toSource[i]
          /\ i - Len(toSource) \in 1..Len(l.out) => toSource'[i] = l.out[i - Len(toSource)]
      BY <2>3
    <3>2. CASE i \in 1..Len(toSource)
      BY <1>3, <3>1, <3>2 DEF AgreedInv, Agreed
    <3>3. CASE i - Len(toSource) \in 1..Len(l.out)
      BY <1>1, <1>4, <3>1, <3>3 DEF Faithful, FitsSource
    <3> QED
      BY <3>1, <3>2, <3>3
  <2> QED
    BY <2>4
<1>6. Agreed(k, c, toSink', toSource')
  BY <1>1, <1>5 DEF Agreed, Faithful
<1>7. Unconnected(k, c, link')
  BY <1>1 DEF Unconnected, AgreedInv, Faithful
<1> QED
  BY <1>2, <1>6, <1>7 DEF AgreedInv

\* A step of the sink that takes nothing from its queue and leaves the connection alone.
LEMMA SinkAgreesStill ==
    ASSUME RtspInv, RtspInv', AgreedInv, source' = source, toSink' = toSink, link' = link,
           NEW l, Faithful(l, source, sink), sink' = [l EXCEPT !.out = <<>>], toSource' = toSource \o l.out
    PROVE  AgreedInv'
<1>1. \A i \in 1..Len(toSink') : FitsSink(toSink'[i], source)
  BY DEF AgreedInv, Agreed
<1> QED
  BY <1>1, SinkAgrees

\* OnClientReadData.
LEMMA SinkReadAgrees ==
    ASSUME RtspInv, RtspInv', AgreedInv, SinkReads
    PROVE  AgreedInv'
<1>1. PICK n \in 1..MaxChunk : Sink!OnClientReadData(n)
  BY DEF SinkReads
<1> DEFINE up == Sink!Up
           r == SubSeq(toSink, n + 1, Len(toSink))
           l == Sink!ReadData(sink, SubSeq(toSink, 1, n), up)
<1>2. /\ Queue(toSink) /\ Len(toSink) \in Nat /\ IsMessage(sink.last)
      /\ \A h \in sink.handlers : h[2] \in Sink!HandlerKinds
  <2>1. Queue(toSink)
    BY DEF RtspInv, Exchange
  <2> QED
    BY <2>1, QueueLength DEF RtspInv, Exchange, Numbers
<1>3. /\ n \in 1..Len(toSink) /\ (n = 1 \/ \A i \in 1..n : toSink[i].part = "whole")
      /\ sink' = [l EXCEPT !.out = <<>>] /\ toSource' = toSource \o l.out
      /\ toSink' = r /\ link' = link /\ source' = source
  <2>1. n \in 1..Len(toSink)
    BY <1>1, <1>2, RtspAssumption DEF Sink!OnClientReadData, Sink!Splittable
  <2> QED
    BY <1>1, <2>1 DEF Sink!OnClientReadData, Sink!Splittable, Sink!Become, SinkReads
<1>4. l = Sink!ReadData(sink, SubSeq(toSink, 1, n), up) /\ r = SubSeq(toSink, n + 1, Len(toSink))
  OBVIOUS
<1> HIDE DEF l, r, up
<1>5. \A i \in 1..Len(toSink) : FitsSink(toSink[i], source)
  BY DEF AgreedInv, Agreed
<1>6. Faithful(l, source, sink)
  <2>1. Faithful(sink, source, sink)
    BY SinkIsFaithful
  <2> QED
    BY <1>2, <1>3, <1>4, <1>5, <2>1, FaithfulRead
<1>7. \A i \in 1..Len(toSink') : FitsSink(toSink'[i], source)
  <2>1. Suffix(toSink, r, n)
    BY <1>2, <1>3, <1>4, Taken
  <2>2. \A i \in 1..Len(r) : i + n \in 1..Len(toSink) /\ r[i] = toSink[i + n]
    BY <2>1 DEF Suffix
  <2> QED
    BY <1>3, <1>5, <2>2
<1> QED
  BY <1>3, <1>6, <1>7, SinkAgrees

\* The other threads, where they send nothing: the timers, the events and the calls of the agent.
LEMMA SinkIdlesAgrees ==
    ASSUME RtspInv, RtspInv', AgreedInv,
           SinkCloses \/ SinkExpires \/ SinkKeepAlive \/ SinkPauses \/ SinkProsumer \/ SinkInterrupt
    PROVE  AgreedInv'
<1>1. Faithful(sink, source, sink)
  BY SinkIsFaithful
<1> DEFINE Behind(l) == sink' = [l EXCEPT !.out = <<>>] /\ toSource' = toSource \o l.out
<1>2. source' = source /\ toSink' = toSink /\ link' = link
  BY DEF SinkCloses, Sink!OnClientClose, SinkExpires, Sink!TimeoutCallback, SinkKeepAlive, Sink!KeepAliveCallback,
         SinkPauses, Sink!PauseOrResume, SinkProsumer, Sink!ProsumerCreated, Sink!ProsumerReports,
         SinkInterrupt, Sink!Interrupt
<1>3. \E l : Behind(l) /\ Faithful(l, source, sink)
  <2>1. CASE SinkCloses
    <3>1. Behind(Sink!ClientClosed(sink))
      BY <2>1 DEF SinkCloses, Sink!OnClientClose, Sink!Become
    <3> QED
      BY <1>1, <3>1, QuietlyFaithful
  <2>2. CASE SinkExpires
    <3> DEFINE s == [sink EXCEPT !.timer = "off"]
    <3>1. \/ Behind(Sink!CheckInterrupt(s))
          \/ Behind(Sink!NotifyServiceError(s))
      BY <2>2 DEF SinkExpires, Sink!TimeoutCallback, Sink!Become
    <3>2. Faithful(s, source, sink)
      BY <1>1 DEF Faithful, SinkRec, SinkFields
    <3> HIDE DEF s
    <3> QED
      BY <3>1, <3>2, QuietlyFaithful
  <2>3. CASE SinkKeepAlive
    <3> DEFINE s == [sink EXCEPT !.keepAlive = "off"]
    <3>1. Behind(Sink!NotifyServiceError(s)) /\ sink.keepAlive # "null"
      BY <2>3 DEF SinkKeepAlive, Sink!KeepAliveCallback, Sink!Become
    <3>2. Faithful(s, source, sink)
      BY ONLY <1>1, <3>1 DEF Faithful, SinkRec, SinkFields
    <3> HIDE DEF s
    <3> QED
      BY <3>1, <3>2, QuietlyFaithful
  <2>4. CASE SinkPauses
    <3>1. PICK status : LET s == [sink EXCEPT !.status = status]
                        IN  Behind(s) \/ Behind(Sink!NotifyAgent(s, status))
      BY <2>4 DEF SinkPauses, Sink!PauseOrResume, Sink!Become
    <3> DEFINE s == [sink EXCEPT !.status = status]
    <3>2. Faithful(s, source, sink)
      BY <1>1 DEF Faithful, SinkRec, SinkFields
    <3>3. Behind(s) \/ Behind(Sink!NotifyAgent(s, status))
      BY <3>1
    <3> HIDE DEF s
    <3>4. Faithful(Sink!NotifyAgent(s, status), source, sink)
      BY <3>2, QuietlyFaithful
    <3> QED
      BY <3>2, <3>3, <3>4
  <2>5. CASE SinkProsumer
    <3>1. PICK media, what : LET s == [sink EXCEPT !.media = media]
                             IN  Behind(Sink!CheckInterrupt(s)) \/ Behind(Sink!NotifyAgent(s, what))
      BY <2>5 DEF SinkProsumer, Sink!ProsumerCreated, Sink!ProsumerReports, Sink!Become
    <3> DEFINE s == [sink EXCEPT !.media = media]
    <3>2. Faithful(s, source, sink)
      BY <1>1 DEF Faithful, SinkRec, SinkFields
    <3>3. Behind(Sink!CheckInterrupt(s)) \/ Behind(Sink!NotifyAgent(s, what))
      BY <3>1
    <3> HIDE DEF s
    <3>4. Faithful(Sink!NotifyAgent(s, what), source, sink) /\ Faithful(Sink!CheckInterrupt(s), source, sink)
      BY <3>2, QuietlyFaithful
    <3> QED
      BY ONLY <3>3, <3>4
  <2>6. CASE SinkInterrupt
    <3> DEFINE s == [sink EXCEPT !.status = "INTERRUPT"]
               t == Sink!CheckInterrupt(s)
               l == [t EXCEPT !.interrupting = TRUE]
    <3>1. Behind(l)
      BY <2>6 DEF SinkInterrupt, Sink!Interrupt, Sink!Become
    <3>2. Faithful(s, source, sink)
      BY <1>1 DEF Faithful, SinkRec, SinkFields
    <3> HIDE DEF s
    <3>3. Faithful(t, source, sink)
      BY <3>2, QuietlyFaithful
    <3> HIDE DEF t
    <3>4. Faithful(l, source, sink)
      BY <3>3 DEF Faithful, SinkRec, SinkFields
    <3> QED
      BY <3>1, <3>4
  <2> QED
    BY <2>1, <2>2, <2>3, <2>4, <2>5, <2>6
<1> QED
  BY <1>2, <1>3, SinkAgreesStill

\* The pool threads and the end of the session.
LEMMA SinkPoolAgrees ==
    ASSUME RtspInv, RtspInv', AgreedInv, SinkStops \/ SinkIdr \/ SinkSends
    PROVE  AgreedInv'
<1>1. Faithful(sink, source, sink)
  BY SinkIsFaithful
<1> DEFINE Behind(l) == sink' = [l EXCEPT !.out = <<>>] /\ toSource' = toSource \o l.out
<1>2. source' = source /\ toSink' = toSink /\ link' = link
  BY DEF SinkStops, Sink!StopBegin, Sink!TeardownBegin, SinkIdr, Sink!IdrBegin, SinkSends, Sink!M8Finish, Sink!IdrFinish
<1>3. ASSUME NEW f, Sink!Up => Faithful(f, source, sink)
      PROVE  Faithful(Sink!PoolSend(f), source, sink)
  <2>1. ASSUME NEW s, NEW x, Faithful(s, source, sink)
        PROVE  Faithful([s EXCEPT !.sending = x], source, sink)
    BY <2>1 DEF Faithful, SinkRec, SinkFields
  <2>2. Faithful(Sink!ClientClosed(sink), source, sink)
    BY <1>1, QuietlyFaithful
  <2> QED
    BY <1>1, <1>3, <2>1, <2>2 DEF Sink!PoolSend
<1>4. \E l : Behind(l) /\ Faithful(l, source, sink)
  <2>1. CASE Sink!StopBegin
    <3> DEFINE s == [sink EXCEPT !.status = "STOP"]
               t == [s EXCEPT !.cseq = @ + 1, !.sending = <<"STOP", s.cseq + 1>>]
               u == [s EXCEPT !.connected = FALSE]
    <3>1. Behind(t) \/ Behind(Sink!NotifyAgent(u, "STOPED"))
      BY <2>1 DEF Sink!StopBegin, Sink!Become
    <3>2. Faithful(s, source, sink)
      BY <1>1 DEF Faithful, SinkRec, SinkFields
    <3> HIDE DEF s
    <3>3. Faithful(t, source, sink) /\ Faithful(u, source, sink)
      BY <3>2 DEF Faithful, SinkRec, SinkFields
    <3> HIDE DEF t, u
    <3>4. Faithful(Sink!NotifyAgent(u, "STOPED"), source, sink)
      BY <3>3, QuietlyFaithful
    <3> QED
      BY <3>1, <3>3, <3>4
  <2>2. CASE Sink!TeardownBegin
    <3> DEFINE t == [sink EXCEPT !.cseq = @ + 1, !.sending = <<"TEARDOWN", sink.cseq + 1>>]
    <3>1. Behind(t)
      BY <2>2 DEF Sink!TeardownBegin, Sink!Become
    <3>2. Faithful(t, source, sink)
      BY <1>1 DEF Faithful, SinkRec, SinkFields
    <3> QED
      BY <3>1, <3>2
  <2>3. CASE Sink!IdrBegin
    <3> DEFINE t == [sink EXCEPT !.idrs = @ + 1, !.cseq = @ + 1, !.sending = <<"IDR", sink.cseq + 1>>]
    <3>1. Behind(t)
      BY <2>3 DEF Sink!IdrBegin, Sink!Become
    <3>2. Faithful(t, source, sink)
      BY <1>1 DEF Faithful, SinkRec, SinkFields
    <3> QED
      BY <3>1, <3>2
  <2>4. CASE Sink!M8Finish
    <3> DEFINE t == Sink!FinishM8(sink, sink.sending[2], Sink!Up)
               u == [t EXCEPT !.connected = FALSE]
               f == IF sink.sending[1] = "STOP" THEN Sink!NotifyAgent(u, "STOPED") ELSE Sink!CheckInterrupt(t)
    <3>1. Behind(Sink!PoolSend(f))
      BY <2>4 DEF Sink!M8Finish, Sink!Become
    <3>2. Faithful(t, source, sink)
      BY <1>1, FaithfulM8
    <3> HIDE DEF t
    <3>3. Faithful(u, source, sink)
      BY <3>2 DEF Faithful, SinkRec, SinkFields
    <3> HIDE DEF u
    <3>4. Faithful(f, source, sink)
      BY <3>2, <3>3, QuietlyFaithful
    <3> HIDE DEF f
    <3> QED
      BY <1>3, <3>1, <3>4
  <2>5. CASE Sink!IdrFinish
    <3> DEFINE q == Sink!IDRRequest(sink.sending[2], sink.session)
               s == Sink!SetHandler(sink, sink.cseq, "IDR")
               t == Sink!StartTimer(s, "IDR")
               u == Sink!Send(t, q, Sink!Up)
               f == Sink!CheckInterrupt(u)
    <3>1. Behind(Sink!PoolSend(f))
      BY <2>5 DEF Sink!IdrFinish, Sink!FinishIdr, Sink!Become
    <3>2. q.req
      BY SinkSays
    <3>3. Faithful(s, source, sink)
      BY <1>1, QuietlyFaithful
    <3> HIDE DEF s, q
    <3>4. Faithful(t, source, sink)
      BY <3>3, QuietlyFaithful
    <3> HIDE DEF t
    <3>5. Faithful(u, source, sink)
      <4>1. Utters(t, u, q)
        BY <3>4, SendUtters DEF Faithful
      <4>2. FitsSource(q, source, t.config.port)
        BY <3>2, Fits
      <4> QED
        BY <3>4, <4>1, <4>2, UttersFaithfully
    <3> HIDE DEF u
    <3>6. Faithful(f, source, sink)
      BY <3>5, QuietlyFaithful
    <3> HIDE DEF f
    <3> QED
      BY <1>3, <3>1, <3>6
  <2> QED
    BY <2>1, <2>2, <2>3, <2>4, <2>5 DEF SinkStops, SinkIdr, SinkSends
<1> QED
  BY <1>2, <1>4, SinkAgreesStill

\* The agent lets go of the session: it was started before.
LEMMA SinkDestroysAgrees ==
    ASSUME RtspInv, RtspInv', AgreedInv, SinkDestroys
    PROVE  AgreedInv'
<1> DEFINE x == Sink!Disconnect(sink.socket)
           s == [sink EXCEPT !.status = "DESTROY", !.client = FALSE, !.socket = x,
                             !.connected = FALSE, !.timer = "null", !.keepAlive = "null"]
           l == Sink!NotifyAgent(s, "DESTROYED")
<1>1. /\ source' = source /\ toSink' = toSink /\ "STOPED" \in sink.told
      /\ link' = IF Sink!Up THEN "down" ELSE link
      /\ sink' = [l EXCEPT !.out = <<>>] /\ toSource' = toSource \o l.out
  BY DEF SinkDestroys, Sink!DestroySession, Sink!Become
<1> HIDE DEF x
<1>2. Faithful(s, source, sink) /\ s.starting = sink.starting
  BY SinkIsFaithful DEF Faithful, SinkRec, SinkFields
<1> HIDE DEF s
<1>3. Faithful(l, source, sink) /\ l.starting = sink.starting
  <2>1. Faithful(l, source, sink)
    BY <1>2, QuietlyFaithful
  <2>2. SinkRec(s)
    BY <1>2 DEF Faithful
  <2> QED
    BY <1>2, <2>1, <2>2 DEF Sink!NotifyAgent, SinkRec, SinkFields
<1> HIDE DEF l
<1>4. sink.starting # "never"
  BY <1>1 DEF RtspInv, SinkOK
<1>5. link' = link \/ (link' # "none" /\ l.starting # "never")
  BY <1>1, <1>3, <1>4
<1>6. \A i \in 1..Len(toSink') : FitsSink(toSink'[i], source)
  BY <1>1 DEF AgreedInv, Agreed
<1> QED
  BY <1>1, <1>3, <1>5, <1>6, SinkAgrees

\* Connecting, with the attempts that fail.
LEMMA SinkConnectsAgrees ==
    ASSUME RtspInv, RtspInv', AgreedInv, SinkArms \/ ConnectFails \/ SinkSelects
    PROVE  AgreedInv'
<1>1. Faithful(sink, source, sink)
  BY SinkIsFaithful
<1>2. ASSUME NEW s, Faithful(s, source, sink)
      PROVE  Faithful(Sink!AttemptFails(s), source, sink) /\ Sink!AttemptFails(s).starting # "never"
  <2> DEFINE t == [s EXCEPT !.tries = @ + 1, !.starting = "connecting"]
             over == [t EXCEPT !.starting = "no"]
             l == Sink!AttemptFails(s)
  <2>1. l \in {Sink!CheckInterrupt(over), Sink!NotifyServiceError(over), t}
    BY DEF Sink!AttemptFails
  <2>2. Faithful(t, source, sink) /\ t.starting = "connecting"
    BY <1>2 DEF Faithful, SinkRec, SinkFields
  <2>3. Faithful(over, source, sink)
    BY <1>2 DEF Faithful, SinkRec, SinkFields
  <2>4. l.starting # "never"
    BY <1>2, AttemptFailsEffect DEF Faithful
  <2> HIDE DEF t, over, l
  <2>5. Faithful(l, source, sink)
    BY <2>1, <2>2, <2>3, QuietlyFaithful
  <2> QED
    BY <2>4, <2>5 DEF l
<1>3. CASE SinkArms
  <2> DEFINE t == [sink EXCEPT !.starting = "no", !.timer = "M1", !.timeoutCall = "negotiate"]
             s == [t EXCEPT !.connected = ~(t.interrupting /\ t.status = "INTERRUPT")]
             l == Sink!CheckInterrupt(s)
  <2>1. /\ source' = source /\ toSink' = toSink /\ link' = link
        /\ sink' = [l EXCEPT !.out = <<>>] /\ toSource' = toSource \o l.out
    BY <1>3 DEF SinkArms, Sink!ArmSession, Sink!Become
  <2>2. Faithful(s, source, sink)
    BY <1>1 DEF Faithful, SinkRec, SinkFields
  <2> HIDE DEF s
  <2>3. Faithful(l, source, sink)
    BY <2>2, QuietlyFaithful
  <2> HIDE DEF l
  <2> QED
    BY <2>1, <2>3, SinkAgreesStill
<1>4. CASE ConnectFails
  <2> DEFINE l == Sink!AttemptFails(sink)
  <2>1. /\ source' = source /\ toSink' = toSink /\ link' = link
        /\ sink' = [l EXCEPT !.out = <<>>] /\ toSource' = toSource \o l.out
    BY <1>4 DEF ConnectFails, Sink!ConnectFails, Sink!Become
  <2>2. Faithful(l, source, sink)
    BY <1>1, <1>2
  <2> HIDE DEF l
  <2> QED
    BY <2>1, <2>2, SinkAgreesStill
<1>5. CASE SinkSelects
  <2>1. PICK rc : Sink!SelectReturns(rc)
    BY <1>5 DEF SinkSelects
  <2> DEFINE x == Sink!TcpClientConnect(rc)
             s == [sink EXCEPT !.socket = x]
             g == [s EXCEPT !.starting = "arming"]
             l == Sink!AttemptFails(s)
  <2>2. source' = source
    BY <1>5 DEF SinkSelects
  <2>3. \/ sink' = [g EXCEPT !.out = <<>>] /\ toSource' = toSource \o g.out /\ toSink' = toSink /\ link' = link
        \/ sink' = [l EXCEPT !.out = <<>>] /\ toSource' = toSource \o l.out /\ toSink' = <<>> /\ link' = "down"
    BY <2>1 DEF Sink!SelectReturns, Sink!Become
  <2> HIDE DEF x
  <2>4. Faithful(s, source, sink) /\ Faithful(g, source, sink)
    BY <1>1 DEF Faithful, SinkRec, SinkFields
  <2> HIDE DEF s
  <2>5. Faithful(l, source, sink) /\ l.starting # "never"
    BY <1>2, <2>4
  <2> HIDE DEF g, l
  <2>6. CASE sink' = [g EXCEPT !.out = <<>>] /\ toSource' = toSource \o g.out /\ toSink' = toSink /\ link' = link
    BY <2>2, <2>4, <2>6, SinkAgreesStill
  <2>7. CASE sink' = [l EXCEPT !.out = <<>>] /\ toSource' = toSource \o l.out /\ toSink' = <<>> /\ link' = "down"
    <3>1. \A i \in 1..Len(toSink') : FitsSink(toSink'[i], source)
      BY <2>7
    <3> QED
      BY <2>2, <2>5, <2>7, <3>1, SinkAgrees
  <2> QED
    BY <2>3, <2>6, <2>7
<1> QED
  BY <1>3, <1>4, <1>5

\* The configuration is made while the source waits for a connection.
LEMMA SinkStartAgrees ==
    ASSUME RtspInv, RtspInv', AgreedInv, SinkStarts
    PROVE  AgreedInv'
<1>1. PICK config :
         Sink!Become([sink EXCEPT !.status = "START", !.starting = "connecting", !.client = TRUE, !.config = config])
  BY DEF SinkStarts, Sink!StartSession
<1> DEFINE l == [sink EXCEPT !.status = "START", !.starting = "connecting", !.client = TRUE, !.config = config]
           k == [l EXCEPT !.out = <<>>]
<1>2. /\ source' = source /\ toSink' = toSink /\ link' = link /\ sink.starting = "never"
      /\ sink' = k /\ toSource' = toSource \o l.out
  BY <1>1 DEF SinkStarts, Sink!StartSession, Sink!Become
<1>3. source.wfd = "M0" /\ source.creates = 0
  <2>1. source.wfd = "M0"
    BY <1>2 DEF AgreedInv, Unconnected
  <2> QED
    BY <2>1 DEF RtspInv, Exchange, Progress, Early, NoM4
<1>4. /\ l.out = <<>> /\ k.last = sink.last /\ k.keepAlive = sink.keepAlive /\ k.told = sink.told
      /\ k.creates = sink.creates /\ k.track = sink.track /\ k.starting = "connecting"
  BY DEF RtspInv, Exchange, SinkRec, SinkFields
<1> HIDE DEF l, k
<1>5. Agreed(k, source, toSink', toSource')
  BY <1>2, <1>3, <1>4 DEF AgreedInv, Agreed, FitsSource
<1>6. Unconnected(k, source, link')
  BY <1>2, <1>3, <1>4 DEF Unconnected, AgreedInv
<1> QED
  BY <1>2, <1>5, <1>6 DEF AgreedInv

-----------------------------------------------------------------------------
(* The helpers of the source                                               *)

\* A source in the middle of a handler, with what it has sent so far; `was' is what it was before.  It awaits a
\* response to M3 with a new number, or still the one from before.
Candid(c, was, port) ==
    /\ SourceRec(c) /\ c.cseq \in Nat /\ was.cseq \in Nat /\ c.cseq >= was.cseq
    /\ c.wfd = "M3" => c.cseq > was.cseq \/ was.wfd = "M3"
    /\ c.wfd = "M4" \/ c.creates > 0 => SettledOn(c.choice, port)
    /\ \E S : c.out \in Seq(S)
    /\ \A i \in 1..Len(c.out) : /\ c.out[i].req => c.out[i].cseq \in 0..c.cseq
                                /\ FitsSink(c.out[i], c)

\* What a source says is numbered as the last request, or is a response.
Pronounces(c, d, m) == /\ m.req => m.cseq = d.cseq /\ d.cseq = c.cseq + 1
                       /\ m.req /\ d.wfd = "M3" => m.method = "GET_PARAMETER"
                       /\ IsM4(m) => Sets(m)

\* The session goes on to d: silently, or with a message.
LEMMA StaysCandid ==
    ASSUME NEW c, NEW was, NEW port, Candid(c, was, port),
           NEW d, SourceRec(d), d.choice = c.choice, d.creates = c.creates,
           d.cseq = c.cseq \/ d.cseq = c.cseq + 1,
           d.wfd = "M3" => c.wfd = "M3" \/ d.cseq = c.cseq + 1,
           d.wfd = "M4" => c.wfd = "M4" \/ SettledOn(c.choice, port),
           d.out = c.out \/ \E m : d.out = Append(c.out, m) /\ Pronounces(c, d, m)
    PROVE  Candid(d, was, port)
<1>1. PICK S : c.out \in Seq(S)
  BY DEF Candid
<1>2. /\ d.cseq \in Nat /\ d.cseq >= was.cseq
      /\ d.wfd = "M3" => d.cseq > was.cseq \/ was.wfd = "M3"
      /\ d.wfd = "M4" \/ d.creates > 0 => SettledOn(d.choice, port)
  BY DEF Candid
<1>3. \A i \in 1..Len(c.out) : /\ c.out[i].req => c.out[i].cseq \in 0..d.cseq
                               /\ FitsSink(c.out[i], d)
  <2> TAKE i \in 1..Len(c.out)
  <2>1. (c.out[i].req => c.out[i].cseq \in 0..c.cseq) /\ FitsSink(c.out[i], c) /\ c.cseq \in Nat
    BY DEF Candid
  <2>2. CASE d.cseq = c.cseq
    BY <2>1, <2>2 DEF FitsSink
  <2>3. CASE d.cseq = c.cseq + 1
    <3>1. c.out[i].req => c.out[i].cseq # d.cseq /\ c.out[i].cseq \in 0..d.cseq
      BY <2>1, <2>3
    <3> QED
      BY <2>1, <3>1 DEF FitsSink
  <2> QED
    BY <2>2, <2>3
<1>4. CASE d.out = c.out
  BY <1>1, <1>2, <1>3, <1>4 DEF Candid
<1>5. ASSUME NEW m, d.out = Append(c.out, m), Pronounces(c, d, m)
      PROVE  Candid(d, was, port)
  <2>1. c.out \in Seq(S \cup {m}) /\ m \in S \cup {m}
    BY <1>1
  <2>2. /\ d.out \in Seq(S \cup {m}) /\ Len(c.out) \in Nat /\ Len(d.out) = Len(c.out) + 1
        /\ \A i \in 1..Len(c.out) : d.out[i] = c.out[i]
        /\ d.out[Len(c.out) + 1] = m
    BY <1>5, <2>1
  <2>3. \A i \in 1..Len(d.out) : i \in 1..Len(c.out) \/ i = Len(c.out) + 1
    BY <2>2
  <2>4. (m.req => m.cseq \in 0..d.cseq) /\ FitsSink(m, d)
    BY <1>2, <1>5 DEF Pronounces, FitsSink
  <2>5. \A i \in 1..Len(d.out) : (d.out[i].req => d.out[i].cseq \in 0..d.cseq) /\ FitsSink(d.out[i], d)
    BY <1>3, <2>2, <2>3, <2>4
  <2>6. \E T : d.out \in Seq(T)
    BY <2>2
  <2> QED
    BY <1>2, <2>5, <2>6 DEF Candid
<1> QED
  BY <1>4, <1>5

\* The fields of the session that the exchange does not depend on, and states that await nothing of it.
LEMMA CalmlyCandid ==
    ASSUME NEW c, NEW was, NEW port, Candid(c, was, port),
           NEW d, SourceRec(d), d.choice = c.choice, d.creates = c.creates, d.cseq = c.cseq, d.out = c.out,
           d.wfd = c.wfd \/ d.wfd \notin {"M3", "M4"}
    PROVE  Candid(d, was, port)
BY StaysCandid

\* Notices, timers and responses.
LEMMA SourceHelpers ==
    ASSUME NEW c, NEW was, NEW port, Candid(c, was, port)
    PROVE  /\ \A what : Candid(Source!NotifyAgent(c, what), was, port)
           /\ Candid(Source!SetKeepAliveTimer(c), was, port) /\ Candid(Source!UnsetKeepAliveTimer(c), was, port)
           /\ \A x : Candid([c EXCEPT !.prosumer = x], was, port) /\ Candid([c EXCEPT !.last = x], was, port)
                     /\ Candid([c EXCEPT !.counts = x], was, port)
           /\ \A state : state \notin {"M3", "M4"} => Candid([c EXCEPT !.wfd = state], was, port)
           /\ \A m, up : ~m.req => Candid(Source!Send(c, m, up), was, port)
<1>1. SourceRec(c)
  BY DEF Candid
<1>2. ASSUME NEW what PROVE Candid(Source!NotifyAgent(c, what), was, port)
  <2> DEFINE d == Source!NotifyAgent(c, what)
  <2>1. SourceRec(d) /\ d.choice = c.choice /\ d.creates = c.creates /\ d.cseq = c.cseq /\ d.out = c.out /\ d.wfd = c.wfd
    BY <1>1 DEF Source!NotifyAgent, SourceRec, SourceFields
  <2> HIDE DEF d
  <2>2. Candid(d, was, port)
    BY <2>1, CalmlyCandid
  <2> QED
    BY <2>2 DEF d
<1>3. Candid(Source!SetKeepAliveTimer(c), was, port) /\ Candid(Source!UnsetKeepAliveTimer(c), was, port)
  <2> DEFINE d == Source!SetKeepAliveTimer(c)
             e == Source!UnsetKeepAliveTimer(c)
  <2>1. SourceRec(d) /\ d.choice = c.choice /\ d.creates = c.creates /\ d.cseq = c.cseq /\ d.out = c.out /\ d.wfd = c.wfd
    BY <1>1 DEF Source!SetKeepAliveTimer, SourceRec, SourceFields
  <2>2. SourceRec(e) /\ e.choice = c.choice /\ e.creates = c.creates /\ e.cseq = c.cseq /\ e.out = c.out /\ e.wfd = c.wfd
    BY <1>1 DEF Source!UnsetKeepAliveTimer, SourceRec, SourceFields
  <2> HIDE DEF d, e
  <2>3. Candid(d, was, port) /\ Candid(e, was, port)
    BY <2>1, <2>2, CalmlyCandid
  <2> QED
    BY <2>3 DEF d, e
<1>4. ASSUME NEW x
      PROVE  /\ Candid([c EXCEPT !.prosumer = x], was, port) /\ Candid([c EXCEPT !.last = x], was, port)
             /\ Candid([c EXCEPT !.counts = x], was, port)
  <2> DEFINE Calm(d) == /\ SourceRec(d) /\ d.choice = c.choice /\ d.creates = c.creates /\ d.cseq = c.cseq
                        /\ d.out = c.out /\ d.wfd = c.wfd
  <2>1. Calm([c EXCEPT !.prosumer = x]) /\ Calm([c EXCEPT !.last = x]) /\ Calm([c EXCEPT !.counts = x])
    BY <1>1 DEF SourceRec, SourceFields
  <2>2. \A d : Calm(d) => Candid(d, was, port)
    BY CalmlyCandid
  <2> HIDE DEF Calm
  <2> QED
    BY ONLY <2>1, <2>2
<1>5. ASSUME NEW state, state \notin {"M3", "M4"} PROVE Candid([c EXCEPT !.wfd = state], was, port)
  <2> DEFINE d == [c EXCEPT !.wfd = state]
  <2>1. SourceRec(d) /\ d.choice = c.choice /\ d.creates = c.creates /\ d.cseq = c.cseq /\ d.out = c.out /\ d.wfd = state
    BY <1>1 DEF SourceRec, SourceFields
  <2> HIDE DEF d
  <2>2. Candid(d, was, port)
    BY <1>5, <2>1, CalmlyCandid
  <2> QED
    BY <2>2 DEF d
<1>6. ASSUME NEW m, NEW up, ~m.req PROVE Candid(Source!Send(c, m, up), was, port)
  <2> DEFINE d == [c EXCEPT !.out = Append(@, m)]
  <2>1. /\ SourceRec(d) /\ d.choice = c.choice /\ d.creates = c.creates /\ d.cseq = c.cseq
        /\ d.out = Append(c.out, m) /\ d.wfd = c.wfd
    BY <1>1 DEF SourceRec, SourceFields
  <2>2. Pronounces(c, d, m)
    BY <1>6 DEF Pronounces, IsM4
  <2> HIDE DEF d
  <2>3. Candid(d, was, port)
    BY <2>1, <2>2, StaysCandid
  <2> QED
    BY <1>2, <2>3 DEF d, Source!Send, Source!NotifyServiceError
<1> QED
  BY <1>2, <1>3, <1>4, <1>5, <1>6

\* M1, M3, M4 and M5.
LEMMA RequestIsCandid ==
    ASSUME NEW c, NEW was, NEW port, Candid(c, was, port), NEW m, m.req, m.cseq = c.cseq + 1, IsM4(m) => Sets(m),
           NEW state, state = "M3" => m.method = "GET_PARAMETER", state = "M4" => SettledOn(c.choice, port), NEW up
    PROVE  Candid(Source!SendRequest(c, m, state, up), was, port)
<1> DEFINE r == [c EXCEPT !.cseq = m.cseq]
           t == [r EXCEPT !.out = Append(@, m)]
           u == [t EXCEPT !.wfd = state]
           e == Source!NotifyServiceError(r)
<1>1. Source!SendRequest(c, m, state, up) \in {c, u, e}
  BY DEF Source!SendRequest, Source!Send
<1>2. /\ SourceRec(r) /\ r.choice = c.choice /\ r.creates = c.creates /\ r.cseq = c.cseq + 1 /\ r.out = c.out
      /\ r.wfd = c.wfd
  BY DEF Candid, SourceRec, SourceFields
<1>3. /\ SourceRec(u) /\ u.choice = c.choice /\ u.creates = c.creates /\ u.cseq = c.cseq + 1
      /\ u.out = Append(c.out, m) /\ u.wfd = state
  BY DEF Candid, SourceRec, SourceFields
<1> HIDE DEF r, u
<1>4. Candid(r, was, port)
  BY <1>2, StaysCandid
<1>5. Candid(e, was, port)
  BY <1>4, SourceHelpers DEF Source!NotifyServiceError
<1>6. Candid(u, was, port)
  <2>1. Pronounces(c, u, m)
    BY <1>3 DEF Pronounces
  <2> QED
    BY <1>3, <2>1, StaysCandid
<1> QED
  BY <1>1, <1>5, <1>6

\* M16.
LEMMA KeepAliveIsCandid ==
    ASSUME NEW c, NEW was, NEW port, Candid(c, was, port), NEW up
    PROVE  Candid(Source!SendM16Request(c, up), was, port)
<1> DEFINE r == [c EXCEPT !.cseq = @ + 1, !.counts = @ - 1]
           m == Source!M16Request(r.cseq, Source!sessionID)
           t == [r EXCEPT !.out = Append(@, m)]
<1>1. Source!SendM16Request(c, up) \in {c, t, Source!NotifyServiceError(r), Source!NotifyServiceError(c)}
  BY DEF Source!SendM16Request, Source!Send
<1>2. /\ SourceRec(r) /\ r.choice = c.choice /\ r.creates = c.creates /\ r.cseq = c.cseq + 1 /\ r.out = c.out
      /\ r.wfd = c.wfd
  BY DEF Candid, SourceRec, SourceFields
<1>3. Says(m, TRUE, "GET_PARAMETER", "none", c.cseq + 1)
  <2>1. c.cseq + 1 \in Nat
    BY DEF Candid
  <2> QED
    BY <1>2, <2>1, SourceMessages
<1> HIDE DEF r, m
<1>4. /\ SourceRec(t) /\ t.choice = c.choice /\ t.creates = c.creates /\ t.cseq = c.cseq + 1
      /\ t.out = Append(c.out, m) /\ t.wfd = c.wfd
  BY <1>2 DEF SourceRec, SourceFields
<1> HIDE DEF t
<1>5. Candid(r, was, port)
  BY <1>2, StaysCandid
<1>6. Candid(t, was, port)
  <2>1. Pronounces(c, t, m)
    BY <1>3, <1>4 DEF Pronounces, Says, IsM4
  <2> QED
    BY <1>4, <2>1, StaysCandid
<1> QED
  BY <1>1, <1>5, <1>6, SourceHelpers DEF Source!NotifyServiceError

-----------------------------------------------------------------------------
(* The handlers of the source                                              *)

\* The responses of the source are not requests.
LEMMA SourceAnswersOnly ==
    ASSUME NEW n, NEW id
    PROVE  /\ ~Source!M2Response(n).req /\ ~Source!M6Response(n, id).req /\ ~Source!M7Response(n, id).req
           /\ ~Source!WithSession(Source!Response(n), id).req
BY DEF Source!M2Response, Source!M6Response, Source!M7Response, Source!WithSession, Source!Response, Source!NoMessage

\* SendCommonResponse.
LEMMA CommonIsCandid ==
    ASSUME NEW c, NEW was, NEW port, Candid(c, was, port), NEW n, NEW up
    PROVE  Candid(Source!SendCommonResponse(c, n, up), was, port)
<1> DEFINE m == Source!WithSession(Source!Response(n), Source!sessionID)
<1>1. ~m.req
  BY SourceAnswersOnly
<1>2. Source!SendCommonResponse(c, n, up) \in {c, Source!Send(c, m, up)}
  BY DEF Source!SendCommonResponse
<1> HIDE DEF m
<1>3. Candid(Source!Send(c, m, up), was, port)
  BY <1>1, SourceHelpers
<1> QED
  BY <1>2, <1>3

\* M1 to M5 carry a new number, and M4 what was settled.
LEMMA SourceSays ==
    ASSUME NEW c, c.cseq \in Nat
    PROVE  /\ LET m == Source!M1Request(c.cseq + 1) IN m.req /\ m.cseq = c.cseq + 1 /\ ~IsM4(m)
           /\ LET m == Source!M3Request(c.cseq + 1)
              IN  m.req /\ m.cseq = c.cseq + 1 /\ ~IsM4(m) /\ m.method = "GET_PARAMETER"
           /\ \A params : LET m == Source!M4Request(c.cseq + 1, params) IN m.req /\ m.cseq = c.cseq + 1
           /\ LET m == Source!M5Request(c.cseq + 1) IN m.req /\ m.cseq = c.cseq + 1 /\ ~IsM4(m)
<1> DEFINE n == c.cseq + 1
<1>1. n \in Nat
  OBVIOUS
<1> HIDE DEF n
<1>2. /\ Says(Source!M1Request(n), TRUE, "OPTIONS", "none", n)
      /\ Says(Source!M3Request(n), TRUE, "GET_PARAMETER", "query", n)
      /\ \A params : Says(Source!M4Request(n, params), TRUE, "SET_PARAMETER", "params", n)
      /\ Says(Source!M5Request(n), TRUE, "SET_PARAMETER", "setup", n)
  BY <1>1, SourceMessages
<1>3. LET m == Source!M1Request(n) IN m.req /\ m.cseq = n /\ ~IsM4(m)
  BY <1>2 DEF Says, IsM4
<1>4. LET m == Source!M3Request(n) IN m.req /\ m.cseq = n /\ ~IsM4(m) /\ m.method = "GET_PARAMETER"
  BY <1>2 DEF Says, IsM4
<1>5. \A params : LET m == Source!M4Request(n, params) IN m.req /\ m.cseq = n
  BY <1>2 DEF Says
<1>6. LET m == Source!M5Request(n) IN m.req /\ m.cseq = n /\ ~IsM4(m)
  BY <1>2 DEF Says, IsM4
<1> QED
  BY <1>3, <1>4, <1>5, <1>6 DEF n

\* M2 in answer to the sink, and M3 behind it.
LEMMA CandidM2 ==
    ASSUME NEW c, NEW was, NEW port, Candid(c, was, port), NEW m, NEW up
    PROVE  Candid(Source!HandleOptionRequest(c, m, up), was, port)
<1> DEFINE x == Source!M2Response(m.cseq)
           v == Source!Send(c, x, up)
           w == [v EXCEPT !.wfd = "M2"]
           t == Source!SendM2Response(c, m.cseq, up)
           q == Source!M3Request(t.cseq + 1)
           u == Source!SendRequest(t, q, "M3", up)
<1>1. Source!HandleOptionRequest(c, m, up) \in {t, u}
  BY DEF Source!HandleOptionRequest, Source!SendM3Request
<1>2. t \in {c, v, w}
  BY DEF Source!SendM2Response
<1>3. ~x.req
  BY SourceAnswersOnly
<1> HIDE DEF x, t
<1>4. Candid(v, was, port)
  BY <1>3, SourceHelpers
<1> HIDE DEF v
<1>5. Candid(w, was, port)
  BY <1>4, SourceHelpers
<1> HIDE DEF w
<1>6. Candid(t, was, port)
  BY <1>2, <1>4, <1>5
<1>7. q.req /\ q.cseq = t.cseq + 1 /\ ~IsM4(q) /\ q.method = "GET_PARAMETER"
  BY <1>6, SourceSays DEF Candid
<1> HIDE DEF q
<1>8. Candid(u, was, port)
  BY <1>6, <1>7, RequestIsCandid
<1> QED
  BY <1>1, <1>6, <1>8

\* SETUP and PLAY.
LEMMA CandidM6M7 ==
    ASSUME NEW c, NEW was, NEW port, Candid(c, was, port), NEW m, NEW up
    PROVE  /\ Candid(Source!HandleSetupRequest(c, m, up), was, port)
           /\ Candid(Source!HandlePlayRequest(c, m, up), was, port)
<1>1. ASSUME NEW s, Candid(s, was, port), NEW x, ~x.req, NEW state, state \notin {"M3", "M4"}
      PROVE  Candid([Source!Send(s, x, up) EXCEPT !.wfd = state], was, port)
  <2> DEFINE v == Source!Send(s, x, up)
  <2>1. Candid(v, was, port)
    BY <1>1, SourceHelpers
  <2> HIDE DEF v
  <2>2. Candid([v EXCEPT !.wfd = state], was, port)
    BY <1>1, <2>1, SourceHelpers
  <2> QED
    BY <2>2 DEF v
<1>2. Candid(Source!HandleSetupRequest(c, m, up), was, port)
  <2> DEFINE x == Source!M6Response(m.cseq, Source!sessionID)
  <2>1. Source!HandleSetupRequest(c, m, up) \in {c, [Source!Send(c, x, up) EXCEPT !.wfd = "M7_WAIT"]}
    BY DEF Source!HandleSetupRequest, Source!SendM6Response
  <2>2. ~x.req
    BY SourceAnswersOnly
  <2> HIDE DEF x
  <2>3. Candid([Source!Send(c, x, up) EXCEPT !.wfd = "M7_WAIT"], was, port)
    BY <1>1, <2>2
  <2> QED
    BY <2>1, <2>3
<1>3. Candid(Source!HandlePlayRequest(c, m, up), was, port)
  <2> DEFINE x == Source!M7Response(m.cseq, Source!sessionID)
             r == [c EXCEPT !.prosumer = "RESUME"]
             k == Source!SetKeepAliveTimer(c)
             s == [k EXCEPT !.prosumer = "START"]
             t == IF c.prosumer = "PAUSE" THEN r ELSE s
             p == Source!NotifyAgent(t, "PLAYED")
  <2>1. Source!HandlePlayRequest(c, m, up) \in {p, [Source!Send(p, x, up) EXCEPT !.wfd = "M7"]}
    BY DEF Source!HandlePlayRequest, Source!SendM7Response
  <2>2. ~x.req
    BY SourceAnswersOnly
  <2>3. Candid(r, was, port) /\ Candid(k, was, port)
    BY SourceHelpers
  <2> HIDE DEF x, r, k
  <2>4. Candid(s, was, port)
    BY <2>3, SourceHelpers
  <2> HIDE DEF s
  <2>5. Candid(t, was, port)
    BY <2>3, <2>4
  <2> HIDE DEF t
  <2>6. Candid(p, was, port)
    BY <2>5, SourceHelpers
  <2> HIDE DEF p
  <2>7. Candid([Source!Send(p, x, up) EXCEPT !.wfd = "M7"], was, port)
    BY <1>1, <2>2, <2>6
  <2> QED
    BY <2>1, <2>6, <2>7
<1> QED
  BY <1>2, <1>3

\* PAUSE, TEARDOWN and the request for an IDR frame.
LEMMA CandidRest ==
    ASSUME NEW c, NEW was, NEW port, Candid(c, was, port), NEW m, NEW up
    PROVE  /\ Candid(Source!HandlePauseRequest(c, m, up), was, port)
           /\ Candid(Source!HandleTeardownRequest(c, m, up), was, port)
           /\ Candid(Source!HandleIDRRequest(c, m, up), was, port)
<1>1. Candid(Source!HandlePauseRequest(c, m, up), was, port)
  <2> DEFINE s == [c EXCEPT !.prosumer = "START"]
             t == Source!NotifyAgent(s, "PAUSE")
  <2>1. Candid(s, was, port)
    BY SourceHelpers
  <2> HIDE DEF s
  <2>2. Candid(t, was, port)
    BY <2>1, SourceHelpers
  <2> HIDE DEF t
  <2>3. Candid(Source!SendCommonResponse(t, m.cseq, up), was, port)
    BY <2>2, CommonIsCandid
  <2> QED
    BY <2>3 DEF Source!HandlePauseRequest, s, t
<1>2. Candid(Source!HandleTeardownRequest(c, m, up), was, port)
  <2> DEFINE s == Source!NotifyAgent(c, "DESTROY")
             t == [s EXCEPT !.prosumer = "STOP"]
             u == Source!UnsetKeepAliveTimer(t)
  <2>1. Candid(s, was, port)
    BY SourceHelpers
  <2> HIDE DEF s
  <2>2. Candid(t, was, port)
    BY <2>1, SourceHelpers
  <2> HIDE DEF t
  <2>3. Candid(u, was, port)
    BY <2>2, SourceHelpers
  <2> HIDE DEF u
  <2>4. Candid(Source!SendCommonResponse(u, m.cseq, up), was, port)
    BY <2>3, CommonIsCandid
  <2> QED
    BY <2>4 DEF Source!HandleTeardownRequest, s, t, u
<1>3. Candid(Source!HandleIDRRequest(c, m, up), was, port)
  BY CommonIsCandid DEF Source!HandleIDRRequest
<1> QED
  BY <1>1, <1>2, <1>3

\* Whatever request it is.
LEMMA CandidRequest ==
    ASSUME NEW c, NEW was, NEW port, Candid(c, was, port), NEW m, NEW up
    PROVE  Candid(Source!HandleRequest(c, m, up), was, port)
<1> DEFINE s == [c EXCEPT !.last = Source!NoMessage]
           l == Source!HandleRequest(c, m, up)
<1>1. l \in {Source!HandleOptionRequest(s, m, up), Source!HandleSetupRequest(s, m, up), Source!HandlePlayRequest(s, m, up),
             Source!HandlePauseRequest(s, m, up), Source!HandleTeardownRequest(s, m, up),
             Source!HandleIDRRequest(s, m, up), s}
  BY DEF Source!HandleRequest
<1>2. Candid(s, was, port)
  BY SourceHelpers
<1> HIDE DEF s, l
<1>3. Candid(Source!HandleOptionRequest(s, m, up), was, port)
  BY <1>2, CandidM2
<1>4. Candid(Source!HandleSetupRequest(s, m, up), was, port) /\ Candid(Source!HandlePlayRequest(s, m, up), was, port)
  BY <1>2, CandidM6M7
<1>5. /\ Candid(Source!HandlePauseRequest(s, m, up), was, port)
      /\ Candid(Source!HandleTeardownRequest(s, m, up), was, port)
      /\ Candid(Source!HandleIDRRequest(s, m, up), was, port)
  BY <1>2, CandidRest
<1>6. Candid(l, was, port)
  BY <1>1, <1>2, <1>3, <1>4, <1>5
<1> QED
  BY <1>6 DEF l

\* The response to M3: what it offers is settled, and goes out with M4.
LEMMA CandidM3 ==
    ASSUME NEW c, NEW was, NEW port, Candid(c, was, port), c.creates = 0, NEW m,
           SettledOn(Source!Choose(m.params), port), NEW up
    PROVE  Candid(Source!HandleM3Response(c, m, up), was, port)
<1> DEFINE choice == Source!Choose(m.params)
           s == [c EXCEPT !.choice = choice]
           p == Source!M4Params(s.choice)
           q == Source!M4Request(s.cseq + 1, p)
<1>1. Source!HandleM3Response(c, m, up) = Source!SendRequest(s, q, "M4", up)
  BY DEF Source!HandleM3Response, Source!SendM4Request
<1> HIDE DEF choice
<1>2. /\ SourceRec(s) /\ s.choice = choice /\ s.creates = c.creates /\ s.cseq = c.cseq /\ s.out = c.out /\ s.wfd = c.wfd
  BY DEF Candid, SourceRec, SourceFields
<1>3. SettledOn(s.choice, port)
  BY <1>2 DEF choice
<1> HIDE DEF s
<1>4. Candid(s, was, port)
  BY <1>2, <1>3 DEF Candid, FitsSink
<1>5. q.req /\ q.cseq = s.cseq + 1 /\ Sets(q)
  <2>1. s.cseq \in Nat
    BY <1>4 DEF Candid
  <2>2. q.req /\ q.cseq = s.cseq + 1
    BY <2>1, SourceSays
  <2>3. Sets(q)
    BY <1>3, SettledIsSent
  <2> QED
    BY <2>2, <2>3
<1> HIDE DEF q, p
<1>6. Candid(Source!SendRequest(s, q, "M4", up), was, port)
  BY <1>3, <1>4, <1>5, RequestIsCandid
<1> QED
  BY <1>1, <1>6

\* The response to M4: the producer is asked for when the choice is settled.
LEMMA CandidM4 ==
    ASSUME NEW c, NEW was, NEW port, Candid(c, was, port), c.wfd = "M4", NEW up
    PROVE  Candid(Source!HandleM4Response(c, up), was, port)
<1> DEFINE q == Source!M5Request(c.cseq + 1)
           t == Source!SendRequest(c, q, "M5", up)
           u == [t EXCEPT !.creates = @ + 1]
<1>1. Source!HandleM4Response(c, up) \in {t, u}
  BY DEF Source!HandleM4Response, Source!SendM5Request
<1>2. q.req /\ q.cseq = c.cseq + 1 /\ ~IsM4(q)
  BY SourceSays DEF Candid
<1> HIDE DEF q
<1>3. Candid(t, was, port)
  BY <1>2, RequestIsCandid
<1>4. SettledOn(t.choice, port)
  <2>1. SettledOn(c.choice, port) /\ SourceRec(c)
    BY DEF Candid
  <2>2. t.choice = c.choice
    BY <2>1 DEF Source!SendRequest, Source!Send, Source!NotifyServiceError, Source!NotifyAgent, SourceRec, SourceFields
  <2> QED
    BY <2>1, <2>2
<1> HIDE DEF t
<1>5. Candid(u, was, port)
  <2>1. /\ SourceRec(u) /\ u.choice = t.choice /\ u.cseq = t.cseq /\ u.out = t.out /\ u.wfd = t.wfd
    BY <1>3 DEF Candid, SourceRec, SourceFields
  <2> HIDE DEF u
  <2> QED
    BY <1>3, <1>4, <2>1 DEF Candid, FitsSink
<1> QED
  BY <1>1, <1>3, <1>5

\* Whatever response it is.
LEMMA CandidResponse ==
    ASSUME NEW c, NEW was, NEW port, Candid(c, was, port), c.wfd = "M3" => c.creates = 0,
           NEW m, ~m.req, FitsSource(m, c, port), NEW up
    PROVE  Candid(Source!HandleResponse(c, m, up), was, port)
<1> DEFINE s == [c EXCEPT !.last = Source!NoMessage]
           r == [s EXCEPT !.counts = MaxCounts]
           t == IF s.wfd \in Source!Played THEN r ELSE s
           l == Source!HandleResponse(c, m, up)
<1>1. \/ l \in {s, t}
      \/ m.cseq = s.cseq /\ t.wfd = "M3" /\ l = Source!HandleM3Response(t, m, up)
      \/ t.wfd = "M4" /\ l = Source!HandleM4Response(t, up)
      \/ l = Source!HandleM7Response(t)
      \/ l = Source!HandleM8Response(t)
  BY DEF Source!HandleResponse
<1>2. Candid(s, was, port) /\ s.wfd = c.wfd /\ s.creates = c.creates /\ s.cseq = c.cseq
  <2>1. Candid(s, was, port)
    BY SourceHelpers
  <2> QED
    BY <2>1 DEF Candid, SourceRec, SourceFields
<1> HIDE DEF s, l
<1>3. Candid(r, was, port) /\ r.wfd = s.wfd /\ r.creates = s.creates /\ r.cseq = s.cseq
  <2>1. Candid(r, was, port)
    BY <1>2, SourceHelpers
  <2> QED
    BY <1>2, <2>1 DEF Candid, SourceRec, SourceFields
<1> HIDE DEF r
<1>4. Candid(t, was, port) /\ t.wfd = c.wfd /\ t.creates = c.creates
  BY <1>2, <1>3
<1> HIDE DEF t
<1>5. CASE m.cseq = s.cseq /\ t.wfd = "M3" /\ l = Source!HandleM3Response(t, m, up)
  <2>1. SettledOn(Source!Choose(m.params), port)
    BY <1>2, <1>4, <1>5 DEF FitsSource
  <2>2. Candid(Source!HandleM3Response(t, m, up), was, port)
    BY <1>4, <1>5, <2>1, CandidM3
  <2> QED
    BY <1>5, <2>2 DEF l
<1>6. CASE t.wfd = "M4" /\ l = Source!HandleM4Response(t, up)
  <2>1. Candid(Source!HandleM4Response(t, up), was, port)
    BY <1>4, <1>6, CandidM4
  <2> QED
    BY <1>6, <2>1 DEF l
<1>7. CASE l = Source!HandleM7Response(t)
  <2>1. Candid([t EXCEPT !.wfd = "M7"], was, port)
    BY <1>4, SourceHelpers
  <2> QED
    BY <1>7, <2>1 DEF l, Source!HandleM7Response
<1>8. CASE l = Source!HandleM8Response(t)
  <2>1. Candid(Source!NotifyAgent(t, "TEARDOWN"), was, port)
    BY <1>4, SourceHelpers
  <2> QED
    BY <1>8, <2>1 DEF l, Source!HandleM8Response
<1>9. CASE l \in {s, t}
  BY <1>2, <1>4, <1>9 DEF l
<1> QED
  BY <1>1, <1>5, <1>6, <1>7, <1>8, <1>9

\* One read of the source.
LEMMA CandidRead ==
    ASSUME NEW c, NEW was, NEW port, Candid(c, was, port), c.wfd = "M3" => c.creates = 0, IsMessage(c.last),
           NEW b, Queue(b), \A i \in 1..Len(b) : FitsSource(b[i], c, port),
           NEW n \in 1..Len(b), n = 1 \/ \A i \in 1..n : b[i].part = "whole", NEW up,
           NEW d, d = Source!ReadData(c, SubSeq(b, 1, n), up)
    PROVE  Candid(d, was, port)
<1> DEFINE chunk == SubSeq(b, 1, n)
           first == Source!ReadFirst(chunk, c.last)
           second == Source!ReadSecond(chunk)
           kept == Source!ReadKeeps(chunk)
           t == Source!HandleResponse(c, first, up)
<1>1. Parsed(b, n, c.last, first, second, kept)
  <2>1. chunk = SubSeq(b, 1, n) /\ first = Source!ReadFirst(chunk, c.last) /\ second = Source!ReadSecond(chunk)
    OBVIOUS
  <2> HIDE DEF chunk, first, second
  <2> QED
    BY <2>1, SourceParses
<1>2. d = IF first = NoMessage THEN [c EXCEPT !.last = kept]
          ELSE IF first.req THEN Source!HandleRequest(c, first, up)
          ELSE IF second = NoMessage THEN t ELSE Source!HandleRequest(t, second, up)
  BY NoMessageIs DEF Source!ReadData
<1> HIDE DEF chunk, first, second, kept
<1>3. CASE first = NoMessage
  <2>1. d = [c EXCEPT !.last = kept]
    BY <1>2, <1>3
  <2>2. Candid([c EXCEPT !.last = kept], was, port)
    BY SourceHelpers
  <2> QED
    BY <2>1, <2>2
<1>4. CASE first # NoMessage /\ first.req
  BY <1>2, <1>4, CandidRequest
<1>5. CASE first # NoMessage /\ ~first.req
  <2>1. FitsSource(first, c, port)
    <3>1. SameMessage(first, b[1])
      BY <1>1, <1>5 DEF Parsed, SameMessage
    <3>2. 1 \in 1..Len(b)
      BY QueueLength
    <3>3. FitsSource(b[1], c, port)
      BY <3>2
    <3> QED
      BY <3>1, <3>3 DEF FitsSource, SameMessage
  <2>2. Candid(t, was, port)
    BY <1>5, <2>1, CandidResponse
  <2>3. d = IF second = NoMessage THEN t ELSE Source!HandleRequest(t, second, up)
    BY <1>2, <1>5
  <2> HIDE DEF t
  <2> QED
    BY <2>2, <2>3, CandidRequest
<1> QED
  BY <1>3, <1>4, <1>5

-----------------------------------------------------------------------------
(* The steps of the source, and of the network                             *)

\* Between two handlers the source is candid.
LEMMA SourceIsCandid ==
    ASSUME RtspInv, AgreedInv
    PROVE  /\ Candid(source, source, sink.config.port) /\ SourceRec(source) /\ IsMessage(source.last)
           /\ source.wfd = "M3" => source.creates = 0
<1>1. SourceRec(source) /\ source.out = <<>> /\ source.cseq \in Nat /\ IsMessage(source.last)
  BY DEF RtspInv, Exchange, Numbers
<1>2. <<>> \in Seq({}) /\ 1..Len(<<>>) = {}
  OBVIOUS
<1>3. (\E S : source.out \in Seq(S)) /\ \A i \in 1..Len(source.out) : FALSE
  BY <1>1, <1>2
<1>4. source.wfd = "M4" \/ source.creates > 0 => SettledOn(source.choice, sink.config.port)
  BY DEF AgreedInv, Agreed
<1>5. source.wfd = "M3" => source.creates = 0
  BY DEF RtspInv, Exchange, Progress, Early, NoM4
<1> QED
  BY <1>1, <1>3, <1>4, <1>5 DEF Candid

\* Behind a handler that leaves the source candid the two still agree: no message from before carries a new number.
LEMMA SourceAgrees ==
    ASSUME RtspInv, AgreedInv, sink' = sink, NEW d, Candid(d, source, sink.config.port),
           source' = [d EXCEPT !.out = <<>>], toSink' = toSink \o d.out,
           \A i \in 1..Len(toSource') : \E j \in 1..Len(toSource) : toSource'[i] = toSource[j],
           Unconnected(sink, d, link')
    PROVE  AgreedInv'
<1> DEFINE c == [d EXCEPT !.out = <<>>]
           port == sink.config.port
<1>1. /\ c.wfd = d.wfd /\ c.cseq = d.cseq /\ c.choice = d.choice /\ c.creates = d.creates /\ c.peer = d.peer
      /\ d.cseq \in Nat
  BY DEF Candid, SourceRec, SourceFields
<1>2. source' = c
  OBVIOUS
<1> HIDE DEF c
<1>3. /\ source.cseq \in Nat /\ d.cseq >= source.cseq
      /\ d.wfd = "M3" => d.cseq > source.cseq \/ source.wfd = "M3"
  BY DEF Candid
<1>4. ASSUME NEW m, m.cseq \in Nat, m.req => m.cseq <= source.cseq, FitsSink(m, source)
      PROVE  FitsSink(m, c)
  <2>1. m.req /\ c.wfd = "M3" /\ m.cseq = c.cseq => source.wfd = "M3" /\ m.cseq = source.cseq
    BY <1>1, <1>3, <1>4
  <2> QED
    BY <1>4, <2>1 DEF FitsSink
<1>5. ASSUME NEW m, m.cseq \in Nat, ~m.req => m.cseq <= source.cseq, FitsSource(m, source, port)
      PROVE  FitsSource(m, c, port)
  <2>1. ~m.req /\ c.wfd = "M3" /\ m.cseq = c.cseq => source.wfd = "M3" /\ m.cseq = source.cseq
    BY <1>1, <1>3, <1>5
  <2> QED
    BY <1>5, <2>1 DEF FitsSource
<1>6. ASSUME NEW i \in 1..Len(toSink) PROVE FitsSink(toSink[i], c)
  <2>1. /\ IsMessage(toSink[i]) /\ FitsSink(toSink[i], source)
        /\ toSink[i].cseq <= IF toSink[i].req THEN source.cseq ELSE sink.cseq
    BY DEF RtspInv, Exchange, Queue, Numbers, AgreedInv, Agreed
  <2> QED
    BY <1>4, <2>1 DEF IsMessage
<1>7. \A i \in 1..Len(toSink') : FitsSink(toSink'[i], c)
  <2>1. PICK S : toSink \in Seq(S)
    BY DEF RtspInv, Exchange, Queue
  <2>2. PICK T : d.out \in Seq(T)
    BY DEF Candid
  <2>3. toSink \in Seq(S \cup T) /\ d.out \in Seq(S \cup T)
    BY <2>1, <2>2
  <2>4. ASSUME NEW i \in 1..Len(toSink') PROVE FitsSink(toSink'[i], c)
    <3>1. /\ Len(toSink) \in Nat /\ Len(d.out) \in Nat /\ Len(toSink') = Len(toSink) + Len(d.out)
          /\ i \in 1..Len(toSink) => toSink'[i] = toSink[i]
          /\ i - Len(toSink) \in 1..Len(d.out) => toSink'[i] = d.out[i - Len(toSink)]
      BY <2>3
    <3>2. CASE i \in 1..Len(toSink)
      BY <1>6, <3>1, <3>2
    <3>3. CASE i - Len(toSink) \in 1..Len(d.out)
      BY <1>1, <3>1, <3>3 DEF Candid, FitsSink
    <3> QED
      BY <3>1, <3>2, <3>3
  <2> QED
    BY <2>4
<1>8. FitsSink(sink.last, c)
  <2>1. /\ IsMessage(sink.last) /\ FitsSink(sink.last, source)
        /\ sink.last.req => sink.last.cseq <= source.cseq
    BY DEF RtspInv, Exchange, Numbers, AgreedInv, Agreed
  <2> QED
    BY <1>4, <2>1 DEF IsMessage
<1>9. \A j \in 1..Len(toSource) : FitsSource(toSource[j], c, port)
  <2> TAKE j \in 1..Len(toSource)
  <2>1. /\ IsMessage(toSource[j]) /\ FitsSource(toSource[j], source, port)
        /\ toSource[j].cseq <= IF toSource[j].req THEN sink.cseq ELSE source.cseq
    BY DEF RtspInv, Exchange, Queue, Numbers, AgreedInv, Agreed
  <2> QED
    BY <1>5, <2>1 DEF IsMessage
<1>10. \A i \in 1..Len(toSource') : FitsSource(toSource'[i], c, port)
  BY <1>9
<1>11. c.wfd = "M4" \/ c.creates > 0 => SettledOn(c.choice, port)
  BY <1>1 DEF Candid
<1>12. Agreed(sink, c, toSink', toSource')
  BY <1>7, <1>8, <1>10, <1>11 DEF Agreed, AgreedInv
<1>13. Unconnected(sink, c, link')
  BY <1>1 DEF Unconnected
<1> QED
  BY <1>2, <1>12, <1>13 DEF AgreedInv

\* A step of the source that takes nothing from its queue and leaves the connection alone.
LEMMA SourceAgreesStill ==
    ASSUME RtspInv, AgreedInv, sink' = sink, toSource' = toSource, link' = link,
           NEW d, Candid(d, source, sink.config.port), d.wfd = source.wfd \/ link # "none",
           d.peer.heard => source.peer.heard \/ link # "none",
           source' = [d EXCEPT !.out = <<>>], toSink' = toSink \o d.out
    PROVE  AgreedInv'
<1>1. Unconnected(sink, d, link')
  BY DEF AgreedInv, Unconnected
<1> QED
  BY <1>1, SourceAgrees

\* OnServerReadData.
LEMMA SourceReadAgrees ==
    ASSUME RtspInv, AgreedInv, SourceReads
    PROVE  AgreedInv'
<1>1. PICK n \in 1..MaxChunk : Source!OnServerReadData(n)
  BY DEF SourceReads
<1> DEFINE up == Source!Up
           r == SubSeq(toSource, n + 1, Len(toSource))
           d == Source!ReadData(source, SubSeq(toSource, 1, n), up)
           port == sink.config.port
<1>2. Queue(toSource) /\ Len(toSource) \in Nat
  <2>1. Queue(toSource)
    BY DEF RtspInv, Exchange
  <2> QED
    BY <2>1, QueueLength
<1>3. /\ n \in 1..Len(toSource) /\ (n = 1 \/ \A i \in 1..n : toSource[i].part = "whole")
      /\ source' = [d EXCEPT !.out = <<>>] /\ toSink' = toSink \o d.out
      /\ toSource' = r /\ link' = link /\ sink' = sink /\ source.peer.heard
  <2>1. n \in 1..Len(toSource)
    BY <1>1, <1>2, RtspAssumption DEF Source!OnServerReadData, Source!Splittable
  <2> QED
    BY <1>1, <2>1 DEF Source!OnServerReadData, Source!Splittable, Source!Become, SourceReads
<1>4. d = Source!ReadData(source, SubSeq(toSource, 1, n), up) /\ r = SubSeq(toSource, n + 1, Len(toSource))
  OBVIOUS
<1> HIDE DEF r, d, up
<1>5. Candid(d, source, port)
  <2>1. /\ Candid(source, source, port) /\ IsMessage(source.last)
        /\ source.wfd = "M3" => source.creates = 0
    BY SourceIsCandid
  <2>2. \A i \in 1..Len(toSource) : FitsSource(toSource[i], source, port)
    BY DEF AgreedInv, Agreed
  <2> HIDE DEF port
  <2> QED
    BY <1>2, <1>3, <1>4, <2>1, <2>2, CandidRead
<1>6. \A i \in 1..Len(toSource') : \E j \in 1..Len(toSource) : toSource'[i] = toSource[j]
  <2>1. Suffix(toSource, r, n)
    BY <1>2, <1>3, <1>4, Taken
  <2>2. \A i \in 1..Len(r) : i + n \in 1..Len(toSource) /\ r[i] = toSource[i + n]
    BY <2>1 DEF Suffix
  <2> QED
    BY <1>3, <2>2
<1>7. Unconnected(sink, d, link')
  BY <1>3 DEF AgreedInv, Unconnected
<1> QED
  BY <1>3, <1>5, <1>6, <1>7, SourceAgrees

\* The calls of the agent, the server and the end of the connection: nothing is sent.
LEMMA SourceIdlesAgrees ==
    ASSUME RtspInv, AgreedInv, SourceStarts \/ SourceCloses \/ SourceProsumer \/ SourceStops
    PROVE  AgreedInv'
<1> DEFINE port == sink.config.port
           Behind(d) == source' = [d EXCEPT !.out = <<>>] /\ toSink' = toSink \o d.out
           Calm(d) == /\ SourceRec(d) /\ d.choice = source.choice /\ d.creates = source.creates
                      /\ d.cseq = source.cseq /\ d.out = source.out /\ d.wfd = source.wfd
                      /\ d.peer.heard => source.peer.heard
<1>1. Candid(source, source, port) /\ SourceRec(source)
  BY SourceIsCandid
<1>2. \A d : Calm(d) => Candid(d, source, port)
  BY <1>1, CalmlyCandid
<1>3. ASSUME NEW s, NEW what, Calm(s) PROVE Calm(Source!NotifyAgent(s, what))
  BY ONLY <1>3 DEF Source!NotifyAgent, SourceRec, SourceFields
<1>4. /\ sink' = sink /\ toSource' = toSource
      /\ link' = link \/ (link' = "down" /\ link \in {"up", "deaf"})
  BY DEF SourceStarts, Source!StartServer, SourceCloses, Source!OnSessionClose, SourceProsumer,
         Source!ProsumerCreated, Source!ProsumerReports, SourceStops, Source!StopSession
<1>5. \E d : Behind(d) /\ Calm(d)
  <2>1. CASE SourceStarts
    <3>1. PICK fail : LET s == [source EXCEPT !.socket = Source!TcpServerStart(fail)]
                      IN  \/ Behind([s EXCEPT !.server = "listening"])
                          \/ Behind(Source!NotifyAgent([s EXCEPT !.server = "failed"], "ERROR"))
      BY ONLY <2>1 DEF SourceStarts, Source!StartServer, Source!Become, Source!NotifyServiceError
    <3> DEFINE x == Source!TcpServerStart(fail)
               s == [source EXCEPT !.socket = x]
               l == [s EXCEPT !.server = "listening"]
               f == [s EXCEPT !.server = "failed"]
    <3>2. Behind(l) \/ Behind(Source!NotifyAgent(f, "ERROR"))
      BY <3>1
    <3> HIDE DEF x
    <3>3. Calm(l) /\ Calm(f)
      BY <1>1 DEF SourceRec, SourceFields
    <3> HIDE DEF l, f, s
    <3>4. Calm(Source!NotifyAgent(f, "ERROR"))
      BY <1>3, <3>3
    <3> QED
      BY <3>2, <3>3, <3>4
  <2>2. CASE SourceCloses
    <3> DEFINE s == [source EXCEPT !.closed = TRUE]
    <3>1. Behind(Source!NotifyAgent(s, "ERROR"))
      BY <2>2 DEF SourceCloses, Source!OnSessionClose, Source!Become, Source!NotifyServiceError
    <3>2. Calm(s)
      BY <1>1 DEF SourceRec, SourceFields
    <3> HIDE DEF s
    <3> QED
      BY <1>3, <3>1, <3>2
  <2>3. CASE SourceProsumer
    <3>1. PICK media, what : Behind(Source!NotifyAgent([source EXCEPT !.media = media], what))
      BY <2>3 DEF SourceProsumer, Source!ProsumerCreated, Source!ProsumerReports, Source!Become
    <3> DEFINE s == [source EXCEPT !.media = media]
    <3>2. Calm(s) /\ Behind(Source!NotifyAgent(s, what))
      BY <1>1, <3>1 DEF SourceRec, SourceFields
    <3> HIDE DEF s
    <3> QED
      BY <1>3, <3>2
  <2>4. CASE SourceStops
    <3> DEFINE x == Source!TcpServerStop(source.socket)
               y == Source!SessionShutdown(source.peer)
               s == [source EXCEPT !.server = "stopped", !.timers = 0, !.timerId = FALSE, !.socket = x, !.peer = y]
    <3>1. Behind(Source!NotifyAgent(s, "STOPED"))
      BY <2>4 DEF SourceStops, Source!StopSession, Source!Become
    <3>2. ~y.heard
      <4>1. y = Closed
        BY SocketCloses DEF RtspInv, SourceOK
      <4> QED
        BY <4>1 DEF Closed
    <3> HIDE DEF x, y
    <3>3. Calm(s)
      BY <1>1, <3>2 DEF SourceRec, SourceFields
    <3> HIDE DEF s
    <3> QED
      BY <1>3, <3>1, <3>3
  <2> QED
    BY <2>1, <2>2, <2>3, <2>4
<1>6. PICK d : Behind(d) /\ Calm(d)
  BY <1>5
<1>7. Candid(d, source, port)
  BY <1>2, <1>6
<1>8. Unconnected(sink, d, link')
  BY <1>4, <1>6 DEF AgreedInv, Unconnected
<1> QED
  BY <1>4, <1>6, <1>7, <1>8, SourceAgrees

\* M1 goes out, or the new session is shut down; there is a connection.
LEMMA SourceAcceptAgrees ==
    ASSUME RtspInv, AgreedInv, SourceAccepts
    PROVE  AgreedInv'
<1>1. PICK fail :
         LET s == [source EXCEPT !.accepted = TRUE, !.peer = Source!SessionStart(Source!AcceptSocket, fail)]
         IN  IF s.peer.heard
             THEN Source!Become(Source!SendM1Request(s, Source!Up)) /\ UNCHANGED link
             ELSE /\ Source!Become([s EXCEPT !.peer = Source!SessionShutdown(@), !.closed = TRUE])
                  /\ link' = "down"
  BY DEF SourceAccepts, Source!OnAccept
<1> DEFINE port == sink.config.port
           x == Source!SessionStart(Source!AcceptSocket, fail)
           s == [source EXCEPT !.accepted = TRUE, !.peer = x]
           q == Source!M1Request(s.cseq + 1)
           d == Source!SendRequest(s, q, "M1", Source!Up)
           y == Source!SessionShutdown(s.peer)
           e == [s EXCEPT !.peer = y, !.closed = TRUE]
<1>2. /\ sink' = sink /\ toSource' = toSource /\ link # "none"
      /\ \/ source' = [d EXCEPT !.out = <<>>] /\ toSink' = toSink \o d.out /\ link' = link
         \/ source' = [e EXCEPT !.out = <<>>] /\ toSink' = toSink \o e.out /\ link' = "down"
  BY <1>1 DEF SourceAccepts, Source!OnAccept, Source!Become, Source!SendM1Request
<1> HIDE DEF x, y
<1>3. Candid(source, source, port) /\ SourceRec(source)
  BY SourceIsCandid
<1>4. /\ SourceRec(s) /\ s.choice = source.choice /\ s.creates = source.creates
      /\ s.cseq = source.cseq /\ s.out = source.out /\ s.wfd = source.wfd
  BY <1>3 DEF SourceRec, SourceFields
<1>5. /\ SourceRec(e) /\ e.choice = source.choice /\ e.creates = source.creates
      /\ e.cseq = source.cseq /\ e.out = source.out /\ e.wfd = source.wfd
  BY <1>3 DEF SourceRec, SourceFields
<1> HIDE DEF e, s, port
<1>6. Candid(s, source, port) /\ Candid(e, source, port)
  BY <1>3, <1>4, <1>5, CalmlyCandid
<1>7. q.req /\ q.cseq = s.cseq + 1 /\ ~IsM4(q)
  BY <1>6, SourceSays DEF Candid
<1> HIDE DEF q
<1>8. Candid(d, source, port)
  BY <1>6, <1>7, RequestIsCandid
<1> HIDE DEF d
<1>9. \A c : Unconnected(sink, c, link')
  BY <1>2 DEF AgreedInv, Unconnected
<1> QED
  BY <1>2, <1>6, <1>8, <1>9, SourceAgrees DEF port

\* M16, when the keep-alive timer fires: the timer exists, so there is a connection.
LEMMA SourceKeepAliveAgrees ==
    ASSUME RtspInv, AgreedInv, SourceKeepAlive
    PROVE  AgreedInv'
<1> DEFINE port == sink.config.port
           s == [source EXCEPT !.fired = @ + 1]
           d == Source!SendM16Request(s, Source!Up)
<1>1. /\ sink' = sink /\ toSource' = toSource /\ link' = link /\ source.timers > 0
      /\ source' = [d EXCEPT !.out = <<>>] /\ toSink' = toSink \o d.out
  BY DEF SourceKeepAlive, Source!OnSendKeepAlive, Source!Become
<1>2. Candid(source, source, port) /\ SourceRec(source)
  BY SourceIsCandid
<1>3. /\ SourceRec(s) /\ s.choice = source.choice /\ s.creates = source.creates
      /\ s.cseq = source.cseq /\ s.out = source.out /\ s.wfd = source.wfd
  BY <1>2 DEF SourceRec, SourceFields
<1> HIDE DEF s, port
<1>4. Candid(s, source, port)
  BY <1>2, <1>3, CalmlyCandid
<1>5. Candid(d, source, port)
  BY <1>4, KeepAliveIsCandid
<1> HIDE DEF d
<1>6. link # "none"
  <2>1. source.wfd # "M0"
    BY <1>1 DEF RtspInv, SourceOK, Exchange, OneToken
  <2> QED
    BY <2>1 DEF AgreedInv, Unconnected
<1> QED
  BY <1>1, <1>5, <1>6, SourceAgreesStill DEF port

\* A connection is made, or lost with what was on its way.
LEMMA LinkAgrees ==
    ASSUME RtspInv, AgreedInv, Connect \/ LoseLink
    PROVE  AgreedInv'
<1>1. CASE Connect
  <2> DEFINE k == [sink EXCEPT !.starting = "selecting"]
             c == [source EXCEPT !.accepted = FALSE, !.closed = FALSE]
  <2>1. /\ sink' = k /\ (source' = source \/ source' = c)
        /\ link' \in {"up", "deaf"} /\ toSink' = toSink /\ toSource' = toSource
    BY <1>1 DEF Connect
  <2>2. SinkRec(sink) /\ SourceRec(source)
    BY DEF RtspInv, Exchange
  <2>3. /\ k.last = sink.last /\ k.keepAlive = sink.keepAlive /\ k.told = sink.told /\ k.creates = sink.creates
        /\ k.track = sink.track /\ k.config = sink.config /\ k.starting = "selecting"
    BY <2>2 DEF SinkRec, SinkFields
  <2>4. c.wfd = source.wfd /\ c.cseq = source.cseq /\ c.choice = source.choice /\ c.creates = source.creates
    BY <2>2 DEF SourceRec, SourceFields
  <2> HIDE DEF k, c
  <2>5. Agreed(k, source, toSink', toSource')
    BY <2>1, <2>3 DEF AgreedInv, Agreed
  <2>6. Agreed(k, c, toSink', toSource')
    BY <2>4, <2>5 DEF Agreed, FitsSink, FitsSource
  <2>7. \A d : Unconnected(k, d, link')
    BY <2>1, <2>3 DEF Unconnected
  <2>8. Agreed(sink', source', toSink', toSource') /\ Unconnected(sink', source', link')
    BY <2>1, <2>5, <2>6, <2>7
  <2> QED
    BY <2>8 DEF AgreedInv
<1>2. CASE LoseLink
  <2>1. /\ sink' = sink /\ source' = source /\ link' = "down" /\ link \in {"up", "deaf"}
        /\ toSink' = <<>> /\ toSource' = <<>>
    BY <1>2 DEF LoseLink
  <2>2. 1..Len(<<>>) = {}
    OBVIOUS
  <2>3. Agreed(sink, source, <<>>, <<>>)
    BY <2>2 DEF AgreedInv, Agreed
  <2>4. Unconnected(sink, source, "down")
    BY <2>1 DEF AgreedInv, Unconnected
  <2> QED
    BY <2>1, <2>3, <2>4 DEF AgreedInv
<1> QED
  BY <1>1, <1>2

\* The parts of a message say what it says.
LEMMA CutAgrees ==
    ASSUME RtspInv, AgreedInv, CutToSink \/ CutToSource
    PROVE  AgreedInv'
<1>1. Queue(toSink) /\ Queue(toSource)
  BY DEF RtspInv, Exchange
<1>2. sink' = sink /\ source' = source /\ link' = link
  BY DEF CutToSink, CutToSource
<1>3. \A i \in 1..Len(toSink') : FitsSink(toSink'[i], source)
  <2>1. \A i \in 1..Len(toSink) : FitsSink(toSink[i], source)
    BY DEF AgreedInv, Agreed
  <2>2. CASE CutToSink
    <3> DEFINE r == Fragment(toSink)
    <3>1. toSink' = r /\ Cut(toSink, r)
      BY <1>1, <2>2, FragmentCuts DEF CutToSink
    <3> HIDE DEF r
    <3>2. \A j \in 1..Len(r) : From(j) \in 1..Len(toSink) /\ Like(r[j], toSink[From(j)])
      BY <1>1, <3>1, CutEffect
    <3>3. \A m, n : Like(m, n) /\ FitsSink(n, source) => FitsSink(m, source)
      BY DEF Like, FitsSink, IsM4, Sets
    <3> QED
      BY <2>1, <3>1, <3>2, <3>3
  <2>3. CASE CutToSource
    BY <2>1, <2>3 DEF CutToSource
  <2> QED
    BY <2>2, <2>3
<1>4. \A i \in 1..Len(toSource') : FitsSource(toSource'[i], source, sink.config.port)
  <2>1. \A i \in 1..Len(toSource) : FitsSource(toSource[i], source, sink.config.port)
    BY DEF AgreedInv, Agreed
  <2>2. CASE CutToSource
    <3> DEFINE r == Fragment(toSource)
    <3>1. toSource' = r /\ Cut(toSource, r)
      BY <1>1, <2>2, FragmentCuts DEF CutToSource
    <3> HIDE DEF r
    <3>2. \A j \in 1..Len(r) : From(j) \in 1..Len(toSource) /\ Like(r[j], toSource[From(j)])
      BY <1>1, <3>1, CutEffect
    <3>3. \A m, n : Like(m, n) /\ FitsSource(n, source, sink.config.port) => FitsSource(m, source, sink.config.port)
      BY DEF Like, FitsSource
    <3> QED
      BY <2>1, <3>1, <3>2, <3>3
  <2>3. CASE CutToSink
    BY <2>1, <2>3 DEF CutToSink
  <2> QED
    BY <2>2, <2>3
<1>5. Agreed(sink, source, toSink', toSource')
  BY <1>3, <1>4 DEF AgreedInv, Agreed
<1> QED
  BY <1>2, <1>5 DEF AgreedInv

-----------------------------------------------------------------------------
(* Both sides mean the same stream                                         *)

\* The sink was asked for its consumer before the source was asked for its producer.
ConsumerFirst == source.creates > 0 => sink.creates = 1
PlayInv == RtspInv /\ AgreedInv /\ ConsumerFirst

\* Nothing is agreed upon yet.
LEMMA InitAgrees ==
    ASSUME Init
    PROVE  AgreedInv /\ ConsumerFirst
<1>1. /\ toSink = <<>> /\ toSource = <<>> /\ link = "none"
      /\ sink.last = NoMessage /\ sink.keepAlive = "null" /\ sink.creates = 0
      /\ source.creates = 0 /\ source.wfd = "M0" /\ ~source.peer.heard
  BY DEF Init, Sink!InitSink, Source!InitSource, Sink!NoMessage, NoMessage, Source!Closed
<1>2. 1..Len(<<>>) = {}
  OBVIOUS
<1>3. FitsSink(NoMessage, source)
  BY DEF FitsSink, IsM4, NoMessage
<1> QED
  BY <1>1, <1>2, <1>3 DEF AgreedInv, Agreed, Unconnected, ConsumerFirst

\* Every step keeps the agreement.
LEMMA StepAgrees ==
    ASSUME RtspInv, AgreedInv, [Next]_vars
    PROVE  AgreedInv'
<1>1. RtspInv'
  BY RtspStep
<1>2. CASE SinkReads
  BY <1>1, <1>2, SinkReadAgrees
<1>3. CASE SinkCloses \/ SinkExpires \/ SinkKeepAlive \/ SinkPauses \/ SinkProsumer \/ SinkInterrupt
  BY <1>1, <1>3, SinkIdlesAgrees
<1>4. CASE SinkStops \/ SinkIdr \/ SinkSends
  BY <1>1, <1>4, SinkPoolAgrees
<1>5. CASE SinkDestroys
  BY <1>1, <1>5, SinkDestroysAgrees
<1>6. CASE SinkArms \/ ConnectFails \/ SinkSelects
  BY <1>1, <1>6, SinkConnectsAgrees
<1>7. CASE SinkStarts
  BY <1>1, <1>7, SinkStartAgrees
<1>8. CASE SourceReads
  BY <1>8, SourceReadAgrees
<1>9. CASE SourceStarts \/ SourceCloses \/ SourceProsumer \/ SourceStops
  BY <1>9, SourceIdlesAgrees
<1>10. CASE SourceAccepts
  BY <1>10, SourceAcceptAgrees
<1>11. CASE SourceKeepAlive
  BY <1>11, SourceKeepAliveAgrees
<1>12. CASE Connect \/ LoseLink
  BY <1>12, LinkAgrees
<1>13. CASE CutToSink \/ CutToSource
  BY <1>13, CutAgrees
<1>14. CASE UNCHANGED vars
  BY <1>14 DEF vars, AgreedInv
<1> QED
  BY <1>2, <1>3, <1>4, <1>5, <1>6, <1>7, <1>8, <1>9, <1>10, <1>11, <1>12, <1>13, <1>14 DEF Next, Threads

\* CastSession lets the producer be asked for only when the consumer was.
LEMMA StepConsumerFirst ==
    ASSUME RtspInv, ConsumerFirst, [Next]_vars
    PROVE  ConsumerFirst'
<1>1. [Cast!Next]_(Cast!vars)
  BY RtspStep
<1>2. source.creates \in {0, 1} /\ sink.creates \in {0, 1}
  BY DEF RtspInv, Exchange, Progress
<1>3. CASE Cast!CreateConsumer
  BY <1>2, <1>3 DEF Cast!CreateConsumer, ConsumerFirst
<1>4. CASE Cast!CreateProducer
  BY <1>4 DEF Cast!CreateProducer, ConsumerFirst
<1>5. CASE Cast!SourcePlays \/ Cast!SinkPlays \/ Cast!Stop \/ UNCHANGED Cast!vars
  <2>1. source'.creates = source.creates /\ sink'.creates = sink.creates
    BY <1>5 DEF Cast!SourcePlays, Cast!SinkPlays, Cast!Stop, Cast!vars
  <2> QED
    BY <2>1 DEF ConsumerFirst
<1> QED
  BY <1>1, <1>3, <1>4, <1>5 DEF Cast!Next

\* What is agreed upon is what the source chose, and what the sink offered if it was left to it.
LEMMA AgreementPlays ==
    ASSUME AgreedInv, ConsumerFirst
    PROVE  PlaysAsAgreed
<1> SUFFICES ASSUME source.creates > 0 PROVE PlaysAsAgreed
  BY DEF PlaysAsAgreed
<1>1. sink.track = AgreedTrack /\ SettledOn(source.choice, sink.config.port)
  BY DEF AgreedInv, Agreed, ConsumerFirst
<1>2. SizeOf["VIDEO_640X480_60"] = <<640, 480, 60>>
  BY DEF SizeOf
<1>3. sink.track = [video |-> SizeOf[source.choice.video], audio |-> <<48000, 2>>]
  BY <1>1, <1>2 DEF SettledOn, AgreedTrack
<1>4. 0 \in OfferVideo("VIDEO_NONE").cea
  <2>1. 0 \in GetSupportVideoResolution
    BY RtspAssumption DEF GetSupportVideoResolution, IsVideoResolutionSupport
  <2> QED
    BY <2>1 DEF OfferVideo
<1>5. CeaTable[0 + 1] = sink.track.video
  BY <1>1 DEF CeaTable, AgreedTrack
<1>6. \E i \in OfferVideo("VIDEO_NONE").cea : CeaTable[i + 1] = sink.track.video
  BY <1>4, <1>5
<1> QED
  BY <1>1, <1>3, <1>6 DEF PlaysAsAgreed, SettledOn

\* Once the source has its producer made, it sends what the sink is set to decode, to the port the sink listens on, and
\* a sink that leaves the format open has offered it: through the encoding of the offer and of the choice, and however
\* the messages that carry them are spliced, cut or answered out of turn.
THEOREM BothPlayAsAgreed == Spec => []PlaysAsAgreed
<1>1. Init => PlayInv
  BY InitInv, InitAgrees DEF PlayInv
<1>2. PlayInv /\ [Next]_vars => PlayInv'
  BY RtspStep, StepAgrees, StepConsumerFirst DEF PlayInv
<1>3. PlayInv => PlaysAsAgreed
  BY AgreementPlays DEF PlayInv
<1> QED
  BY <1>1, <1>2, <1>3, PTL DEF Spec
=============================================================================
