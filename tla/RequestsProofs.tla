--------------------------- MODULE RequestsProofs ---------------------------
(***************************************************************************)
(* The types of the requests, that they leave nothing behind, and that a   *)
(* page gets its response whole, for any requests, documents and length of *)
(* responses.                                                              *)
(***************************************************************************)
EXTENDS Requests, SequenceTheorems, TLAPS

-----------------------------------------------------------------------------
(* Types *)

States == {"none", "cookies", "sent", "loading", "aborted", "done", "orphan"}
Nets   == [state : States, got : 0 .. Units]

LEMMA AtIs ==
  ASSUME NEW state, NEW got
  PROVE  /\ At(state, got).state = state /\ At(state, got).got = got
         /\ state \in States /\ got \in 0 .. Units => At(state, got) \in Nets
BY DEF At, Nets

LEMMA ToldIs ==
  ASSUME NEW type \in Types, NEW data \in Seq(1 .. Units)
  PROVE  /\ Told(type, data) \in Messages /\ Told(type, data) # Nothing
         /\ Told(type, data).type = type /\ Told(type, data).data = data
         /\ Told(type, data).back = FALSE
<1>1. Told(type, data) \in Messages
  BY DEF Told, Messages
<1> QED
  BY <1>1, NothingAssumption DEF Told

LEMMA MessageIs ==
  ASSUME NEW r \in Reqs, NEW type \in Types, NEW data \in Seq(1 .. Units)
  PROVE  /\ Message(r, type, data) \in Messages \cup {Nothing}
         /\ r \in registered => Message(r, type, data) = Told(type, data)
         /\ r \notin registered => Message(r, type, data) = Nothing
BY ToldIs DEF Message

LEMMA EmptyIs == << >> \in Seq(1 .. Units) /\ << >> \in Seq(Types)
BY EmptySeq

LEMMA TypesIs ==
  /\ "progress" \in Types /\ "readystatechange" \in Types /\ "load" \in Types
  /\ "loadend" \in Types /\ "error" \in Types
BY DEF Types

LEMMA TypesSeqs ==
  /\ << "readystatechange" >> \in Seq(Types) /\ << "progress" >> \in Seq(Types)
  /\ << "loadend" >> \in Seq(Types) /\ << "load", "loadend" >> \in Seq(Types)
  /\ << "error", "loadend" >> \in Seq(Types)
BY DEF Types

LEMMA QueueIs ==
  ASSUME TypeOK, NEW r \in Reqs, NEW early \in Seq(Types), NEW types \in Seq(Types)
  PROVE  /\ Queue(r, early, types) \in Seq(Types)
         /\ types # << >> =>
              /\ Queue(r, early, types) # << >>
              /\ Queue(r, early, types)[Len(Queue(r, early, types))] = types[Len(types)]
         /\ events[r] = << >> /\ ~opts[r].early => Queue(r, early, types) = types
<1> DEFINE first == events[r] \o (IF opts[r].early THEN early ELSE << >>)
<1>1. events[r] \in Seq(Types)
  BY DEF TypeOK
<1>2. first \in Seq(Types)
  BY <1>1, EmptyIs, ConcatProperties
<1>3. Queue(r, early, types) = first \o types
  BY DEF Queue
<1>4. events[r] = << >> /\ ~opts[r].early => first \o types = types
  <2>1. events[r] = << >> /\ ~opts[r].early => first = << >> \o << >>
    OBVIOUS
  <2>2. << >> \o << >> = << >> /\ << >> \o types = types
    BY EmptyIs, ConcatEmptySeq
  <2> QED
    BY <2>1, <2>2
<1> HIDE DEF first
<1>5. /\ first \o types \in Seq(Types)
      /\ Len(first \o types) = Len(first) + Len(types)
      /\ \A i \in 1 .. Len(first) + Len(types) :
           (first \o types)[i] = IF i <= Len(first) THEN first[i] ELSE types[i - Len(first)]
  BY <1>2, ConcatProperties
<1>6. ASSUME types # << >>
      PROVE  first \o types # << >> /\ (first \o types)[Len(first \o types)] = types[Len(types)]
  <2>1. Len(types) \in Nat \ {0} /\ Len(first) \in Nat
    BY <1>2, <1>6, EmptySeq, LenProperties
  <2>2. Len(first \o types) # 0
    BY <1>5, <2>1
  <2>3. Len(first) + Len(types) \in 1 .. Len(first) + Len(types)
    BY <2>1
  <2>4. ~(Len(first) + Len(types) <= Len(first)) /\ Len(first) + Len(types) - Len(first) = Len(types)
    BY <2>1
  <2>5. (first \o types)[Len(first) + Len(types)] = types[Len(types)]
    BY <1>5, <2>3, <2>4
  <2> QED
    BY <1>5, <2>2, <2>5, EmptySeq
<1> QED
  BY <1>3, <1>4, <1>5, <1>6

LEMMA ResponseIs ==
  /\ Response \in Seq(1 .. Units) /\ Len(Response) = Units
  /\ \A i \in 1 .. Units : Response[i] = i
<1>1. Response \in [1 .. Units -> 1 .. Units]
  BY RequestsAssumption DEF Response
<1>2. Response \in Seq(1 .. Units)
  BY <1>1, RequestsAssumption, SeqDef
<1>3. DOMAIN Response = 1 .. Len(Response) /\ Len(Response) \in Nat
  BY <1>2, LenProperties
<1>4. Len(Response) = Units
  BY <1>1, <1>3, RequestsAssumption
<1> QED
  BY <1>2, <1>4 DEF Response

LEMMA PartIs ==
  ASSUME NEW m \in 1 .. Units + 1, NEW n \in 0 .. Units
  PROVE  SubSeq(Response, m, n) \in Seq(1 .. Units)
<1>1. \A i \in m .. n : Response[i] \in 1 .. Units
  BY ResponseIs, RequestsAssumption
<1> QED
  BY <1>1, RequestsAssumption, SubSeqProperties

LEMMA Const == ASSUME [Next]_vars PROVE engine' = engine /\ opts' = opts
BY DEF Next, vars, Navigate, PageInjected, Restart, Request, Abort, Start, StartFails,
       AbortArrives, Cookies, CookiesAnswered, CookiesFail, HeadersGo, Receive, Network, Complete,
       Fail, OffscreenFails, OrphanEnds, HandleEvent, HandleOffscreen, Deliver, DeliveryFails, Return

LEMMA InitType == Init => TypeOK
<1> SUFFICES ASSUME Init PROVE TypeOK
  OBVIOUS
<1>1. At("none", 0) \in Nets
  BY AtIs, RequestsAssumption DEF States
<1>2. net \in [Reqs -> Nets]
  BY <1>1 DEF Init
<1>3. stream \in [Reqs -> [full : 0 .. Units, from : 1 .. Units + 1, sent : BOOLEAN]]
  BY RequestsAssumption DEF Init, Unsent
<1>4. web \in [Reqs -> [open : BOOLEAN, raw : Seq(1 .. Units), told : SUBSET Types]]
  BY EmptyIs DEF Init
<1>5. events \in [Reqs -> Seq(Types)] /\ msg \in [Reqs -> Messages \cup {Nothing}]
  BY EmptyIs DEF Init
<1>6. page \in 1 .. MaxPages /\ known \in 1 .. MaxPages /\ asked \in [Reqs -> 0 .. MaxPages]
  BY RequestsAssumption DEF Init
<1> QED
  BY <1>2, <1>3, <1>4, <1>5, <1>6 DEF Init, TypeOK, Nets, States

LEMMA NetType ==
  ASSUME TypeOK, NEW r \in Reqs, NEW s \in States, NEW n \in 0 .. Units,
         net' = [net EXCEPT ![r] = At(s, n)]
  PROVE  net' \in [Reqs -> Nets]
<1> DEFINE x == At(s, n)
<1>1. x \in Nets
  BY AtIs
<1>2. net' = [net EXCEPT ![r] = x] /\ net \in [Reqs -> Nets]
  BY DEF TypeOK, Nets, States
<1> HIDE DEF x
<1> QED
  BY <1>1, <1>2

LEMMA MsgType ==
  ASSUME TypeOK, NEW r \in Reqs, NEW m \in Messages \cup {Nothing}, msg' = [msg EXCEPT ![r] = m]
  PROVE  msg' \in [Reqs -> Messages \cup {Nothing}]
BY DEF TypeOK

LEMMA PageType ==
  ASSUME TypeOK,
         \/ Navigate
         \/ \E r \in Reqs : Request(r) \/ Abort(r)
  PROVE  TypeOK'
<1>1. CASE Navigate
  <2>1. page' \in 1 .. MaxPages
    BY <1>1, RequestsAssumption DEF Navigate, TypeOK
  <2>2. web' \in [Reqs -> [open : BOOLEAN, raw : Seq(1 .. Units), told : SUBSET Types]]
    <3>1. \A r \in Reqs : [web[r] EXCEPT !.open = FALSE] \in
             [open : BOOLEAN, raw : Seq(1 .. Units), told : SUBSET Types]
      BY DEF TypeOK
    <3> QED
      BY <1>1, <3>1 DEF Navigate
  <2>3. calls' \subseteq Reqs /\ aborts' \subseteq Reqs
    BY <1>1 DEF Navigate, TypeOK
  <2> QED
    BY <1>1, <2>1, <2>2, <2>3 DEF Navigate, TypeOK, bgVars, netVars
<1>2. ASSUME NEW r \in Reqs, Request(r) PROVE TypeOK'
  <2>1. web' \in [Reqs -> [open : BOOLEAN, raw : Seq(1 .. Units), told : SUBSET Types]]
    <3>1. [web[r] EXCEPT !.open = TRUE] \in
             [open : BOOLEAN, raw : Seq(1 .. Units), told : SUBSET Types]
      BY DEF TypeOK
    <3> QED
      BY <1>2, <3>1 DEF Request, TypeOK
  <2>2. asked' \in [Reqs -> 0 .. MaxPages]
    BY <1>2, RequestsAssumption DEF Request, TypeOK
  <2>3. calls' \subseteq Reqs
    BY <1>2 DEF Request, TypeOK
  <2> QED
    BY <1>2, <2>1, <2>2, <2>3 DEF Request, TypeOK, bgVars, netVars
<1>3. ASSUME NEW r \in Reqs, Abort(r) PROVE TypeOK'
  BY <1>3 DEF Abort, TypeOK, bgVars, netVars
<1> QED
  BY <1>1, <1>2, <1>3

LEMMA AbortAllType ==
  ASSUME TypeOK, NEW rs \in SUBSET Reqs, AbortAll(rs)
  PROVE  /\ registered' \subseteq Reqs /\ injected' \subseteq Reqs /\ verified' \subseteq Reqs
         /\ net' \in [Reqs -> Nets] /\ events' \in [Reqs -> Seq(Types)]
<1>1. At("aborted", 0) \in Nets
  BY AtIs, RequestsAssumption DEF States
<1>2. net' \in [Reqs -> Nets]
  <2>1. net \in [Reqs -> Nets]
    BY DEF TypeOK, Nets, States
  <2> DEFINE x == At("aborted", 0)
             live == {r \in rs \cap registered :
                        engine = "xhr" /\ net[r].state \in {"sent", "loading"}}
  <2>2. net' = [r \in Reqs |-> IF r \in live THEN x ELSE net[r]]
    BY DEF AbortAll
  <2> HIDE DEF x, live
  <2>3. x \in Nets
    BY <1>1 DEF x
  <2> QED
    BY <2>1, <2>2, <2>3
<1>3. events' \in [Reqs -> Seq(Types)]
  <2>1. \A r \in Reqs : Queue(r, << "readystatechange" >>, << "loadend" >>) \in Seq(Types)
    BY QueueIs, TypesSeqs
  <2> DEFINE live == {r \in rs \cap registered :
                        engine = "xhr" /\ net[r].state \in {"sent", "loading"}}
  <2>2. events' = [r \in Reqs |-> IF r \in live
                     THEN Queue(r, << "readystatechange" >>, << "loadend" >>) ELSE events[r]]
    BY DEF AbortAll
  <2> HIDE DEF live
  <2> QED
    BY <2>1, <2>2 DEF TypeOK
<1> QED
  BY <1>2, <1>3 DEF AbortAll, Clear, TypeOK

LEMMA ClearType ==
  ASSUME TypeOK, NEW rs, Clear(rs)
  PROVE  registered' \subseteq Reqs /\ injected' \subseteq Reqs /\ verified' \subseteq Reqs
BY DEF Clear, TypeOK

LEMMA RequestType ==
  ASSUME TypeOK, NEW r \in Reqs,
         Start(r) \/ StartFails(r) \/ AbortArrives(r) \/ Cookies(r) \/ HeadersGo(r)
  PROVE  TypeOK'
<1>0. /\ "sent" \in States /\ "cookies" \in States /\ "none" \in States /\ 0 \in 0 .. Units
  BY RequestsAssumption DEF States
<1>1. CASE Start(r)
  <2> DEFINE s == IF engine = "xhr" /\ opts[r].cookies THEN "cookies" ELSE "sent"
  <2>1. net' = [net EXCEPT ![r] = At(s, 0)]
    BY <1>1 DEF Start
  <2>2. s \in States
    BY <1>0
  <2> HIDE DEF s
  <2>3. net' \in [Reqs -> Nets]
    BY <1>0, <2>1, <2>2, NetType
  <2>4. registered' \subseteq Reqs /\ injected' \subseteq Reqs /\ calls' \subseteq Reqs
    BY <1>1 DEF Start, TypeOK
  <2> QED
    BY <1>1, <2>3, <2>4 DEF Start, TypeOK, Nets, States
<1>2. CASE StartFails(r)
  <2>1. Told("error", << >>) \in Messages
    BY ToldIs, TypesIs, EmptyIs
  <2>2. msg' \in [Reqs -> Messages \cup {Nothing}]
    BY <1>2, <2>1, MsgType DEF StartFails
  <2> QED
    BY <1>2, <2>2 DEF StartFails, TypeOK
<1>3. CASE AbortArrives(r)
  <2>1. AbortAll({r})
    BY <1>3 DEF AbortArrives
  <2>2. /\ registered' \subseteq Reqs /\ injected' \subseteq Reqs /\ verified' \subseteq Reqs
        /\ net' \in [Reqs -> Nets] /\ events' \in [Reqs -> Seq(Types)]
    BY <2>1, AbortAllType
  <2> QED
    BY <1>3, <2>2 DEF AbortArrives, TypeOK, Nets, States
<1>4. CASE CookiesAnswered(r)
  <2>1. net' \in [Reqs -> Nets]
    BY <1>0, <1>4, NetType DEF CookiesAnswered
  <2> QED
    BY <1>4, <2>1 DEF CookiesAnswered, TypeOK, Nets, States, pageVars
<1>5. CASE CookiesFail(r)
  <2>1. net' \in [Reqs -> Nets]
    BY <1>0, <1>5, NetType DEF CookiesFail
  <2>2. msg' \in [Reqs -> Messages \cup {Nothing}]
    <3>1. Message(r, "error", << >>) \in Messages \cup {Nothing}
      BY MessageIs, TypesIs, EmptyIs
    <3> QED
      BY <1>5, <3>1, MsgType DEF CookiesFail
  <2> QED
    BY <1>5, <2>1, <2>2 DEF CookiesFail, TypeOK, Nets, States, pageVars
<1>6. CASE HeadersGo(r)
  BY <1>6 DEF HeadersGo, TypeOK, pageVars
<1> QED
  BY <1>1, <1>2, <1>3, <1>4, <1>5, <1>6 DEF Cookies

LEMMA EventsType ==
  ASSUME TypeOK, NEW r \in Reqs, NEW q \in Seq(Types), events' = [events EXCEPT ![r] = q]
  PROVE  events' \in [Reqs -> Seq(Types)]
BY DEF TypeOK

LEMMA NetworkType ==
  ASSUME TypeOK, NEW r \in Reqs, Receive(r) \/ Network(r) \/ OrphanEnds(r)
  PROVE  TypeOK'
<1>0. /\ "loading" \in States /\ "done" \in States /\ "none" \in States /\ "orphan" \in States
      /\ 0 \in 0 .. Units /\ Units \in 0 .. Units
  BY RequestsAssumption DEF States
<1>1. CASE Receive(r)
  <2>1. net[r].got + 1 \in 0 .. Units
    BY <1>1, RequestsAssumption DEF Receive, TypeOK
  <2>2. net' \in [Reqs -> Nets]
    BY <1>0, <1>1, <2>1, NetType DEF Receive
  <2>3. events' \in [Reqs -> Seq(Types)]
    BY <1>1, QueueIs, TypesSeqs, EmptyIs, EventsType DEF Receive
  <2> QED
    BY <1>1, <2>2, <2>3 DEF Receive, TypeOK, Nets, States, pageVars
<1>2. CASE Complete(r)
  <2>1. net' \in [Reqs -> Nets]
    BY <1>0, <1>2, NetType DEF Complete
  <2>2. events' \in [Reqs -> Seq(Types)]
    BY <1>2, QueueIs, TypesSeqs, EventsType DEF Complete
  <2> QED
    BY <1>2, <2>1, <2>2 DEF Complete, TypeOK, Nets, States, pageVars
<1>3. CASE Fail(r)
  <2>1. net' \in [Reqs -> Nets]
    BY <1>0, <1>3, NetType DEF Fail
  <2>2. events' \in [Reqs -> Seq(Types)]
    BY <1>3, QueueIs, TypesSeqs, EventsType DEF Fail
  <2> QED
    BY <1>3, <2>1, <2>2 DEF Fail, TypeOK, Nets, States, pageVars
<1>4. CASE OffscreenFails(r)
  <2>1. net' \in [Reqs -> Nets]
    BY <1>0, <1>4, NetType DEF OffscreenFails
  <2>2. msg' \in [Reqs -> Messages \cup {Nothing}]
    <3>1. Message(r, "error", << >>) \in Messages \cup {Nothing}
      BY MessageIs, TypesIs, EmptyIs
    <3> QED
      BY <1>4, <3>1, MsgType DEF OffscreenFails
  <2> QED
    BY <1>4, <2>1, <2>2 DEF OffscreenFails, TypeOK, Nets, States, pageVars
<1>5. CASE OrphanEnds(r)
  <2>1. net' \in [Reqs -> Nets]
    BY <1>0, <1>5, NetType DEF OrphanEnds
  <2> QED
    BY <1>5, <2>1 DEF OrphanEnds, TypeOK, Nets, States, pageVars
<1> QED
  BY <1>1, <1>2, <1>3, <1>4, <1>5 DEF Network

LEMMA VisibleIs ==
  ASSUME TypeOK, NEW r \in Reqs
  PROVE  Visible(r) \in 0 .. Units
<1>1. net[r].got \in 0 .. Units /\ 0 \in 0 .. Units
  BY RequestsAssumption DEF TypeOK
<1> QED
  BY <1>1 DEF Visible

Streams == [full : 0 .. Units, from : 1 .. Units + 1, sent : BOOLEAN]

LEMMA ChangedIs ==
  ASSUME TypeOK, NEW r \in Reqs
  PROVE  /\ Changed(r) \in Streams
         /\ Changed(r).full = Visible(r)
         /\ stream[r].full = Visible(r) => Changed(r) = stream[r]
         /\ stream[r].full # Visible(r) =>
              Changed(r).from = stream[r].full + 1 /\ Changed(r).sent = FALSE
<1>1. stream[r] \in Streams
  BY DEF TypeOK, Streams
<1>2. stream[r].full + 1 \in 1 .. Units + 1
  BY <1>1, RequestsAssumption DEF Streams
<1>3. Visible(r) \in 0 .. Units
  BY VisibleIs
<1> QED
  BY <1>1, <1>2, <1>3 DEF Changed, Streams

(* What the next event of a request sends.                                 *)
Sends(r) == /\ Listened(r, Head(events[r]))
            /\ opts[r].kind # "json" \/ net[r].state = "done"
            /\ ~Changed(r).sent
Data(r) == IF Sends(r) THEN SubSeq(Response, Changed(r).from, Changed(r).full) ELSE << >>
Streaming(r) == [full |-> Changed(r).full, from |-> Changed(r).from,
                 sent |-> Changed(r).sent \/ Sends(r)]

LEMMA HandleIs ==
  ASSUME TypeOK, NEW r \in Reqs, HandleEvent(r)
  PROVE  /\ engine = "xhr" /\ events[r] # << >> /\ msg[r] = Nothing /\ r \notin broken
         /\ Head(events[r]) \in Types /\ Tail(events[r]) \in Seq(Types)
         /\ Data(r) \in Seq(1 .. Units)
         /\ Streaming(r) \in Streams
         /\ events' = [events EXCEPT ![r] = Tail(events[r])]
         /\ stream' = [stream EXCEPT ![r] = Streaming(r)]
         /\ msg' = [msg EXCEPT ![r] = Message(r, Head(events[r]), Data(r))]
         /\ IF Head(events[r]) = "loadend" /\ r \notin registered
            THEN Clear({r})
            ELSE UNCHANGED << registered, injected, verified >>
         /\ UNCHANGED << engine, known, opts, net, failed, broken, pageVars >>
<1>1. Changed(r) \in Streams
  BY ChangedIs
<1>2. Changed(r).from \in 1 .. Units + 1 /\ Changed(r).full \in 0 .. Units
  BY <1>1 DEF Streams
<1>3. Data(r) \in Seq(1 .. Units)
  BY <1>2, PartIs, EmptyIs DEF Data
<1>4. Sends(r) \in BOOLEAN
  BY DEF Sends
<1>5. Streaming(r) \in Streams
  BY <1>1, <1>4 DEF Streaming, Streams
<1>6. [Changed(r) EXCEPT !.sent = Changed(r).sent \/ Sends(r)] = Streaming(r)
  <2> DEFINE b == Changed(r).sent \/ Sends(r)
             c == Changed(r)
  <2>1. c \in Streams
    BY <1>1
  <2> HIDE DEF b, c
  <2>2. [c EXCEPT !.sent = b] = [full |-> c.full, from |-> c.from, sent |-> b]
    BY <2>1 DEF Streams
  <2> QED
    BY <2>2 DEF Streaming, b, c
<1>7. stream' = [stream EXCEPT ![r] = [Changed(r) EXCEPT !.sent = Changed(r).sent \/ Sends(r)]]
  BY DEF HandleEvent, Sends
<1>8. msg' = [msg EXCEPT ![r] = Message(r, Head(events[r]), Data(r))]
  BY DEF HandleEvent, Sends, Data
<1>9. events[r] # << >> /\ events[r] \in Seq(Types)
  BY DEF HandleEvent, TypeOK
<1>10. Head(events[r]) \in Types /\ Tail(events[r]) \in Seq(Types)
  BY <1>9, HeadTailProperties
<1> QED
  BY <1>3, <1>5, <1>6, <1>7, <1>8, <1>9, <1>10 DEF HandleEvent

LEMMA HandleType ==
  ASSUME TypeOK, NEW r \in Reqs, HandleEvent(r)
  PROVE  TypeOK'
<1>1. stream' \in [Reqs -> Streams]
  <2>1. Streaming(r) \in Streams /\ stream' = [stream EXCEPT ![r] = Streaming(r)]
    BY HandleIs
  <2>2. stream \in [Reqs -> Streams]
    BY DEF TypeOK, Streams
  <2> QED
    BY <2>1, <2>2
<1>2. events' \in [Reqs -> Seq(Types)]
  BY HandleIs, EventsType
<1>3. msg' \in [Reqs -> Messages \cup {Nothing}]
  BY HandleIs, MessageIs, MsgType
<1>4. registered' \subseteq Reqs /\ injected' \subseteq Reqs /\ verified' \subseteq Reqs
  <2>1. CASE Clear({r})
    BY <2>1, ClearType
  <2>2. CASE UNCHANGED << registered, injected, verified >>
    BY <2>2 DEF TypeOK
  <2> QED
    BY <2>1, <2>2, HandleIs
<1>5. UNCHANGED << engine, known, opts, net, failed, broken, pageVars >>
  BY HandleIs
<1> QED
  BY <1>1, <1>2, <1>3, <1>4, <1>5 DEF TypeOK, Streams, pageVars

LEMMA OffscreenIs ==
  ASSUME TypeOK, NEW r \in Reqs, HandleOffscreen(r)
  PROVE  /\ engine = "offscreen" /\ events[r] # << >> /\ msg[r] = Nothing
         /\ Head(events[r]) \in Types /\ Tail(events[r]) \in Seq(Types)
         /\ \E data \in Seq(1 .. Units) :
              /\ opts[r].kind # "blob" => data = Response
              /\ msg' = [msg EXCEPT ![r] = Message(r, Head(events[r]), data)]
         /\ events' = [events EXCEPT ![r] = IF r \in registered THEN Tail(events[r]) ELSE << >>]
<1>1. events[r] # << >> /\ events[r] \in Seq(Types)
  BY DEF HandleOffscreen, TypeOK
<1>2. Head(events[r]) \in Types /\ Tail(events[r]) \in Seq(Types)
  BY <1>1, HeadTailProperties
<1> DEFINE data == IF opts[r].kind = "blob" THEN << >> ELSE Response
<1>3. /\ data \in Seq(1 .. Units)
      /\ opts[r].kind # "blob" => data = Response
  BY EmptyIs, ResponseIs
<1>4. msg' = [msg EXCEPT ![r] = Message(r, Head(events[r]), data)]
  BY DEF HandleOffscreen
<1> HIDE DEF data
<1> QED
  BY <1>1, <1>2, <1>3, <1>4 DEF HandleOffscreen

LEMMA OffscreenType ==
  ASSUME TypeOK, NEW r \in Reqs, HandleOffscreen(r)
  PROVE  TypeOK'
<1>1. events' \in [Reqs -> Seq(Types)]
  BY OffscreenIs, EmptyIs, EventsType
<1>2. msg' \in [Reqs -> Messages \cup {Nothing}]
  BY OffscreenIs, MessageIs, MsgType
<1> QED
  BY <1>1, <1>2 DEF HandleOffscreen, TypeOK, netVars, pageVars

Webs == [open : BOOLEAN, raw : Seq(1 .. Units), told : SUBSET Types]

(* What the page has of a request once it handled the message.             *)
Hears(r) == web[r].open /\ Listened(r, msg[r].type)
Raw(r)   == IF ~Hears(r) \/ msg[r].data = << >> THEN web[r].raw
            ELSE IF Replaces(r) THEN msg[r].data ELSE web[r].raw \o msg[r].data
Heard(r) == [open |-> web[r].open /\ msg[r].type # "loadend", raw |-> Raw(r),
             told |-> IF Hears(r) THEN web[r].told \cup {msg[r].type} ELSE web[r].told]

LEMMA DeliverIs ==
  ASSUME TypeOK, NEW r \in Reqs, Deliver(r)
  PROVE  /\ msg[r] # Nothing /\ ~msg[r].back /\ msg[r] \in Messages
         /\ Heard(r) \in Webs /\ web' = [web EXCEPT ![r] = Heard(r)]
         /\ \E m \in Messages : /\ msg' = [msg EXCEPT ![r] = m]
                                /\ m.type = msg[r].type /\ m.back
         /\ UNCHANGED << engine, page, known, opts, asked, calls, aborts, aborted, netVars,
                         events, stream, failed, broken >>
<1>1. msg[r] # Nothing /\ ~msg[r].back /\ msg[r] \in Messages
  BY DEF Deliver, TypeOK
<1>2. web[r] \in Webs /\ msg[r].data \in Seq(1 .. Units) /\ msg[r].type \in Types
  BY <1>1 DEF TypeOK, Webs, Messages
<1>3. Raw(r) \in Seq(1 .. Units)
  <2>1. web[r].raw \in Seq(1 .. Units)
    BY <1>2 DEF Webs
  <2>2. web[r].raw \o msg[r].data \in Seq(1 .. Units)
    BY <1>2, <2>1, ConcatProperties
  <2> QED
    BY <1>2, <2>1, <2>2 DEF Raw
<1>4. Heard(r) \in Webs
  BY <1>2, <1>3 DEF Heard, Webs
<1>5. web' = [web EXCEPT ![r] = Heard(r)]
  BY DEF Deliver, Heard, Raw, Hears
<1>6. \E m \in Messages : /\ msg' = [msg EXCEPT ![r] = m]
                          /\ m.type = msg[r].type /\ m.back
  <2> DEFINE m == [msg[r] EXCEPT !.back = TRUE]
  <2>1. m \in Messages /\ m.type = msg[r].type /\ m.back
    BY <1>1 DEF Messages
  <2>2. msg' = [msg EXCEPT ![r] = m]
    BY DEF Deliver
  <2> HIDE DEF m
  <2> QED
    BY <2>1, <2>2
<1> QED
  BY <1>1, <1>4, <1>5, <1>6 DEF Deliver

LEMMA ReplyType ==
  ASSUME TypeOK, NEW r \in Reqs, Deliver(r) \/ DeliveryFails(r) \/ Return(r)
  PROVE  TypeOK'
<1>1. CASE Deliver(r)
  <2>1. web' \in [Reqs -> Webs]
    BY <1>1, DeliverIs DEF TypeOK, Webs
  <2>2. msg' \in [Reqs -> Messages \cup {Nothing}]
    BY <1>1, DeliverIs, MsgType
  <2> QED
    BY <1>1, <2>1, <2>2 DEF Deliver, TypeOK, Webs, netVars
<1>2. CASE DeliveryFails(r)
  BY <1>2 DEF DeliveryFails, TypeOK, netVars, pageVars
<1>3. CASE Return(r)
  <2>1. registered' \subseteq Reqs /\ injected' \subseteq Reqs /\ verified' \subseteq Reqs
    <3>1. CASE Clear({r})
      BY <3>1, ClearType
    <3>2. CASE UNCHANGED << registered, injected, verified >>
      BY <3>2 DEF TypeOK
    <3> QED
      BY <1>3, <3>1, <3>2 DEF Return
  <2>2. msg' \in [Reqs -> Messages \cup {Nothing}]
    BY <1>3 DEF Return, TypeOK
  <2> QED
    BY <1>3, <2>1, <2>2 DEF Return, TypeOK, pageVars
<1> QED
  BY <1>1, <1>2, <1>3

LEMMA WorkerType ==
  ASSUME TypeOK, PageInjected \/ Restart
  PROVE  TypeOK'
<1>1. CASE PageInjected
  <2>1. AbortAll(Reqs)
    BY <1>1 DEF PageInjected
  <2>2. /\ registered' \subseteq Reqs /\ injected' \subseteq Reqs /\ verified' \subseteq Reqs
        /\ net' \in [Reqs -> Nets] /\ events' \in [Reqs -> Seq(Types)]
    BY <2>1, AbortAllType
  <2> QED
    BY <1>1, <2>2 DEF PageInjected, TypeOK, Nets, States, pageVars
<1>2. CASE Restart
  <2> DEFINE x == At("orphan", 0)
  <2>1. x \in Nets
    BY AtIs, RequestsAssumption DEF States
  <2>2. net' = [r \in Reqs |-> IF net[r].state = "sent" THEN x ELSE net[r]]
    BY <1>2 DEF Restart
  <2> HIDE DEF x
  <2>3. net' \in [Reqs -> Nets]
    BY <2>1, <2>2 DEF TypeOK, Nets, States
  <2>4. events' \in [Reqs -> Seq(Types)] /\ msg' \in [Reqs -> Messages \cup {Nothing}]
    BY <1>2, EmptyIs DEF Restart
  <2> QED
    BY <1>2, <2>3, <2>4 DEF Restart, TypeOK, Nets, States, pageVars
<1> QED
  BY <1>1, <1>2

LEMMA NextType == TypeOK /\ [Next]_vars => TypeOK'
<1> SUFFICES ASSUME TypeOK, [Next]_vars PROVE TypeOK'
  OBVIOUS
<1>1. CASE Navigate \/ \E r \in Reqs : Request(r) \/ Abort(r)
  BY <1>1, PageType
<1>2. CASE PageInjected \/ Restart
  BY <1>2, WorkerType
<1>3. ASSUME NEW r \in Reqs,
             Start(r) \/ StartFails(r) \/ AbortArrives(r) \/ Cookies(r) \/ HeadersGo(r)
      PROVE  TypeOK'
  BY <1>3, RequestType
<1>4. ASSUME NEW r \in Reqs, Receive(r) \/ Network(r) \/ OrphanEnds(r)
      PROVE  TypeOK'
  BY <1>4, NetworkType
<1>5. ASSUME NEW r \in Reqs,
             HandleEvent(r) \/ HandleOffscreen(r) \/ Deliver(r) \/ DeliveryFails(r) \/ Return(r)
      PROVE  TypeOK'
  BY <1>5, HandleType, OffscreenType, ReplyType
<1>6. CASE UNCHANGED vars
  BY <1>6 DEF vars, TypeOK
<1> QED
  BY <1>1, <1>2, <1>3, <1>4, <1>5, <1>6 DEF Next

(* Every variable of the requests has its type (requests.js).              *)
THEOREM TypeCorrect == Spec => []TypeOK
BY InitType, NextType, PTL DEF Spec

-----------------------------------------------------------------------------
(* What is left behind *)

(* Nothing was done yet for a request.                                     *)
Fresh(r) ==
  /\ net[r] = At("none", 0) /\ events[r] = << >> /\ msg[r] = Nothing
  /\ stream[r] = Unsent
  /\ web[r].raw = << >> /\ web[r].told = {}
  /\ r \notin registered \cup injected \cup verified

Unasked(r) == /\ r \in calls => asked[r] # 0
              /\ asked[r] = 0 \/ r \in calls => Fresh(r)

(* The events of a request that is over end with loadend ...               *)
Over(r) == net[r].state \notin {"sent", "loading"}
EndsLast(r) == Over(r) /\ events[r] # << >> => events[r][Len(events[r])] = "loadend"

(* ... which is still to come, as an event or as a message.                *)
Due(r) ==
  \/ net[r].state \in {"cookies", "sent", "loading"}
  \/ events[r] # << >>
  \/ msg[r] # Nothing /\ msg[r].type = "loadend"

(* The inductive invariant behind LeavesNothingBehind: what is to be       *)
(* cleared waits for loadend, and whoever is aborted during the await of   *)
(* the cookies has nothing to clear yet.                                   *)
Cleared(r) ==
  /\ net[r].state = "cookies" => r \notin injected \cup verified
  /\ engine = "offscreen" => r \notin injected \cup verified /\ net[r].state # "cookies"
  /\ engine = "xhr" =>
       /\ r \in (injected \cup verified \cup (registered \ failed)) \ broken => Due(r)
       /\ EndsLast(r)

(* A step leaves a request alone.                                          *)
Same(r) ==
  /\ asked'[r] = asked[r] /\ (r \in calls' <=> r \in calls)
  /\ (r \in registered' <=> r \in registered) /\ (r \in injected' <=> r \in injected)
  /\ (r \in verified' <=> r \in verified) /\ (r \in failed' <=> r \in failed)
  /\ (r \in broken' <=> r \in broken)
  /\ net'[r] = net[r] /\ events'[r] = events[r] /\ stream'[r] = stream[r]
  /\ msg'[r] = msg[r] /\ web'[r] = web[r]

LEMMA AbortedIs ==
  ASSUME TypeOK, NEW rs \in SUBSET Reqs, AbortAll(rs), NEW q \in Reqs
  PROVE  /\ q \in rs \cap registered =>
              /\ q \notin registered' \cup injected' \cup verified'
              /\ IF engine = "xhr" /\ net[q].state \in {"sent", "loading"}
                 THEN /\ net'[q] = At("aborted", 0)
                      /\ events'[q] = Queue(q, << "readystatechange" >>, << "loadend" >>)
                 ELSE net'[q] = net[q] /\ events'[q] = events[q]
         /\ q \notin rs \cap registered =>
              /\ (q \in registered' <=> q \in registered)
              /\ (q \in injected' <=> q \in injected)
              /\ (q \in verified' <=> q \in verified)
              /\ net'[q] = net[q] /\ events'[q] = events[q]
<1>1. /\ registered' = registered \ (rs \cap registered)
      /\ injected' = injected \ (rs \cap registered)
      /\ verified' = verified \ (rs \cap registered)
  BY DEF AbortAll, Clear
<1> DEFINE live == {r \in rs \cap registered :
                      engine = "xhr" /\ net[r].state \in {"sent", "loading"}}
<1>2. /\ net' = [r \in Reqs |-> IF r \in live THEN At("aborted", 0) ELSE net[r]]
      /\ events' = [r \in Reqs |-> IF r \in live
                      THEN Queue(r, << "readystatechange" >>, << "loadend" >>) ELSE events[r]]
  BY DEF AbortAll
<1>3. /\ net'[q] = IF q \in live THEN At("aborted", 0) ELSE net[q]
      /\ events'[q] = IF q \in live
                      THEN Queue(q, << "readystatechange" >>, << "loadend" >>) ELSE events[q]
  <2> HIDE DEF live
  <2> QED
    BY <1>2
<1>4. q \in live <=> /\ q \in rs \cap registered
                     /\ engine = "xhr" /\ net[q].state \in {"sent", "loading"}
  OBVIOUS
<1> HIDE DEF live
<1> QED
  BY <1>1, <1>3, <1>4

LEMMA OthersSame ==
  ASSUME TypeOK, NEW r \in Reqs, NEW q \in Reqs, q # r,
         \/ Request(r) \/ Abort(r) \/ Start(r) \/ StartFails(r) \/ AbortArrives(r)
         \/ Cookies(r) \/ HeadersGo(r) \/ Receive(r) \/ Network(r) \/ OrphanEnds(r)
         \/ HandleEvent(r) \/ HandleOffscreen(r) \/ Deliver(r) \/ DeliveryFails(r) \/ Return(r)
  PROVE  Same(q)
<1>1. CASE Request(r)
  BY <1>1 DEF Request, Same, bgVars, netVars, TypeOK
<1>2. CASE Abort(r)
  BY <1>2 DEF Abort, Same, bgVars, netVars
<1>3. CASE Start(r)
  BY <1>3 DEF Start, Same, TypeOK
<1>4. CASE StartFails(r)
  BY <1>4 DEF StartFails, Same, TypeOK
<1>5. CASE AbortArrives(r)
  <2>1. AbortAll({r})
    BY <1>5 DEF AbortArrives
  <2>2. /\ (q \in registered' <=> q \in registered)
        /\ (q \in injected' <=> q \in injected)
        /\ (q \in verified' <=> q \in verified)
        /\ net'[q] = net[q] /\ events'[q] = events[q]
    BY <2>1, AbortedIs
  <2> QED
    BY <1>5, <2>2 DEF AbortArrives, Same
<1>6. CASE Cookies(r)
  BY <1>6 DEF Cookies, CookiesAnswered, CookiesFail, Same, TypeOK, pageVars
<1>7. CASE HeadersGo(r)
  BY <1>7 DEF HeadersGo, Same, pageVars
<1>8. CASE Receive(r) \/ OrphanEnds(r)
  BY <1>8 DEF Receive, OrphanEnds, Same, TypeOK, pageVars
<1>9. CASE Network(r)
  BY <1>9 DEF Network, Complete, Fail, OffscreenFails, Same, TypeOK, pageVars
<1>10. CASE HandleEvent(r)
  <2>1. /\ events' = [events EXCEPT ![r] = Tail(events[r])]
        /\ stream' = [stream EXCEPT ![r] = Streaming(r)]
        /\ msg' = [msg EXCEPT ![r] = Message(r, Head(events[r]), Data(r))]
    BY <1>10, HandleIs
  <2>2. \/ Clear({r})
        \/ UNCHANGED << registered, injected, verified >>
    BY <1>10, HandleIs
  <2>3. UNCHANGED << net, failed, broken, pageVars >>
    BY <1>10, HandleIs
  <2> QED
    BY <2>1, <2>2, <2>3 DEF Same, Clear, TypeOK, pageVars
<1>11. CASE HandleOffscreen(r)
  BY <1>11 DEF HandleOffscreen, Same, TypeOK, netVars, pageVars
<1>12. CASE Deliver(r)
  BY <1>12 DEF Deliver, Same, TypeOK, netVars
<1>13. CASE DeliveryFails(r)
  BY <1>13 DEF DeliveryFails, Same, TypeOK, netVars, pageVars
<1>14. CASE Return(r)
  BY <1>14 DEF Return, Clear, Same, TypeOK, pageVars
<1> QED
  BY <1>1, <1>2, <1>3, <1>4, <1>5, <1>6, <1>7, <1>8, <1>9, <1>10, <1>11, <1>12, <1>13, <1>14

LEMMA SameKeeps ==
  ASSUME NEW q \in Reqs, Same(q), engine' = engine
  PROVE  /\ Unasked(q) => Unasked(q)'
         /\ Cleared(q) => Cleared(q)'
<1>1. Unasked(q) => Unasked(q)'
  BY DEF Same, Unasked, Fresh
<1>2. Cleared(q) => Cleared(q)'
  BY DEF Same, Cleared, Due, EndsLast, Over
<1> QED
  BY <1>1, <1>2

Step(r) ==
  \/ Request(r) \/ Abort(r) \/ Start(r) \/ StartFails(r) \/ AbortArrives(r)
  \/ Cookies(r) \/ HeadersGo(r) \/ Receive(r) \/ Network(r) \/ OrphanEnds(r)
  \/ HandleEvent(r) \/ HandleOffscreen(r) \/ Deliver(r) \/ DeliveryFails(r) \/ Return(r)

LEMMA UnaskedStep ==
  ASSUME TypeOK, NEW q \in Reqs, Unasked(q), Step(q)
  PROVE  Unasked(q)'
<1>0. At("none", 0).state = "none"
  BY AtIs
<1>1. CASE Request(q)
  <2>1. Fresh(q) /\ asked'[q] = page /\ page # 0
    BY <1>1 DEF Request, Unasked, TypeOK
  <2>2. web'[q].raw = web[q].raw /\ web'[q].told = web[q].told
    <3>1. [web[q] EXCEPT !.open = TRUE].raw = web[q].raw
          /\ [web[q] EXCEPT !.open = TRUE].told = web[q].told
      BY DEF TypeOK
    <3> QED
      BY <1>1, <3>1 DEF Request, TypeOK
  <2>3. Fresh(q)'
    BY <1>1, <2>1, <2>2 DEF Request, Fresh, bgVars, netVars
  <2> QED
    BY <2>1, <2>3 DEF Unasked
<1>2. CASE Abort(q)
  BY <1>2 DEF Abort, Unasked, Fresh, bgVars, netVars
<1>3. CASE Start(q) \/ StartFails(q)
  <2>1. q \in calls /\ asked[q] # 0 /\ q \notin calls' /\ asked' = asked
    BY <1>3 DEF Start, StartFails, Unasked
  <2> QED
    BY <2>1 DEF Unasked
<1>4. CASE AbortArrives(q)
  <2>1. ASSUME Fresh(q) PROVE Fresh(q)'
    <3>1. AbortAll({q}) /\ q \notin registered
      BY <1>4, <2>1 DEF AbortArrives, Fresh
    <3>2. /\ (q \in registered' <=> q \in registered)
          /\ (q \in injected' <=> q \in injected)
          /\ (q \in verified' <=> q \in verified)
          /\ net'[q] = net[q] /\ events'[q] = events[q]
      BY <3>1, AbortedIs
    <3> QED
      BY <1>4, <2>1, <3>2 DEF AbortArrives, Fresh
  <2> QED
    BY <1>4, <2>1 DEF AbortArrives, Unasked
<1>5. CASE ~Fresh(q) /\ calls' = calls /\ asked' = asked
  BY <1>5 DEF Unasked
<1>6. CASE Cookies(q) \/ HeadersGo(q) \/ Receive(q) \/ Network(q) \/ OrphanEnds(q)
  <2>1. net[q].state # "none"
    BY <1>6 DEF Cookies, CookiesAnswered, CookiesFail, HeadersGo, Receive, Network, Complete, Fail,
                OffscreenFails, OrphanEnds
  <2>2. calls' = calls /\ asked' = asked
    BY <1>6 DEF Cookies, CookiesAnswered, CookiesFail, HeadersGo, Receive, Network, Complete, Fail,
                OffscreenFails, OrphanEnds, pageVars
  <2> QED
    BY <1>0, <1>5, <2>1, <2>2 DEF Fresh
<1>7. CASE HandleEvent(q) \/ HandleOffscreen(q) \/ Deliver(q) \/ DeliveryFails(q) \/ Return(q)
  <2>1. events[q] # << >> \/ msg[q] # Nothing
    BY <1>7 DEF HandleEvent, HandleOffscreen, Deliver, DeliveryFails, Return
  <2>2. calls' = calls /\ asked' = asked
    BY <1>7 DEF HandleEvent, HandleOffscreen, Deliver, DeliveryFails, Return, pageVars
  <2> QED
    BY <1>5, <2>1, <2>2 DEF Fresh
<1> QED
  BY <1>1, <1>2, <1>3, <1>4, <1>6, <1>7 DEF Step

LEMMA UnaskedNext ==
  ASSUME TypeOK, [Next]_vars, NEW q \in Reqs, Unasked(q)
  PROVE  Unasked(q)'
<1>0. At("none", 0).state = "none" /\ engine' = engine
  BY AtIs, Const
<1>1. CASE Navigate
  <2>1. web'[q].raw = web[q].raw /\ web'[q].told = web[q].told
    <3>1. [web[q] EXCEPT !.open = FALSE].raw = web[q].raw
          /\ [web[q] EXCEPT !.open = FALSE].told = web[q].told
      BY DEF TypeOK
    <3> QED
      BY <1>1, <3>1 DEF Navigate
  <2>2. asked' = asked /\ (q \in calls' => q \in calls)
    BY <1>1 DEF Navigate
  <2>3. Fresh(q) => Fresh(q)'
    BY <1>1, <2>1 DEF Navigate, Fresh, bgVars, netVars
  <2> QED
    BY <2>2, <2>3 DEF Unasked
<1>2. CASE PageInjected
  <2>1. ASSUME Fresh(q) PROVE Fresh(q)'
    <3>1. AbortAll(Reqs) /\ q \notin registered
      BY <1>2, <2>1 DEF PageInjected, Fresh
    <3>2. /\ (q \in registered' <=> q \in registered)
          /\ (q \in injected' <=> q \in injected)
          /\ (q \in verified' <=> q \in verified)
          /\ net'[q] = net[q] /\ events'[q] = events[q]
      BY <3>1, AbortedIs
    <3> QED
      BY <1>2, <2>1, <3>2 DEF PageInjected, Fresh, pageVars
  <2> QED
    BY <1>2, <2>1 DEF PageInjected, Unasked, pageVars
<1>3. CASE Restart
  <2>1. Fresh(q) => Fresh(q)'
    BY <1>0, <1>3 DEF Restart, Fresh, pageVars
  <2> QED
    BY <1>3, <2>1 DEF Restart, Unasked, pageVars
<1>4. ASSUME NEW r \in Reqs, Step(r) PROVE Unasked(q)'
  <2>1. CASE r = q
    BY <1>4, <2>1, UnaskedStep
  <2>2. CASE r # q
    <3>1. Same(q)
      BY <1>4, <2>2, OthersSame DEF Step
    <3> QED
      BY <1>0, <3>1, SameKeeps
  <2> QED
    BY <2>1, <2>2
<1>5. CASE UNCHANGED vars
  BY <1>5 DEF vars, Unasked, Fresh
<1> QED
  BY <1>1, <1>2, <1>3, <1>4, <1>5 DEF Next, Step

LEMMA LastIs ==
  ASSUME NEW s \in Seq(Types), s # << >>
  PROVE  /\ Len(s) \in Nat \ {0}
         /\ Tail(s) = << >> => Head(s) = s[Len(s)]
         /\ Tail(s) # << >> => Tail(s)[Len(Tail(s))] = s[Len(s)]
<1>1. Len(s) \in Nat \ {0}
  BY EmptySeq
<1>2. /\ Tail(s) \in Seq(Types) /\ Len(Tail(s)) = Len(s) - 1
      /\ \A i \in 1 .. Len(Tail(s)) : Tail(s)[i] = s[i+1]
  BY HeadTailProperties
<1>3. Tail(s) = << >> => Head(s) = s[Len(s)]
  <2>1. Tail(s) = << >> => Len(s) = 1
    <3>1. Len(<< >>) = 0
      OBVIOUS
    <3>2. Tail(s) = << >> => Len(Tail(s)) = 0
      BY <3>1
    <3> QED
      BY <1>1, <1>2, <3>2
  <2> QED
    BY <2>1
<1>4. Tail(s) # << >> => Tail(s)[Len(Tail(s))] = s[Len(s)]
  BY <1>1, <1>2, EmptySeq
<1> QED
  BY <1>1, <1>3, <1>4

LEMMA QueueEnds ==
  ASSUME TypeOK, NEW r \in Reqs, NEW q,
         \/ q = Queue(r, << "readystatechange" >>, << "loadend" >>)
         \/ q = Queue(r, << "readystatechange" >>, << "load", "loadend" >>)
         \/ q = Queue(r, << "readystatechange" >>, << "error", "loadend" >>)
  PROVE  q # << >> /\ q[Len(q)] = "loadend"
<1>1. ASSUME NEW types \in Seq(Types), types # << >>, types[Len(types)] = "loadend",
             q = Queue(r, << "readystatechange" >>, types)
      PROVE  q # << >> /\ q[Len(q)] = "loadend"
  <2>1. << "readystatechange" >> \in Seq(Types)
    BY TypesSeqs
  <2> DEFINE early == << "readystatechange" >>
  <2>2. /\ Queue(r, early, types) # << >>
        /\ Queue(r, early, types)[Len(Queue(r, early, types))] = types[Len(types)]
    <3>1. early \in Seq(Types)
      BY <2>1
    <3> HIDE DEF early
    <3> QED
      BY <1>1, <3>1, QueueIs
  <2> QED
    BY <1>1, <2>2
<1>2. ASSUME q = Queue(r, << "readystatechange" >>, << "loadend" >>)
      PROVE  q # << >> /\ q[Len(q)] = "loadend"
  <2> DEFINE types == << "loadend" >>
  <2>1. types \in Seq(Types) /\ types # << >> /\ types[Len(types)] = "loadend"
    BY TypesSeqs
  <2>2. q = Queue(r, << "readystatechange" >>, types)
    BY <1>2
  <2> HIDE DEF types
  <2> QED
    BY <1>1, <2>1, <2>2
<1>3. ASSUME q = Queue(r, << "readystatechange" >>, << "load", "loadend" >>)
      PROVE  q # << >> /\ q[Len(q)] = "loadend"
  <2> DEFINE types == << "load", "loadend" >>
  <2>1. types \in Seq(Types) /\ types # << >> /\ types[Len(types)] = "loadend"
    BY TypesSeqs
  <2>2. q = Queue(r, << "readystatechange" >>, types)
    BY <1>3
  <2> HIDE DEF types
  <2> QED
    BY <1>1, <2>1, <2>2
<1>4. ASSUME q = Queue(r, << "readystatechange" >>, << "error", "loadend" >>)
      PROVE  q # << >> /\ q[Len(q)] = "loadend"
  <2> DEFINE types == << "error", "loadend" >>
  <2>1. types \in Seq(Types) /\ types # << >> /\ types[Len(types)] = "loadend"
    BY TypesSeqs
  <2>2. q = Queue(r, << "readystatechange" >>, types)
    BY <1>4
  <2> HIDE DEF types
  <2> QED
    BY <1>1, <2>1, <2>2
<1> QED
  BY <1>2, <1>3, <1>4

LEMMA ClearedAbort ==
  ASSUME TypeOK, NEW q \in Reqs, Cleared(q), NEW rs \in SUBSET Reqs, AbortAll(rs),
         UNCHANGED << engine, msg, failed, broken >>
  PROVE  Cleared(q)'
<1>1. CASE q \notin rs \cap registered
  <2>1. /\ (q \in registered' <=> q \in registered)
        /\ (q \in injected' <=> q \in injected)
        /\ (q \in verified' <=> q \in verified)
        /\ net'[q] = net[q] /\ events'[q] = events[q]
    BY <1>1, AbortedIs
  <2> QED
    BY <2>1 DEF Cleared, Due, EndsLast, Over
<1>2. CASE q \in rs \cap registered
  <2>1. /\ q \notin registered' \cup injected' \cup verified'
        /\ IF engine = "xhr" /\ net[q].state \in {"sent", "loading"}
           THEN /\ net'[q] = At("aborted", 0)
                /\ events'[q] = Queue(q, << "readystatechange" >>, << "loadend" >>)
           ELSE net'[q] = net[q] /\ events'[q] = events[q]
    BY <1>2, AbortedIs
  <2>2. CASE ~(engine = "xhr" /\ net[q].state \in {"sent", "loading"})
    BY <2>1, <2>2 DEF Cleared, Due, EndsLast, Over
  <2>3. CASE engine = "xhr" /\ net[q].state \in {"sent", "loading"}
    <3>1. events'[q][Len(events'[q])] = "loadend"
      BY <2>1, <2>3, QueueEnds
    <3>2. net'[q].state = "aborted"
      BY <2>1, <2>3, AtIs
    <3> QED
      BY <2>1, <2>3, <3>1, <3>2 DEF Cleared, Due, EndsLast, Over
  <2> QED
    BY <2>2, <2>3
<1> QED
  BY <1>1, <1>2

LEMMA ClearedStart ==
  ASSUME TypeOK, NEW q \in Reqs, Unasked(q), Cleared(q),
         \/ Request(q) \/ Abort(q) \/ Start(q) \/ StartFails(q) \/ AbortArrives(q)
         \/ Cookies(q) \/ HeadersGo(q)
  PROVE  Cleared(q)'
<1>1. CASE Request(q) \/ Abort(q)
  <2>1. UNCHANGED << engine, bgVars >>
    BY <1>1 DEF Request, Abort
  <2> QED
    BY <2>1 DEF Cleared, Due, EndsLast, Over, bgVars, netVars
<1>2. CASE Start(q)
  <2>1. Fresh(q)
    BY <1>2 DEF Start, Unasked
  <2> DEFINE waits == engine = "xhr" /\ opts[q].cookies
             s == IF waits THEN "cookies" ELSE "sent"
  <2>2. net'[q] = At(s, 0)
    BY <1>2 DEF Start, TypeOK
  <2>3. net'[q].state = s
    BY <2>2, AtIs
  <2>4. /\ verified' = verified /\ events' = events /\ engine' = engine
        /\ injected' = IF waits \/ engine = "offscreen" THEN injected ELSE injected \cup {q}
    BY <1>2 DEF Start
  <2>5. q \notin injected \cup verified /\ events[q] = << >>
    BY <2>1 DEF Fresh
  <2> QED
    BY <2>3, <2>4, <2>5 DEF Cleared, Due, EndsLast, Over
<1>3. CASE StartFails(q)
  <2>1. Fresh(q)
    BY <1>3 DEF StartFails, Unasked
  <2>2. q \notin injected \cup verified /\ events[q] = << >> /\ q \in failed'
    BY <1>3, <2>1 DEF StartFails, Fresh
  <2>3. net[q].state = "none"
    BY <2>1, AtIs DEF Fresh
  <2>4. UNCHANGED << engine, injected, verified, net, events >>
    BY <1>3 DEF StartFails
  <2> QED
    BY <2>2, <2>3, <2>4 DEF Cleared, Due, EndsLast, Over
<1>4. CASE AbortArrives(q)
  <2>1. AbortAll({q}) /\ UNCHANGED << engine, msg, failed, broken >>
    BY <1>4 DEF AbortArrives
  <2> QED
    BY <2>1, ClearedAbort
<1>5. CASE CookiesAnswered(q)
  <2>1. net'[q].state = "sent" /\ engine # "offscreen"
    BY <1>5, AtIs DEF CookiesAnswered, TypeOK, Cleared
  <2> QED
    BY <1>5, <2>1 DEF CookiesAnswered, Cleared, Due, EndsLast, Over
<1>6. CASE CookiesFail(q)
  <2>1. net'[q].state = "none" /\ net[q].state = "cookies" /\ q \notin injected \cup verified
    BY <1>6, AtIs DEF CookiesFail, TypeOK, Cleared
  <2>2. UNCHANGED << engine, injected, verified, events >> /\ q \in failed'
    BY <1>6 DEF CookiesFail
  <2> QED
    BY <2>1, <2>2 DEF Cleared, Due, EndsLast, Over
<1>7. CASE HeadersGo(q)
  <2>1. net[q].state = "sent" /\ UNCHANGED << engine, net, events >> /\ engine = "xhr"
    BY <1>7 DEF HeadersGo
  <2> QED
    BY <2>1 DEF Cleared, Due, EndsLast, Over
<1> QED
  BY <1>1, <1>2, <1>3, <1>4, <1>5, <1>6, <1>7 DEF Cookies

LEMMA ClearedNet ==
  ASSUME TypeOK, NEW q \in Reqs, Cleared(q),
         Receive(q) \/ Network(q) \/ OrphanEnds(q)
  PROVE  Cleared(q)'
<1>1. CASE Receive(q)
  <2>1. net'[q].state = "loading" /\ engine' = engine /\ engine = "xhr"
    BY <1>1, AtIs DEF Receive, TypeOK
  <2> QED
    BY <2>1 DEF Cleared, Due, EndsLast, Over
<1>2. CASE Complete(q)
  <2>1. net'[q].state = "done" /\ UNCHANGED << engine, injected, verified >>
    BY <1>2, AtIs DEF Complete, TypeOK
  <2>2. events'[q] # << >> /\ events'[q][Len(events'[q])] = "loadend"
    <3>1. events'[q] = Queue(q, << "readystatechange" >>, << "load", "loadend" >>)
      BY <1>2 DEF Complete, TypeOK
    <3> QED
      BY <3>1, QueueEnds
  <2> QED
    BY <2>1, <2>2 DEF Cleared, Due, EndsLast, Over
<1>3. CASE Fail(q)
  <2>1. net'[q].state = "done" /\ engine' = engine /\ engine = "xhr"
    BY <1>3, AtIs DEF Fail, TypeOK
  <2>2. events'[q] # << >> /\ events'[q][Len(events'[q])] = "loadend"
    <3>1. events'[q] = Queue(q, << "readystatechange" >>, << "error", "loadend" >>)
      BY <1>3 DEF Fail, TypeOK
    <3> QED
      BY <3>1, QueueEnds
  <2> QED
    BY <2>1, <2>2 DEF Cleared, Due, EndsLast, Over
<1>4. CASE OffscreenFails(q)
  <2>1. net'[q].state \in {"none", "orphan"}
    BY <1>4, AtIs DEF OffscreenFails, TypeOK
  <2>2. UNCHANGED << engine, injected, verified >> /\ engine = "offscreen"
    BY <1>4 DEF OffscreenFails
  <2> QED
    BY <2>1, <2>2 DEF Cleared
<1>5. CASE OrphanEnds(q)
  <2>1. net'[q].state = "none" /\ net[q].state = "orphan"
    BY <1>5, AtIs DEF OrphanEnds, TypeOK
  <2>2. UNCHANGED << engine, registered, injected, verified, events, msg, failed, broken >>
    BY <1>5 DEF OrphanEnds
  <2> QED
    BY <2>1, <2>2 DEF Cleared, Due, EndsLast, Over
<1> QED
  BY <1>1, <1>2, <1>3, <1>4, <1>5 DEF Network

LEMMA ClearedHandle ==
  ASSUME TypeOK, NEW q \in Reqs, Cleared(q), HandleEvent(q)
  PROVE  Cleared(q)'
<1>1. /\ engine = "xhr" /\ engine' = engine /\ net' = net
      /\ events[q] # << >> /\ events[q] \in Seq(Types) /\ q \notin broken /\ msg[q] = Nothing
      /\ failed' = failed /\ broken' = broken
  BY HandleIs DEF TypeOK
<1>2. events'[q] = Tail(events[q]) /\ msg'[q] = Message(q, Head(events[q]), Data(q))
  BY HandleIs DEF TypeOK
<1>3. /\ q \in registered' => q \in registered
      /\ q \in injected' => q \in injected
      /\ q \in verified' => q \in verified
      /\ Head(events[q]) = "loadend" /\ q \notin registered =>
           q \notin registered' \cup injected' \cup verified'
  BY HandleIs DEF Clear
<1>4. q \in registered => msg'[q] # Nothing /\ msg'[q].type = Head(events[q])
  <2>1. Head(events[q]) \in Types /\ Data(q) \in Seq(1 .. Units)
    BY HandleIs
  <2> DEFINE t == Head(events[q])
             x == Data(q)
  <2>2. t \in Types /\ x \in Seq(1 .. Units) /\ msg'[q] = Message(q, t, x)
    BY <1>2, <2>1
  <2> HIDE DEF t, x
  <2>3. q \in registered => Message(q, t, x) = Told(t, x)
    BY <2>2, MessageIs
  <2>4. Told(t, x) # Nothing /\ Told(t, x).type = t
    BY <2>2, ToldIs
  <2> QED
    BY <2>2, <2>3, <2>4 DEF t
<1>5. /\ Tail(events[q]) = << >> => Head(events[q]) = events[q][Len(events[q])]
      /\ Tail(events[q]) # << >> =>
           Tail(events[q])[Len(Tail(events[q]))] = events[q][Len(events[q])]
  BY <1>1, LastIs
<1> QED
  BY <1>1, <1>2, <1>3, <1>4, <1>5 DEF Cleared, Due, EndsLast, Over

LEMMA ClearedReply ==
  ASSUME TypeOK, NEW q \in Reqs, Cleared(q),
         HandleOffscreen(q) \/ Deliver(q) \/ DeliveryFails(q) \/ Return(q)
  PROVE  Cleared(q)'
<1>1. CASE HandleOffscreen(q)
  BY <1>1 DEF HandleOffscreen, Cleared, netVars
<1>2. CASE Deliver(q)
  <2>1. msg'[q] # Nothing /\ msg'[q].type = msg[q].type /\ msg[q] # Nothing
    <3>1. PICK m \in Messages : msg' = [msg EXCEPT ![q] = m] /\ m.type = msg[q].type
      BY <1>2, DeliverIs
    <3>2. m # Nothing
      BY NothingAssumption
    <3> QED
      BY <1>2, <3>1, <3>2, DeliverIs DEF TypeOK
  <2>2. UNCHANGED << engine, registered, injected, verified, net, events, failed, broken >>
    BY <1>2 DEF Deliver, netVars
  <2> QED
    BY <2>1, <2>2 DEF Cleared, Due, EndsLast, Over
<1>3. CASE DeliveryFails(q)
  BY <1>3 DEF DeliveryFails, Cleared, EndsLast, Over, netVars
<1>4. CASE Return(q)
  <2>1. UNCHANGED << engine, net, events, failed, broken >>
    BY <1>4 DEF Return
  <2>2. \/ q \notin registered' \cup injected' \cup verified'
        \/ engine = "offscreen" /\ UNCHANGED << registered, injected, verified >>
        \/ msg[q].type # "loadend" /\ UNCHANGED << registered, injected, verified >>
    BY <1>4 DEF Return, Clear, TypeOK
  <2> QED
    BY <2>1, <2>2 DEF Cleared, Due, EndsLast, Over
<1> QED
  BY <1>1, <1>2, <1>3, <1>4

LEMMA ClearedNext ==
  ASSUME TypeOK, [Next]_vars, NEW q \in Reqs, Unasked(q), Cleared(q)
  PROVE  Cleared(q)'
<1>0. engine' = engine
  BY Const
<1>1. CASE Navigate
  <2>1. UNCHANGED << engine, bgVars >>
    BY <1>1 DEF Navigate
  <2> QED
    BY <2>1 DEF Cleared, Due, EndsLast, Over, bgVars, netVars
<1>2. CASE PageInjected
  <2>1. AbortAll(Reqs) /\ UNCHANGED << engine, msg, failed, broken >>
    BY <1>2 DEF PageInjected
  <2> QED
    BY <2>1, ClearedAbort
<1>3. CASE Restart
  <2>1. engine = "offscreen" /\ UNCHANGED << engine, injected, verified >>
    BY <1>3 DEF Restart
  <2>2. net'[q] = At("orphan", 0) \/ net'[q] = net[q]
    BY <1>3 DEF Restart
  <2>3. net'[q].state = "orphan" \/ net'[q] = net[q]
    BY <2>2, AtIs
  <2> QED
    BY <2>1, <2>3 DEF Cleared
<1>4. ASSUME NEW r \in Reqs, Step(r) PROVE Cleared(q)'
  <2>1. CASE r = q
    BY <1>4, <2>1, ClearedStart, ClearedNet, ClearedHandle, ClearedReply DEF Step
  <2>2. CASE r # q
    <3>1. Same(q)
      BY <1>4, <2>2, OthersSame DEF Step
    <3> QED
      BY <1>0, <3>1, SameKeeps
  <2> QED
    BY <2>1, <2>2
<1>5. CASE UNCHANGED vars
  BY <1>5 DEF vars, Cleared, Due, EndsLast, Over
<1> QED
  BY <1>1, <1>2, <1>3, <1>4, <1>5 DEF Next, Step

LEMMA InitCleared == Init => \A r \in Reqs : Unasked(r) /\ Cleared(r)
<1> SUFFICES ASSUME Init, NEW r \in Reqs PROVE Unasked(r) /\ Cleared(r)
  OBVIOUS
<1>1. Fresh(r) /\ r \notin calls
  BY DEF Init, Fresh
<1>2. net[r].state = "none"
  BY <1>1, AtIs DEF Fresh
<1> QED
  BY <1>1, <1>2 DEF Unasked, Fresh, Cleared, Due, EndsLast, Over

(* However a request by XMLHttpRequest that is not refused ends or is      *)
(* aborted, and at whatever await, neither its entry nor its injector      *)
(* stays behind, unless its promise chain is broken; a request refused, or *)
(* made by the offscreen document, leaves no injector (clearRequest).      *)
THEOREM NothingStaysBehind == Spec => []LeavesNothingBehind
<1> DEFINE Inv == TypeOK /\ \A r \in Reqs : Unasked(r) /\ Cleared(r)
<1>1. Init => Inv
  BY InitType, InitCleared
<1>2. Inv /\ [Next]_vars => Inv'
  <2> SUFFICES ASSUME Inv, [Next]_vars PROVE Inv'
    OBVIOUS
  <2>1. TypeOK'
    BY NextType
  <2>2. ASSUME NEW r \in Reqs PROVE Unasked(r)' /\ Cleared(r)'
    BY UnaskedNext, ClearedNext
  <2> QED
    BY <2>1, <2>2
<1>3. Inv => LeavesNothingBehind
  <2> SUFFICES ASSUME Inv, NEW r \in Reqs, ~Active(r), r \notin broken
               PROVE  /\ r \notin injected \cup verified
                      /\ r \in registered => engine = "offscreen" \/ r \in failed
    BY DEF LeavesNothingBehind
  <2>1. Cleared(r) /\ ~Due(r)
    BY DEF Active, Due
  <2>2. engine = "xhr" \/ engine = "offscreen"
    BY DEF TypeOK
  <2> QED
    BY <2>1, <2>2 DEF Cleared
<1> QED
  BY <1>1, <1>2, <1>3, PTL DEF Spec

-----------------------------------------------------------------------------
(* The response is whole *)

Has(s) == \E i \in 1 .. Len(s) : s[i] = "load"

(* The page is still to be told of load.                                   *)
LoadDue(r) == Has(events[r]) \/ (msg[r] # Nothing /\ msg[r].type = "load")

(* What an XMLHttpRequest has: load comes only when it has all.            *)
Loads(r) ==
  /\ net[r].state # "orphan"
  /\ net[r].state \in {"none", "cookies", "aborted"} => net[r].got = 0
  /\ net[r].state = "done" => net[r].got = 0 \/ net[r].got = Units
  /\ LoadDue(r) => net[r].state = "done" /\ net[r].got = Units

LEMMA ConcatHas ==
  ASSUME NEW s \in Seq(Types), NEW t \in Seq(Types), Has(s \o t)
  PROVE  Has(s) \/ Has(t)
<1>1. PICK i \in 1 .. Len(s \o t) : (s \o t)[i] = "load"
  BY DEF Has
<1>2. /\ Len(s \o t) = Len(s) + Len(t) /\ Len(s) \in Nat /\ Len(t) \in Nat
      /\ \A j \in 1 .. Len(s) + Len(t) : (s \o t)[j] = IF j <= Len(s) THEN s[j] ELSE t[j - Len(s)]
  BY ConcatProperties, LenProperties
<1>3. CASE i <= Len(s)
  <2>1. i \in 1 .. Len(s) /\ s[i] = "load"
    BY <1>1, <1>2, <1>3
  <2> QED
    BY <2>1 DEF Has
<1>4. CASE ~(i <= Len(s))
  <2>1. i - Len(s) \in 1 .. Len(t) /\ t[i - Len(s)] = "load"
    BY <1>1, <1>2, <1>4
  <2> QED
    BY <2>1 DEF Has
<1> QED
  BY <1>3, <1>4

LEMMA NoLoad ==
  /\ ~Has(<< >>) /\ ~Has(<< "progress" >>) /\ ~Has(<< "readystatechange" >>)
  /\ ~Has(<< "loadend" >>) /\ ~Has(<< "error", "loadend" >>)
BY DEF Has

LEMMA QueueHas ==
  ASSUME TypeOK, NEW r \in Reqs, NEW early \in Seq(Types), NEW types \in Seq(Types),
         ~Has(events[r]), ~Has(early), ~Has(types)
  PROVE  ~Has(Queue(r, early, types))
<1> DEFINE more == IF opts[r].early THEN early ELSE << >>
           first == events[r] \o more
<1>1. events[r] \in Seq(Types) /\ more \in Seq(Types) /\ ~Has(more)
  BY EmptyIs, NoLoad DEF TypeOK
<1>2. first \in Seq(Types) /\ ~Has(first)
  <2> HIDE DEF more
  <2> QED
    BY <1>1, ConcatProperties, ConcatHas
<1>3. Queue(r, early, types) = first \o types
  BY DEF Queue
<1> HIDE DEF first
<1> QED
  BY <1>2, <1>3, ConcatHas

LEMMA TailHas ==
  ASSUME NEW s \in Seq(Types), s # << >>
  PROVE  /\ Has(Tail(s)) => Has(s)
         /\ Head(s) = "load" => Has(s)
<1>1. /\ Len(s) \in Nat \ {0} /\ Len(Tail(s)) = Len(s) - 1
      /\ \A i \in 1 .. Len(Tail(s)) : Tail(s)[i] = s[i + 1]
  BY EmptySeq, HeadTailProperties
<1>2. ASSUME NEW i \in 1 .. Len(Tail(s)), Tail(s)[i] = "load" PROVE Has(s)
  <2>1. i + 1 \in 1 .. Len(s) /\ s[i + 1] = "load"
    BY <1>1, <1>2
  <2> QED
    BY <2>1 DEF Has
<1>3. Head(s) = "load" => Has(s)
  <2>1. 1 \in 1 .. Len(s) /\ Head(s) = s[1]
    BY <1>1
  <2> QED
    BY <2>1 DEF Has
<1> QED
  BY <1>2, <1>3 DEF Has

LEMMA LoadsAbort ==
  ASSUME TypeOK, engine = "xhr", NEW q \in Reqs, Loads(q), NEW rs \in SUBSET Reqs, AbortAll(rs),
         UNCHANGED msg
  PROVE  Loads(q)'
<1>1. CASE net'[q] = net[q] /\ events'[q] = events[q]
  BY <1>1 DEF Loads, LoadDue
<1>2. CASE /\ net[q].state \in {"sent", "loading"} /\ net'[q] = At("aborted", 0)
           /\ events'[q] = Queue(q, << "readystatechange" >>, << "loadend" >>)
  <2>1. ~LoadDue(q)
    BY <1>2 DEF Loads
  <2>2. ~Has(events'[q])
    BY <1>2, <2>1, QueueHas, NoLoad, TypesSeqs DEF LoadDue
  <2>3. net'[q].state = "aborted" /\ net'[q].got = 0
    BY <1>2, AtIs
  <2> QED
    BY <2>1, <2>2, <2>3 DEF Loads, LoadDue
<1> QED
  BY <1>1, <1>2, AbortedIs

LEMMA LoadsStart ==
  ASSUME TypeOK, engine = "xhr", NEW q \in Reqs, Unasked(q), Loads(q),
         \/ Request(q) \/ Abort(q) \/ Start(q) \/ StartFails(q) \/ AbortArrives(q)
         \/ Cookies(q) \/ HeadersGo(q)
  PROVE  Loads(q)'
<1>1. CASE Request(q) \/ Abort(q) \/ HeadersGo(q)
  BY <1>1 DEF Request, Abort, HeadersGo, Loads, LoadDue, bgVars, netVars
<1>2. CASE Start(q)
  <2>1. Fresh(q)
    BY <1>2 DEF Start, Unasked
  <2> DEFINE s == IF engine = "xhr" /\ opts[q].cookies THEN "cookies" ELSE "sent"
  <2>2. net'[q] = At(s, 0) /\ events' = events /\ msg' = msg
    BY <1>2 DEF Start, TypeOK
  <2>3. net'[q].state = s /\ net'[q].got = 0
    BY <2>2, AtIs
  <2> QED
    BY <2>1, <2>2, <2>3, NoLoad DEF Fresh, Loads, LoadDue
<1>3. CASE StartFails(q)
  <2>1. Fresh(q)
    BY <1>3 DEF StartFails, Unasked
  <2>2. msg'[q] = Told("error", << >>) /\ net' = net /\ events' = events
    BY <1>3 DEF StartFails, TypeOK
  <2>3. msg'[q].type = "error"
    BY <2>2 DEF Told
  <2>4. net[q].state = "none" /\ net[q].got = 0
    BY <2>1, AtIs DEF Fresh
  <2> QED
    BY <2>1, <2>2, <2>3, <2>4, NoLoad DEF Fresh, Loads, LoadDue
<1>4. CASE AbortArrives(q)
  <2>1. AbortAll({q}) /\ UNCHANGED msg
    BY <1>4 DEF AbortArrives
  <2> QED
    BY <2>1, LoadsAbort
<1>5. CASE CookiesAnswered(q)
  <2>1. net'[q].state = "sent" /\ net[q].state = "cookies" /\ events' = events /\ msg' = msg
    BY <1>5, AtIs DEF CookiesAnswered, TypeOK
  <2> QED
    BY <2>1 DEF Loads, LoadDue
<1>6. CASE CookiesFail(q)
  <2>1. /\ net'[q].state = "none" /\ net'[q].got = 0 /\ net[q].state = "cookies"
        /\ events' = events
    BY <1>6, AtIs DEF CookiesFail, TypeOK
  <2>2. msg'[q] = Message(q, "error", << >>)
    BY <1>6 DEF CookiesFail, TypeOK
  <2>3. msg'[q] # Nothing => msg'[q].type = "error"
    BY <2>2 DEF Message, Told
  <2> QED
    BY <2>1, <2>3 DEF Loads, LoadDue
<1> QED
  BY <1>1, <1>2, <1>3, <1>4, <1>5, <1>6 DEF Cookies

LEMMA LoadsNet ==
  ASSUME TypeOK, engine = "xhr", NEW q \in Reqs, Loads(q),
         Receive(q) \/ Network(q) \/ OrphanEnds(q)
  PROVE  Loads(q)'
<1>1. CASE Receive(q)
  <2>1. /\ net'[q].state = "loading" /\ net[q].state \in {"sent", "loading"} /\ msg' = msg
        /\ events'[q] = Queue(q, << "progress" >>, << >>)
    BY <1>1, AtIs DEF Receive, TypeOK
  <2>2. ~LoadDue(q)
    BY <2>1 DEF Loads
  <2>3. ~Has(events'[q])
    BY <2>1, <2>2, QueueHas, NoLoad, TypesSeqs, EmptyIs DEF LoadDue
  <2> QED
    BY <2>1, <2>2, <2>3 DEF Loads, LoadDue
<1>2. CASE Complete(q)
  <2>1. net'[q].state = "done" /\ net'[q].got = Units
    BY <1>2, AtIs DEF Complete, TypeOK
  <2> QED
    BY <2>1 DEF Loads
<1>3. CASE Fail(q)
  <2>1. /\ net'[q].state = "done" /\ net'[q].got = 0 /\ net[q].state \in {"sent", "loading"}
        /\ msg' = msg
        /\ events'[q] = Queue(q, << "readystatechange" >>, << "error", "loadend" >>)
    BY <1>3, AtIs DEF Fail, TypeOK
  <2>2. ~LoadDue(q)
    BY <2>1 DEF Loads
  <2>3. ~Has(events'[q])
    BY <2>1, <2>2, QueueHas, NoLoad, TypesSeqs DEF LoadDue
  <2> QED
    BY <2>1, <2>2, <2>3 DEF Loads, LoadDue
<1>4. CASE OffscreenFails(q) \/ OrphanEnds(q)
  BY <1>4 DEF OffscreenFails, OrphanEnds, Loads
<1> QED
  BY <1>1, <1>2, <1>3, <1>4 DEF Network

LEMMA LoadsEvents ==
  ASSUME TypeOK, engine = "xhr", NEW q \in Reqs, Loads(q),
         HandleEvent(q) \/ HandleOffscreen(q) \/ Deliver(q) \/ DeliveryFails(q) \/ Return(q)
  PROVE  Loads(q)'
<1>1. CASE HandleEvent(q)
  <2>1. /\ net' = net /\ events[q] # << >> /\ events[q] \in Seq(Types)
        /\ events'[q] = Tail(events[q]) /\ msg'[q] = Message(q, Head(events[q]), Data(q))
    BY <1>1, HandleIs DEF TypeOK
  <2>3. msg'[q] # Nothing => msg'[q].type = Head(events[q])
    BY <2>1 DEF Message, Told
  <2>2. Has(Tail(events[q])) \/ Head(events[q]) = "load" => Has(events[q])
    BY <2>1, TailHas
  <2> QED
    BY <2>1, <2>2, <2>3 DEF Loads, LoadDue
<1>2. CASE HandleOffscreen(q)
  BY <1>2 DEF HandleOffscreen
<1>3. CASE Deliver(q)
  <2>1. msg'[q].type = msg[q].type /\ msg[q] # Nothing
    <3>1. PICK m \in Messages : msg' = [msg EXCEPT ![q] = m] /\ m.type = msg[q].type
      BY <1>3, DeliverIs
    <3> QED
      BY <1>3, <3>1, DeliverIs DEF TypeOK
  <2>2. net' = net /\ events' = events
    BY <1>3 DEF Deliver, netVars
  <2> QED
    BY <2>1, <2>2 DEF Loads, LoadDue
<1>4. CASE DeliveryFails(q) \/ Return(q)
  <2>1. net' = net /\ events' = events /\ msg'[q] = Nothing
    BY <1>4 DEF DeliveryFails, Return, netVars, TypeOK
  <2> QED
    BY <2>1 DEF Loads, LoadDue
<1> QED
  BY <1>1, <1>2, <1>3, <1>4

LEMMA LoadsNext ==
  ASSUME TypeOK, [Next]_vars, engine = "xhr", NEW q \in Reqs, Unasked(q), Loads(q)
  PROVE  Loads(q)'
<1>1. CASE Navigate \/ UNCHANGED vars
  BY <1>1 DEF Navigate, vars, Loads, LoadDue, bgVars, netVars
<1>2. CASE PageInjected
  <2>1. AbortAll(Reqs) /\ UNCHANGED msg
    BY <1>2 DEF PageInjected
  <2> QED
    BY <2>1, LoadsAbort
<1>3. CASE Restart
  BY <1>3 DEF Restart
<1>4. ASSUME NEW r \in Reqs, Step(r) PROVE Loads(q)'
  <2>1. CASE r = q
    BY <1>4, <2>1, LoadsStart, LoadsNet, LoadsEvents DEF Step
  <2>2. CASE r # q
    <3>1. Same(q)
      BY <1>4, <2>2, OthersSame DEF Step
    <3> QED
      BY <3>1 DEF Same, Loads, LoadDue
  <2> QED
    BY <2>1, <2>2
<1> QED
  BY <1>1, <1>2, <1>3, <1>4 DEF Next, Step

EndOnly  == << "loadend" >>
LoadEnd  == << "load", "loadend" >>
ErrorEnd == << "error", "loadend" >>

(* A response that was emptied by an error or an abort.                    *)
Dead(r) == (net[r].state = "done" \/ net[r].state = "aborted") /\ net[r].got = 0

(* xhrCallbackWrapper sends whatever it has read.                          *)
Reads(r) ==
  /\ stream[r].sent
  /\ stream[r].full <= Visible(r) \/ Dead(r)
  /\ opts[r].kind = "blob" => stream[r].full = 0 \/ stream[r].full = Units

(* Without listeners to early events there are only the last ones, and     *)
(* load is the one that reads the response.                                *)
Late(r) == ~opts[r].early =>
  /\ events[r] = << >> \/ events[r] = EndOnly \/ events[r] = LoadEnd \/ events[r] = ErrorEnd
  /\ net[r].state \in {"none", "cookies", "sent", "loading"} =>
       stream[r].full = 0 /\ events[r] = << >>
  /\ events[r] = EndOnly \/ events[r] = ErrorEnd => stream[r].full = Visible(r)
  /\ net[r].state = "aborted" => stream[r].full = 0

LEMMA EndsAre ==
  /\ EndOnly \in Seq(Types) /\ LoadEnd \in Seq(Types) /\ ErrorEnd \in Seq(Types)
  /\ EndOnly # << >> /\ LoadEnd # << >> /\ ErrorEnd # << >>
  /\ EndOnly # LoadEnd /\ ErrorEnd # LoadEnd /\ EndOnly # ErrorEnd
  /\ Head(EndOnly) = "loadend" /\ Head(LoadEnd) = "load" /\ Head(ErrorEnd) = "error"
  /\ Tail(EndOnly) = << >> /\ Tail(LoadEnd) = EndOnly /\ Tail(ErrorEnd) = EndOnly
BY DEF EndOnly, LoadEnd, ErrorEnd, Types

(* Every change of the response is sent at once.                           *)
LEMMA SendsAll ==
  ASSUME TypeOK, NEW q \in Reqs, ~Garbled(q), HandleEvent(q), Loads(q), Reads(q), Late(q),
         stream[q].full # Visible(q)
  PROVE  Sends(q)
<1>1. engine = "xhr" /\ events[q] # << >> /\ Changed(q).sent = FALSE
  BY HandleIs, ChangedIs
<1>2. CASE opts[q].early
  BY <1>1, <1>2 DEF Sends, Listened, Garbled
<1>3. CASE ~opts[q].early
  <2>1. events[q] = LoadEnd
    BY <1>1, <1>3 DEF Late
  <2>2. net[q].state = "done" \/ net[q].state = "aborted"
    BY <1>1, <1>3 DEF Late, Loads, TypeOK
  <2>3. net[q].state # "aborted"
    <3>1. net[q].state = "aborted" => stream[q].full = 0 /\ Visible(q) = 0
      BY <1>3 DEF Late, Loads, Visible
    <3> QED
      BY <3>1
  <2>4. Head(events[q]) = "load"
    BY <2>1, EndsAre
  <2> QED
    BY <1>1, <2>2, <2>3, <2>4 DEF Sends, Listened
<1> QED
  BY <1>2, <1>3

LEMMA ReadsHandle ==
  ASSUME TypeOK, NEW q \in Reqs, ~Garbled(q), HandleEvent(q), Loads(q), Reads(q), Late(q)
  PROVE  Reads(q)' /\ Late(q)'
<1>1. /\ stream'[q] = Streaming(q) /\ net' = net /\ opts' = opts /\ engine = "xhr"
      /\ events[q] # << >> /\ events'[q] = Tail(events[q])
  BY HandleIs DEF TypeOK
<1>2. stream'[q].full = Visible(q)
  <2>1. Changed(q).full = Visible(q)
    BY ChangedIs
  <2>2. Streaming(q).full = Changed(q).full
    BY DEF Streaming
  <2> QED
    BY <1>1, <2>1, <2>2
<1>3. stream'[q].sent
  <2>1. Changed(q).sent \/ Sends(q)
    <3>1. CASE stream[q].full = Visible(q)
      <4>1. Changed(q) = stream[q]
        BY <3>1, ChangedIs
      <4> QED
        BY <4>1 DEF Reads
    <3>2. CASE stream[q].full # Visible(q)
      BY <3>2, SendsAll
    <3> QED
      BY <3>1, <3>2
  <2>2. Streaming(q).sent
    BY <2>1 DEF Streaming
  <2> QED
    BY <1>1, <2>2
<1>4. Visible(q)' = Visible(q)
  BY <1>1 DEF Visible
<1>5. Visible(q) \in 0 .. Units
  BY VisibleIs
<1>6. opts[q].kind = "blob" => Visible(q) = 0 \/ Visible(q) = Units
  BY DEF Visible, Loads
<1>7. Reads(q)'
  BY <1>1, <1>2, <1>3, <1>4, <1>5, <1>6, RequestsAssumption DEF Reads
<1>8. Late(q)'
  <2> SUFFICES ASSUME ~opts[q].early PROVE Late(q)'
    BY <1>1 DEF Late
  <2>1. events'[q] = << >> \/ events'[q] = EndOnly
    BY <1>1, EndsAre DEF Late
  <2>2. net[q].state \notin {"none", "cookies", "sent", "loading"}
    BY <1>1 DEF Late
  <2>3. net[q].state = "aborted" => Visible(q) = 0
    BY DEF Loads, Visible
  <2> QED
    BY <1>1, <1>2, <1>4, <2>1, <2>2, <2>3 DEF Late
<1> QED
  BY <1>7, <1>8

(* The response changes while no event reads it.                           *)
LEMMA ReadsNet ==
  ASSUME TypeOK, NEW q \in Reqs, Loads(q), Reads(q), Late(q),
         NEW early \in Seq(Types), NEW types \in Seq(Types),
         net[q].state \in {"sent", "loading"}, opts' = opts, stream'[q] = stream[q],
         events'[q] = Queue(q, early, types),
         \/ types = << >> /\ net'[q].state = "loading" /\ net'[q].got = net[q].got + 1
         \/ types = EndOnly /\ net'[q].state = "aborted" /\ net'[q].got = 0
         \/ types = LoadEnd /\ net'[q].state = "done" /\ net'[q].got = Units
         \/ types = ErrorEnd /\ net'[q].state = "done" /\ net'[q].got = 0
  PROVE  Reads(q)' /\ Late(q)'
<1>1. /\ stream[q].full \in 0 .. Units /\ net[q].got \in 0 .. Units /\ ~Dead(q)
      /\ Visible(q) \in 0 .. Units
  BY VisibleIs DEF TypeOK, Dead
<1>2. stream[q].full <= Visible(q)
  BY <1>1 DEF Reads
<1>3. stream[q].full <= Visible(q)' \/ Dead(q)'
  <2>1. CASE net'[q].state = "loading" /\ net'[q].got = net[q].got + 1
    <3>1. opts[q].kind = "blob" => Visible(q) = 0 /\ Visible(q)' = 0
      BY <2>1 DEF Visible
    <3>2. opts[q].kind # "blob" => Visible(q) = net[q].got /\ Visible(q)' = net[q].got + 1
      BY <2>1 DEF Visible
    <3> QED
      BY <1>1, <1>2, <3>1, <3>2
  <2>2. CASE net'[q].state = "done" /\ net'[q].got = Units
    <3>1. Visible(q)' = Units
      BY <2>2 DEF Visible
    <3> QED
      BY <1>1, <3>1, RequestsAssumption
  <2>3. CASE (net'[q].state = "done" \/ net'[q].state = "aborted") /\ net'[q].got = 0
    BY <2>3 DEF Dead
  <2> QED
    BY <2>1, <2>2, <2>3
<1>4. Reads(q)'
  BY <1>3 DEF Reads
<1>5. Late(q)'
  <2> SUFFICES ASSUME ~opts[q].early PROVE Late(q)'
    BY DEF Late
  <2>1. stream[q].full = 0 /\ events[q] = << >>
    BY DEF Late
  <2>2. events'[q] = types
    BY <2>1, QueueIs
  <2>3. net'[q].got = 0 => Visible(q)' = 0
    BY DEF Visible
  <2> QED
    BY <2>1, <2>2, <2>3, EndsAre DEF Late
<1> QED
  BY <1>4, <1>5

LEMMA ReadsAbort ==
  ASSUME TypeOK, NEW q \in Reqs, Loads(q), Reads(q), Late(q), NEW rs \in SUBSET Reqs, AbortAll(rs),
         UNCHANGED << opts, stream >>
  PROVE  Reads(q)' /\ Late(q)'
<1>1. CASE net'[q] = net[q] /\ events'[q] = events[q]
  BY <1>1 DEF Reads, Late, Dead, Visible
<1>2. CASE /\ net[q].state \in {"sent", "loading"} /\ net'[q] = At("aborted", 0)
           /\ events'[q] = Queue(q, << "readystatechange" >>, << "loadend" >>)
  <2>1. net'[q].state = "aborted" /\ net'[q].got = 0
    BY <1>2, AtIs
  <2>2. << "readystatechange" >> \in Seq(Types) /\ EndOnly \in Seq(Types)
    BY TypesSeqs, EndsAre
  <2> DEFINE early == << "readystatechange" >>
  <2>3. events'[q] = Queue(q, early, EndOnly) /\ early \in Seq(Types)
    BY <1>2, <2>2 DEF EndOnly
  <2> HIDE DEF early
  <2> QED
    BY <1>2, <2>1, <2>2, <2>3, ReadsNet
<1> QED
  BY <1>1, <1>2, AbortedIs

LEMMA ReadsStart ==
  ASSUME TypeOK, engine = "xhr", NEW q \in Reqs, Unasked(q), Loads(q), Reads(q), Late(q),
         \/ Request(q) \/ Abort(q) \/ Start(q) \/ StartFails(q) \/ AbortArrives(q)
         \/ Cookies(q) \/ HeadersGo(q)
  PROVE  Reads(q)' /\ Late(q)'
<1>1. CASE Request(q) \/ Abort(q) \/ HeadersGo(q)
  BY <1>1 DEF Request, Abort, HeadersGo, Reads, Late, Dead, Visible, bgVars, netVars
<1>2. CASE Start(q)
  <2>1. Fresh(q)
    BY <1>2 DEF Start, Unasked
  <2> DEFINE s == IF engine = "xhr" /\ opts[q].cookies THEN "cookies" ELSE "sent"
  <2>2. net'[q] = At(s, 0) /\ events' = events /\ stream' = stream /\ opts' = opts
    BY <1>2 DEF Start, TypeOK
  <2>3. net'[q].state = s /\ net'[q].got = 0
    BY <2>2, AtIs
  <2>4. Visible(q)' = 0
    BY <2>3 DEF Visible
  <2>5. stream[q].full = 0 /\ events[q] = << >>
    BY <2>1 DEF Fresh, Unsent
  <2>6. Reads(q)'
    BY <2>2, <2>4, <2>5 DEF Reads
  <2>7. Late(q)'
    BY <2>2, <2>3, <2>4, <2>5 DEF Late
  <2> QED
    BY <2>6, <2>7
<1>3. CASE StartFails(q)
  BY <1>3 DEF StartFails, Reads, Late, Dead, Visible
<1>4. CASE AbortArrives(q)
  <2>1. AbortAll({q}) /\ UNCHANGED << opts, stream >>
    BY <1>4 DEF AbortArrives
  <2> QED
    BY <2>1, ReadsAbort
<1>5. ASSUME NEW s \in {"sent", "none"}, net[q].state = "cookies", net'[q] = At(s, 0),
             UNCHANGED << opts, events, stream >>
      PROVE  Reads(q)' /\ Late(q)'
  <2>1. net'[q].state = s /\ net'[q].got = 0 /\ net[q].got = 0
    BY <1>5, AtIs DEF Loads
  <2>2. Visible(q)' = 0 /\ Visible(q) = 0 /\ ~Dead(q)
    BY <1>5, <2>1 DEF Visible, Dead
  <2>3. stream[q].full = 0
    BY <2>2 DEF Reads, TypeOK
  <2>4. Reads(q)'
    BY <1>5, <2>2, <2>3 DEF Reads
  <2>5. Late(q)'
    BY <1>5, <2>1, <2>2, <2>3, EndsAre DEF Late
  <2> QED
    BY <2>4, <2>5
<1>6. CASE CookiesAnswered(q)
  BY <1>5, <1>6 DEF CookiesAnswered, TypeOK
<1>7. CASE CookiesFail(q)
  BY <1>5, <1>7 DEF CookiesFail, TypeOK
<1> QED
  BY <1>1, <1>2, <1>3, <1>4, <1>6, <1>7 DEF Cookies

LEMMA ReadsEnds ==
  ASSUME TypeOK, engine = "xhr", NEW q \in Reqs, Loads(q), Reads(q), Late(q),
         Receive(q) \/ Network(q) \/ OrphanEnds(q)
  PROVE  Reads(q)' /\ Late(q)'
<1>0. << "readystatechange" >> \in Seq(Types) /\ << "progress" >> \in Seq(Types)
  BY TypesSeqs
<1> DEFINE rsc == << "readystatechange" >>
           progress == << "progress" >>
<1>1. CASE Receive(q)
  <2>1. /\ net[q].state \in {"sent", "loading"} /\ opts' = opts /\ stream' = stream
        /\ events'[q] = Queue(q, progress, << >>)
        /\ net'[q].state = "loading" /\ net'[q].got = net[q].got + 1
    BY <1>1, AtIs DEF Receive, TypeOK
  <2>2. progress \in Seq(Types) /\ << >> \in Seq(Types)
    BY <1>0, EmptyIs
  <2> HIDE DEF progress
  <2> QED
    BY <2>1, <2>2, ReadsNet
<1>2. CASE Complete(q)
  <2>1. /\ net[q].state \in {"sent", "loading"} /\ opts' = opts /\ stream' = stream
        /\ events'[q] = Queue(q, rsc, LoadEnd)
        /\ net'[q].state = "done" /\ net'[q].got = Units
    BY <1>2, AtIs DEF Complete, TypeOK, LoadEnd
  <2>2. rsc \in Seq(Types) /\ LoadEnd \in Seq(Types)
    BY <1>0, EndsAre
  <2> HIDE DEF rsc
  <2> QED
    BY <2>1, <2>2, ReadsNet
<1>3. CASE Fail(q)
  <2>1. /\ net[q].state \in {"sent", "loading"} /\ opts' = opts /\ stream' = stream
        /\ events'[q] = Queue(q, rsc, ErrorEnd)
        /\ net'[q].state = "done" /\ net'[q].got = 0
    BY <1>3, AtIs DEF Fail, TypeOK, ErrorEnd
  <2>2. rsc \in Seq(Types) /\ ErrorEnd \in Seq(Types)
    BY <1>0, EndsAre
  <2> HIDE DEF rsc
  <2> QED
    BY <2>1, <2>2, ReadsNet
<1>4. CASE OffscreenFails(q) \/ OrphanEnds(q)
  BY <1>4 DEF OffscreenFails, OrphanEnds, Loads
<1> QED
  BY <1>1, <1>2, <1>3, <1>4 DEF Network

LEMMA ReadsNext ==
  ASSUME TypeOK, [Next]_vars, engine = "xhr", NEW q \in Reqs, ~Garbled(q),
         Unasked(q), Loads(q), Reads(q), Late(q)
  PROVE  Reads(q)' /\ Late(q)'
<1>0. opts' = opts
  BY Const
<1>1. CASE Navigate \/ UNCHANGED vars
  BY <1>1 DEF Navigate, vars, Reads, Late, Dead, Visible, bgVars, netVars
<1>2. CASE PageInjected
  <2>1. AbortAll(Reqs) /\ UNCHANGED << opts, stream >>
    BY <1>2 DEF PageInjected
  <2> QED
    BY <2>1, ReadsAbort
<1>3. CASE Restart
  BY <1>3 DEF Restart
<1>4. ASSUME NEW r \in Reqs, Step(r) PROVE Reads(q)' /\ Late(q)'
  <2>1. CASE r = q
    <3>1. CASE Deliver(q) \/ DeliveryFails(q) \/ Return(q)
      <4>1. UNCHANGED << opts, net, events, stream >>
        BY <3>1 DEF Deliver, DeliveryFails, Return, netVars
      <4> QED
        BY <4>1 DEF Reads, Late, Dead, Visible
    <3>2. CASE HandleOffscreen(q)
      BY <3>2 DEF HandleOffscreen
    <3> QED
      BY <1>4, <2>1, <3>1, <3>2, ReadsStart, ReadsEnds, ReadsHandle DEF Step
  <2>2. CASE r # q
    <3>1. Same(q)
      BY <1>4, <2>2, OthersSame DEF Step
    <3> QED
      BY <1>0, <3>1 DEF Same, Reads, Late, Dead, Visible
  <2> QED
    BY <2>1, <2>2
<1> QED
  BY <1>1, <1>2, <1>3, <1>4 DEF Next, Step

Had(r)     == Len(web[r].raw)
Pending(r) == msg[r] # Nothing /\ ~msg[r].back
Carries(r) == Pending(r) /\ msg[r].data # << >>

(* What the page has is a beginning of the response.                       *)
Begins(r) ==
  /\ Had(r) \in 0 .. Units
  /\ web[r].raw = SubSeq(Response, 1, Had(r))
  /\ "load" \in web[r].told => Had(r) = Units

(* The page has what was read, but for the message on its way: that goes   *)
(* on where the page is, and load finds everything read.                   *)
Arrives(r) == web[r].open =>
  /\ Carries(r) => /\ msg[r].data = SubSeq(Response, stream[r].from, stream[r].full)
                   /\ Had(r) = stream[r].from - 1 /\ stream[r].from <= stream[r].full
                   /\ opts[r].kind = "blob" => stream[r].from = 1
                   /\ Listened(r, msg[r].type)
  /\ r \in registered /\ r \notin broken /\ ~Carries(r) => Had(r) = stream[r].full \/ Dead(r)
  /\ Pending(r) /\ msg[r].type = "load" =>
       stream[r].full = Units /\ (Carries(r) \/ Had(r) = Units)

LEMMA ArrivesSame ==
  ASSUME NEW q \in Reqs, Arrives(q), Begins(q),
         msg'[q] = msg[q], web'[q] = web[q], stream'[q] = stream[q], opts' = opts,
         q \in registered' => q \in registered, q \in broken => q \in broken',
         Dead(q) => Dead(q)'
  PROVE  Arrives(q)' /\ Begins(q)'
<1>1. Had(q)' = Had(q) /\ (Pending(q)' <=> Pending(q)) /\ (Carries(q)' <=> Carries(q))
  BY DEF Had, Pending, Carries
<1>2. Response' = Response
  BY DEF Response
<1>3. Begins(q)'
  BY <1>1, <1>2 DEF Begins
<1>4. Arrives(q)'
  BY <1>1, <1>2 DEF Arrives, Listened
<1> QED
  BY <1>3, <1>4

LEMMA ArrivesAbort ==
  ASSUME TypeOK, NEW q \in Reqs, Arrives(q), Begins(q), NEW rs \in SUBSET Reqs, AbortAll(rs),
         UNCHANGED << opts, stream, msg, web, broken >>
  PROVE  Arrives(q)' /\ Begins(q)'
<1>1. q \in registered' => q \in registered
  BY DEF AbortAll, Clear
<1>2. Dead(q) => Dead(q)'
  <2>1. CASE net'[q] = net[q]
    BY <2>1 DEF Dead
  <2>2. CASE net[q].state \in {"sent", "loading"}
    BY <2>2 DEF Dead
  <2> QED
    BY <2>1, <2>2, AbortedIs
<1> QED
  BY <1>1, <1>2, ArrivesSame

(* Nothing is on its way and nothing was read.                             *)
LEMMA ArrivesNothing ==
  ASSUME TypeOK, NEW q \in Reqs, Begins(q),
         web'[q].raw = web[q].raw, web'[q].told = web[q].told,
         stream'[q] = stream[q],
         msg'[q] = Nothing \/ (msg'[q].data = << >> /\ msg'[q].type # "load"),
         Had(q) = stream[q].full \/ q \notin registered' \/ q \in broken' \/ Dead(q)'
  PROVE  Arrives(q)' /\ Begins(q)'
<1>1. Had(q)' = Had(q) /\ ~Carries(q)' /\ ~(Pending(q)' /\ msg'[q].type = "load")
  BY DEF Had, Carries, Pending
<1>2. Response' = Response
  BY DEF Response
<1>3. Begins(q)'
  BY <1>1, <1>2 DEF Begins
<1>4. Arrives(q)'
  BY <1>1 DEF Arrives
<1> QED
  BY <1>3, <1>4

LEMMA EmptyHad == ASSUME NEW r, web[r].raw = << >> PROVE Had(r) = 0
BY DEF Had

LEMMA ArrivesStart ==
  ASSUME TypeOK, engine = "xhr", NEW q \in Reqs, Unasked(q), Loads(q), Reads(q),
         Arrives(q), Begins(q),
         \/ Request(q) \/ Abort(q) \/ Start(q) \/ StartFails(q) \/ AbortArrives(q)
         \/ Cookies(q) \/ HeadersGo(q)
  PROVE  Arrives(q)' /\ Begins(q)'
<1>1. CASE Request(q)
  <2>1. Fresh(q)
    BY <1>1 DEF Request, Unasked
  <2>2. web'[q].raw = web[q].raw /\ web'[q].told = web[q].told
    <3>1. [web[q] EXCEPT !.open = TRUE].raw = web[q].raw
          /\ [web[q] EXCEPT !.open = TRUE].told = web[q].told
      BY DEF TypeOK
    <3> QED
      BY <1>1, <3>1 DEF Request, TypeOK
  <2>3. stream' = stream /\ msg' = msg
    BY <1>1 DEF Request, bgVars
  <2>4. stream[q].full = 0 /\ msg[q] = Nothing /\ Had(q) = 0
    BY <2>1, EmptyHad DEF Fresh, Unsent
  <2> QED
    BY <2>2, <2>3, <2>4, ArrivesNothing
<1>2. CASE Abort(q) \/ HeadersGo(q)
  <2>1. UNCHANGED << opts, msg, web, stream, registered, broken, net >>
    BY <1>2 DEF Abort, HeadersGo, bgVars, netVars, pageVars
  <2> QED
    BY <2>1, ArrivesSame DEF Dead
<1>3. CASE Start(q)
  <2>1. Fresh(q) /\ stream' = stream /\ msg' = msg /\ web' = web
    BY <1>3 DEF Start, Unasked
  <2>2. stream[q].full = 0 /\ msg[q] = Nothing /\ Had(q) = 0
    BY <2>1, EmptyHad DEF Fresh, Unsent
  <2> QED
    BY <2>1, <2>2, ArrivesNothing
<1>4. CASE StartFails(q)
  <2>1. Fresh(q) /\ stream' = stream /\ web' = web /\ msg'[q] = Told("error", << >>)
    BY <1>4 DEF StartFails, Unasked, TypeOK
  <2>2. stream[q].full = 0 /\ Had(q) = 0
    BY <2>1, EmptyHad DEF Fresh, Unsent
  <2>3. msg'[q].data = << >> /\ msg'[q].type # "load"
    BY <2>1 DEF Told
  <2> QED
    BY <2>1, <2>2, <2>3, ArrivesNothing
<1>5. CASE AbortArrives(q)
  <2>1. AbortAll({q}) /\ UNCHANGED << opts, stream, msg, web, broken >>
    BY <1>5 DEF AbortArrives
  <2> QED
    BY <2>1, ArrivesAbort
<1>6. CASE CookiesAnswered(q)
  <2>1. /\ net[q].state = "cookies"
        /\ UNCHANGED << opts, msg, web, stream, registered, broken >>
    BY <1>6 DEF CookiesAnswered, pageVars
  <2>2. ~Dead(q)
    BY <2>1 DEF Dead
  <2> QED
    BY <2>1, <2>2, ArrivesSame
<1>7. CASE CookiesFail(q)
  <2>1. /\ net[q].state = "cookies" /\ msg'[q] = Message(q, "error", << >>)
        /\ UNCHANGED << opts, web, stream, registered, broken >>
    BY <1>7 DEF CookiesFail, pageVars, TypeOK
  <2>2. msg'[q] = Nothing \/ (msg'[q].data = << >> /\ msg'[q].type # "load")
    BY <2>1 DEF Message, Told
  <2>3. ~Dead(q) /\ Visible(q) = 0 /\ net[q].got = 0
    BY <2>1 DEF Dead, Loads, Visible
  <2>4. stream[q].full = 0 /\ stream[q].from >= 1
    BY <2>3 DEF Reads, TypeOK
  <2>5. web[q].open => ~Carries(q)
    BY <2>4 DEF Arrives, TypeOK
  <2>6. CASE web[q].open
    <3>1. Had(q) = stream[q].full \/ q \notin registered' \/ q \in broken'
      BY <2>1, <2>3, <2>5, <2>6 DEF Arrives
    <3> QED
      BY <2>1, <2>2, <3>1, ArrivesNothing
  <2>7. CASE ~web[q].open
    <3>1. Arrives(q)'
      BY <2>1, <2>7 DEF Arrives
    <3>2. Begins(q)'
      BY <2>1 DEF Begins, Had, Response
    <3> QED
      BY <3>1, <3>2
  <2> QED
    BY <2>6, <2>7
<1> QED
  BY <1>1, <1>2, <1>3, <1>4, <1>5, <1>6, <1>7 DEF Cookies

LEMMA ArrivesNet ==
  ASSUME TypeOK, engine = "xhr", NEW q \in Reqs, Loads(q), Arrives(q), Begins(q),
         Receive(q) \/ Network(q) \/ OrphanEnds(q)
  PROVE  Arrives(q)' /\ Begins(q)'
<1>1. /\ net[q].state \in {"sent", "loading"}
      /\ UNCHANGED << opts, msg, web, stream, registered, broken >>
  BY DEF Receive, Network, Complete, Fail, OffscreenFails, OrphanEnds, Loads, pageVars
<1>2. ~Dead(q)
  BY <1>1 DEF Dead
<1> QED
  BY <1>1, <1>2, ArrivesSame

LEMMA PartLen ==
  ASSUME NEW m \in 1 .. Units + 1, NEW n \in 0 .. Units
  PROVE  /\ Len(SubSeq(Response, m, n)) = IF m <= n THEN n - m + 1 ELSE 0
         /\ m <= n => SubSeq(Response, m, n) # << >>
         /\ n < m => SubSeq(Response, m, n) = << >>
<1>1. \A i \in m .. n : Response[i] \in 1 .. Units
  BY ResponseIs, RequestsAssumption
<1>2. m \in Int /\ n \in Int
  BY RequestsAssumption
<1>3. Len(SubSeq(Response, m, n)) = IF m <= n THEN n - m + 1 ELSE 0
  BY <1>1, <1>2, SubSeqProperties
<1>4. m <= n => SubSeq(Response, m, n) # << >>
  <2>1. Len(<< >>) = 0
    OBVIOUS
  <2>2. m <= n => n - m + 1 # 0
    BY <1>2
  <2> QED
    BY <1>3, <2>1, <2>2
<1>5. n < m => SubSeq(Response, m, n) = << >>
  BY <1>2, SubSeqEmpty
<1> QED
  BY <1>3, <1>4, <1>5

LEMMA PartsJoin ==
  ASSUME NEW k \in 0 .. Units, NEW n \in k .. Units
  PROVE  SubSeq(Response, 1, k) \o SubSeq(Response, k + 1, n) = SubSeq(Response, 1, n)
<1>1. Response \in Seq(1 .. Units) /\ Len(Response) = Units
  BY ResponseIs
<1>2. 1 \in 1 .. Len(Response) + 1 /\ k \in 1 - 1 .. Len(Response) /\ n \in k .. Len(Response)
  BY <1>1, RequestsAssumption
<1> QED
  BY <1>1, <1>2, ConcatAdjacentSubSeq

(* An event sends what is new of the response, if anything is.             *)
LEMMA ArrivesHandle ==
  ASSUME TypeOK, NEW q \in Reqs, ~Garbled(q), HandleEvent(q), Loads(q), Reads(q), Late(q),
         Arrives(q), Begins(q)
  PROVE  Arrives(q)' /\ Begins(q)'
<1>1. /\ stream'[q] = Streaming(q) /\ net' = net /\ opts' = opts /\ web' = web /\ broken' = broken
      /\ engine = "xhr" /\ msg[q] = Nothing /\ q \notin broken
      /\ events[q] # << >> /\ events[q] \in Seq(Types)
      /\ msg'[q] = Message(q, Head(events[q]), Data(q))
  BY HandleIs DEF TypeOK, pageVars
<1>2. q \in registered' => q \in registered
  BY HandleIs DEF Clear
<1>3. Response' = Response /\ Had(q)' = Had(q)
  BY <1>1 DEF Response, Had
<1>4. Begins(q)'
  BY <1>1, <1>3 DEF Begins
<1>5. Arrives(q)'
  <2> SUFFICES ASSUME web[q].open, q \in registered PROVE Arrives(q)'
    <3>1. q \notin registered => msg'[q] = Nothing /\ q \notin registered'
      BY <1>1, <1>2 DEF Message
    <3> QED
      BY <1>1, <3>1 DEF Arrives, Carries, Pending
  <2>1. Had(q) = stream[q].full \/ Dead(q)
    BY <1>1 DEF Arrives, Carries, Pending
  <2>2. msg'[q].type = Head(events[q]) /\ msg'[q].data = Data(q)
    BY <1>1 DEF Message, Told
  <2>3. Dead(q)' <=> Dead(q)
    BY <1>1 DEF Dead
  <2>4. Visible(q) \in 0 .. Units /\ stream[q].full \in 0 .. Units
    BY VisibleIs DEF TypeOK
  <2>5. Head(events[q]) = "load" => Visible(q) = Units /\ ~Dead(q)
    <3>1. Head(events[q]) = "load" => net[q].state = "done" /\ net[q].got = Units
      BY <1>1, TailHas DEF Loads, LoadDue
    <3> QED
      BY <3>1, RequestsAssumption DEF Visible, Dead
  <2>6. stream'[q].full = Visible(q)
    <3>1. Changed(q).full = Visible(q)
      BY ChangedIs
    <3> QED
      BY <1>1, <3>1 DEF Streaming
  <2>7. CASE stream[q].full = Visible(q)
    <3>1. ~Sends(q)
      <4>1. Changed(q) = stream[q]
        BY <2>7, ChangedIs
      <4> QED
        BY <4>1 DEF Reads, Sends
    <3>2. ~Carries(q)'
      BY <2>2, <3>1 DEF Data, Carries
    <3> QED
      BY <1>3, <2>1, <2>2, <2>3, <2>5, <2>6, <2>7, <3>2 DEF Arrives
  <2>8. CASE stream[q].full # Visible(q)
    <3>1. Sends(q)
      BY <2>8, SendsAll
    <3>2. Changed(q).full = Visible(q) /\ Changed(q).from = stream[q].full + 1
      BY <2>8, ChangedIs
    <3>3. stream'[q].from = stream[q].full + 1
      BY <1>1, <3>2 DEF Streaming
    <3>4. msg'[q].data = SubSeq(Response, stream[q].full + 1, Visible(q))
      BY <2>2, <3>1, <3>2 DEF Data
    <3>5. stream[q].full + 1 \in 1 .. Units + 1
      BY <2>4, RequestsAssumption
    <3>6. CASE Dead(q)
      <4>1. Visible(q) = 0
        BY <3>6 DEF Dead, Visible
      <4>2. msg'[q].data = << >>
        <5>1. Visible(q) < stream[q].full + 1
          BY <2>4, <4>1
        <5> QED
          BY <2>4, <3>4, <3>5, <5>1, PartLen
      <4>3. ~Carries(q)'
        BY <4>2 DEF Carries
      <4> QED
        BY <2>2, <2>3, <2>5, <3>6, <4>3 DEF Arrives
    <3>7. CASE ~Dead(q)
      <4>1. stream[q].full < Visible(q) /\ Had(q) = stream[q].full
        BY <2>1, <2>4, <2>8, <3>7 DEF Reads
      <4>2. opts[q].kind = "blob" => stream[q].full = 0
        BY <2>4, <4>1 DEF Reads
      <4>3. Listened(q, Head(events[q]))
        BY <3>1 DEF Sends
      <4>4. /\ msg'[q].data = SubSeq(Response, stream'[q].from, stream'[q].full)
            /\ Had(q) = stream'[q].from - 1 /\ stream'[q].from <= stream'[q].full
            /\ opts[q].kind = "blob" => stream'[q].from = 1
        BY <2>4, <2>6, <3>3, <3>4, <4>1, <4>2
      <4>5. msg'[q].data # << >>
        <5>1. stream[q].full + 1 <= Visible(q)
          BY <2>4, <4>1
        <5> QED
          BY <2>4, <3>4, <3>5, <5>1, PartLen
      <4>6. Carries(q)'
        <5>1. msg'[q] = Told(Head(events[q]), Data(q))
          BY <1>1 DEF Message
        <5> DEFINE t == Head(events[q])
                   x == Data(q)
        <5>2. t \in Types /\ x \in Seq(1 .. Units) /\ msg'[q] = Told(t, x)
          BY <5>1, HandleIs
        <5> HIDE DEF t, x
        <5>3. Told(t, x) # Nothing /\ Told(t, x).back = FALSE
          BY <5>2, ToldIs
        <5>4. msg'[q] # Nothing /\ ~msg'[q].back
          BY <5>2, <5>3
        <5> QED
          BY <4>5, <5>4 DEF Carries, Pending
      <4>7. Listened(q, msg[q].type)'
        <5>1. msg'[q].type = Head(events[q])
          BY <2>2
        <5>2. opts' = opts
          BY <1>1
        <5> QED
          BY <4>3, <5>1, <5>2 DEF Listened
      <4>8. msg'[q].type = "load" => stream'[q].full = Units
        BY <2>2, <2>5, <2>6
      <4> QED
        BY <1>1, <1>3, <4>4, <4>6, <4>7, <4>8 DEF Arrives
    <3> QED
      BY <3>6, <3>7
  <2> QED
    BY <2>7, <2>8
<1> QED
  BY <1>4, <1>5

(* What is not garbled and yet takes the place of what was there is a blob. *)
LEMMA ReplacesBlob ==
  ASSUME TypeOK, engine = "xhr", NEW q \in Reqs, ~Garbled(q)
  PROVE  opts[q].kind = "blob" <=> Replaces(q)
<1>1. opts[q].kind \in {"text", "json", "blob"} /\ (opts[q].reads => opts[q].early)
  BY DEF TypeOK, Options, Kinds
<1> QED
  BY <1>1 DEF Garbled, Replaces

(* The page appends what goes on where it is.                              *)
LEMMA ArrivesDeliver ==
  ASSUME TypeOK, engine = "xhr", NEW q \in Reqs, ~Garbled(q), Deliver(q), Arrives(q), Begins(q)
  PROVE  Arrives(q)' /\ Begins(q)'
<1>1. /\ web'[q] = Heard(q) /\ Pending(q)
      /\ UNCHANGED << opts, stream, net, registered, broken >>
  BY DeliverIs DEF TypeOK, Pending, netVars
<1>2. ~Pending(q)'
  <2>1. PICK m \in Messages : msg' = [msg EXCEPT ![q] = m] /\ m.type = msg[q].type /\ m.back
    BY DeliverIs
  <2>2. msg'[q] = m
    BY <2>1 DEF TypeOK
  <2> QED
    BY <2>1, <2>2 DEF Pending
<1>3. Response' = Response
  BY DEF Response
<1>4. /\ web'[q].raw = Raw(q)
      /\ web'[q].told = IF Hears(q) THEN web[q].told \cup {msg[q].type} ELSE web[q].told
      /\ web'[q].open => web[q].open
  <2>1. /\ Heard(q).raw = Raw(q)
        /\ Heard(q).told = IF Hears(q) THEN web[q].told \cup {msg[q].type} ELSE web[q].told
    BY DEF Heard
  <2>2. Heard(q).open => web[q].open
    BY DEF Heard
  <2>3. web'[q] = Heard(q)
    BY <1>1
  <2> QED
    BY <2>1, <2>2, <2>3
<1>5. stream[q].full \in 0 .. Units /\ stream[q].from \in 1 .. Units + 1
  BY DEF TypeOK
<1>6. CASE web[q].open /\ Carries(q)
  <2>1. /\ msg[q].data = SubSeq(Response, stream[q].from, stream[q].full)
        /\ Had(q) = stream[q].from - 1 /\ stream[q].from <= stream[q].full
        /\ opts[q].kind = "blob" => stream[q].from = 1
        /\ Hears(q) /\ msg[q].data # << >>
    BY <1>6 DEF Arrives, Hears, Carries
  <2>2. Raw(q) = SubSeq(Response, 1, stream[q].full)
    <3> opts[q].kind = "blob" <=> Replaces(q)
      BY ReplacesBlob
    <3>1. CASE Replaces(q)
      BY <2>1, <3>1 DEF Raw
    <3>2. CASE ~Replaces(q)
      <4>1. Raw(q) = SubSeq(Response, 1, Had(q)) \o SubSeq(Response, Had(q) + 1, stream[q].full)
        <5>1. Raw(q) = web[q].raw \o msg[q].data
          BY <2>1, <3>2 DEF Raw
        <5>2. Had(q) + 1 = stream[q].from
          BY <1>5, <2>1
        <5> QED
          BY <2>1, <5>1, <5>2 DEF Begins
      <4>2. Had(q) \in 0 .. Units /\ stream[q].full \in Had(q) .. Units
        BY <1>5, <2>1, RequestsAssumption
      <4> DEFINE k == Had(q)
                 n == stream[q].full
      <4>3. k \in 0 .. Units /\ n \in k .. Units
        BY <4>2
      <4> HIDE DEF k, n
      <4>4. SubSeq(Response, 1, k) \o SubSeq(Response, k + 1, n) = SubSeq(Response, 1, n)
        BY <4>3, PartsJoin
      <4> QED
        BY <4>1, <4>4 DEF k, n
    <3> QED
      BY <3>1, <3>2
  <2>3. Had(q)' = stream[q].full
    <3>1. 1 \in 1 .. Units + 1
      BY RequestsAssumption
    <3>2. Len(SubSeq(Response, 1, stream[q].full)) = stream[q].full
      BY <1>5, <2>1, <3>1, PartLen
    <3> QED
      BY <1>4, <2>2, <3>2 DEF Had
  <2>4. "load" \in web'[q].told => stream[q].full = Units
    <3>1. "load" \notin web[q].told
      BY <1>5, <2>1, RequestsAssumption DEF Begins
    <3>2. "load" \in web'[q].told => msg[q].type = "load"
      BY <1>4, <3>1
    <3> QED
      BY <1>1, <1>6, <3>2 DEF Arrives
  <2>5. Begins(q)'
    BY <1>3, <1>4, <1>5, <2>2, <2>3, <2>4 DEF Begins
  <2>6. Arrives(q)'
    BY <1>1, <1>2, <2>3 DEF Arrives, Carries
  <2> QED
    BY <2>5, <2>6
<1>7. CASE web[q].open /\ ~Carries(q)
  <2>1. web'[q].raw = web[q].raw
    BY <1>1, <1>4, <1>7 DEF Raw, Carries
  <2>2. Had(q)' = Had(q)
    BY <2>1 DEF Had
  <2>3. "load" \in web'[q].told => Had(q) = Units
    BY <1>1, <1>4, <1>7 DEF Begins, Arrives
  <2>4. Begins(q)'
    BY <1>3, <2>1, <2>2, <2>3 DEF Begins
  <2>5. Arrives(q)'
    <3>1. Dead(q)' <=> Dead(q)
      BY <1>1 DEF Dead
    <3> QED
      BY <1>1, <1>2, <1>7, <2>2, <3>1 DEF Arrives, Carries
  <2> QED
    BY <2>4, <2>5
<1>8. CASE ~web[q].open
  <2>1. web'[q].raw = web[q].raw /\ web'[q].told = web[q].told /\ ~web'[q].open
    BY <1>4, <1>8 DEF Raw, Hears
  <2>2. Begins(q)'
    BY <1>3, <2>1 DEF Begins, Had
  <2> QED
    BY <2>1, <2>2 DEF Arrives
<1> QED
  BY <1>6, <1>7, <1>8

LEMMA ArrivesReply ==
  ASSUME TypeOK, NEW q \in Reqs, Arrives(q), Begins(q), DeliveryFails(q) \/ Return(q)
  PROVE  Arrives(q)' /\ Begins(q)'
<1>1. UNCHANGED << net, opts, stream, web >> /\ msg'[q] = Nothing
  BY DEF DeliveryFails, Return, netVars, pageVars, TypeOK
<1>2. CASE DeliveryFails(q)
  <2>1. q \in broken'
    BY <1>2 DEF DeliveryFails
  <2> QED
    BY <1>1, <2>1, ArrivesNothing
<1>3. CASE Return(q)
  <2>1. ~Carries(q) /\ (q \in registered' => q \in registered) /\ broken' = broken
    BY <1>3 DEF Return, Carries, Pending, Clear
  <2>2. Dead(q)' <=> Dead(q)
    BY <1>1 DEF Dead
  <2>3. Had(q)' = Had(q) /\ ~Carries(q)' /\ ~Pending(q)' /\ Response' = Response
    BY <1>1 DEF Had, Carries, Pending, Response
  <2>4. Begins(q)'
    BY <1>1, <2>3 DEF Begins
  <2>5. Arrives(q)'
    BY <1>1, <2>1, <2>2, <2>3 DEF Arrives
  <2> QED
    BY <2>4, <2>5
<1> QED
  BY <1>2, <1>3

LEMMA ArrivesNext ==
  ASSUME TypeOK, [Next]_vars, engine = "xhr", NEW q \in Reqs, ~Garbled(q),
         Unasked(q), Loads(q), Reads(q), Late(q), Arrives(q), Begins(q)
  PROVE  Arrives(q)' /\ Begins(q)'
<1>0. opts' = opts
  BY Const
<1>1. CASE Navigate
  <2>1. web'[q].raw = web[q].raw /\ web'[q].told = web[q].told /\ ~web'[q].open
    <3>1. LET w == [web[q] EXCEPT !.open = FALSE]
          IN w.raw = web[q].raw /\ w.told = web[q].told /\ ~w.open
      BY DEF TypeOK
    <3> QED
      BY <1>1, <3>1 DEF Navigate
  <2>2. Begins(q)'
    BY <2>1 DEF Begins, Had, Response
  <2>3. Arrives(q)'
    BY <2>1 DEF Arrives
  <2> QED
    BY <2>2, <2>3
<1>2. CASE PageInjected
  <2>1. AbortAll(Reqs) /\ UNCHANGED << opts, stream, msg, web, broken >>
    BY <1>2 DEF PageInjected, pageVars
  <2> QED
    BY <2>1, ArrivesAbort
<1>3. CASE Restart
  BY <1>3 DEF Restart
<1>4. ASSUME NEW r \in Reqs, Step(r) PROVE Arrives(q)' /\ Begins(q)'
  <2>1. CASE r = q
    <3>1. CASE HandleOffscreen(q)
      BY <3>1 DEF HandleOffscreen
    <3> QED
      BY <1>4, <2>1, <3>1, ArrivesStart, ArrivesNet, ArrivesHandle, ArrivesDeliver, ArrivesReply
      DEF Step
  <2>2. CASE r # q
    <3>1. Same(q)
      BY <1>4, <2>2, OthersSame DEF Step
    <3>2. Dead(q) => Dead(q)'
      BY <3>1 DEF Same, Dead
    <3>3. /\ msg'[q] = msg[q] /\ web'[q] = web[q] /\ stream'[q] = stream[q]
          /\ (q \in registered' => q \in registered) /\ (q \in broken => q \in broken')
      BY <3>1 DEF Same
    <3> QED
      BY <1>0, <3>2, <3>3, ArrivesSame
  <2> QED
    BY <2>1, <2>2
<1>5. CASE UNCHANGED vars
  <2>1. UNCHANGED << net, msg, web, stream, registered, broken >>
    BY <1>5 DEF vars
  <2>2. Dead(q) => Dead(q)'
    BY <2>1 DEF Dead
  <2> QED
    BY <1>0, <2>1, <2>2, ArrivesSame
<1> QED
  BY <1>1, <1>2, <1>3, <1>4, <1>5 DEF Next, Step

(* By way of the offscreen document the whole response comes with load.    *)
Answered(r) ==
  /\ net[r].state \in {"none", "sent", "done", "orphan"}
  /\ events[r] = << >> \/ events[r] = EndOnly \/ events[r] = LoadEnd
  /\ msg[r] # Nothing => \/ msg[r].type = "load" /\ msg[r].data = Response
                         \/ msg[r].type = "error" /\ msg[r].data = << >>
                         \/ msg[r].type = "loadend"
  /\ net[r].state = "sent" => events[r] = << >> /\ msg[r] = Nothing
  /\ Pending(r) /\ msg[r].type = "load" => events[r] # LoadEnd
  /\ \/ net[r].state = "sent"
     \/ events[r] = LoadEnd
     \/ Pending(r) /\ msg[r].type = "load"
     => web[r].raw = << >>

LEMMA AnsweredSame ==
  ASSUME NEW q \in Reqs, Answered(q), Begins(q),
         net'[q] = net[q], events'[q] = events[q], msg'[q] = msg[q],
         web'[q].raw = web[q].raw, web'[q].told = web[q].told
  PROVE  Answered(q)' /\ Begins(q)'
<1>1. Response' = Response
  BY DEF Response
<1>2. Begins(q)'
  BY <1>1 DEF Begins, Had
<1>3. Answered(q)'
  BY <1>1 DEF Answered, Pending
<1> QED
  BY <1>2, <1>3

LEMMA AnsweredAbort ==
  ASSUME TypeOK, engine = "offscreen", NEW q \in Reqs, Answered(q), Begins(q),
         NEW rs \in SUBSET Reqs, AbortAll(rs), UNCHANGED << msg, web >>
  PROVE  Answered(q)' /\ Begins(q)'
<1>1. net'[q] = net[q] /\ events'[q] = events[q]
  BY AbortedIs
<1> QED
  BY <1>1, AnsweredSame

LEMMA AnsweredStart ==
  ASSUME TypeOK, engine = "offscreen", NEW q \in Reqs, Unasked(q), Answered(q), Begins(q),
         \/ Request(q) \/ Abort(q) \/ Start(q) \/ StartFails(q) \/ AbortArrives(q)
         \/ Cookies(q) \/ HeadersGo(q)
  PROVE  Answered(q)' /\ Begins(q)'
<1>1. CASE Request(q)
  <2>1. web'[q].raw = web[q].raw /\ web'[q].told = web[q].told
    <3>1. [web[q] EXCEPT !.open = TRUE].raw = web[q].raw
          /\ [web[q] EXCEPT !.open = TRUE].told = web[q].told
      BY DEF TypeOK
    <3> QED
      BY <1>1, <3>1 DEF Request, TypeOK
  <2>2. UNCHANGED << net, events, msg >>
    BY <1>1 DEF Request, bgVars, netVars
  <2> QED
    BY <2>1, <2>2, AnsweredSame
<1>2. CASE Abort(q) \/ HeadersGo(q)
  <2>1. UNCHANGED << net, events, msg, web >>
    BY <1>2 DEF Abort, HeadersGo, bgVars, netVars, pageVars
  <2> QED
    BY <2>1, AnsweredSame
<1>3. CASE Start(q)
  <2>1. Fresh(q) /\ UNCHANGED << events, msg, web >> /\ net'[q] = At("sent", 0)
    BY <1>3 DEF Start, Unasked, TypeOK
  <2>2. net'[q].state = "sent" /\ Response' = Response
    BY <2>1, AtIs DEF Response
  <2>3. Begins(q)'
    BY <2>1, <2>2 DEF Begins, Had
  <2>4. Answered(q)'
    BY <2>1, <2>2 DEF Fresh, Answered, Pending
  <2> QED
    BY <2>3, <2>4
<1>4. CASE StartFails(q)
  <2>1. Fresh(q) /\ UNCHANGED << events, net, web >> /\ msg'[q] = Told("error", << >>)
    BY <1>4 DEF StartFails, Unasked, TypeOK
  <2>2. msg'[q].type = "error" /\ msg'[q].data = << >> /\ Response' = Response
    BY <2>1 DEF Told, Response
  <2>3. net[q].state = "none" /\ events[q] = << >> /\ << >> # LoadEnd
    BY <2>1, AtIs, EndsAre DEF Fresh
  <2>4. Begins(q)'
    BY <2>1, <2>2 DEF Begins, Had
  <2>5. Answered(q)'
    BY <2>1, <2>2, <2>3 DEF Answered, Pending
  <2> QED
    BY <2>4, <2>5
<1>5. CASE AbortArrives(q)
  <2>1. AbortAll({q}) /\ UNCHANGED << msg, web >>
    BY <1>5 DEF AbortArrives
  <2> QED
    BY <2>1, AnsweredAbort
<1>6. CASE Cookies(q)
  BY <1>6 DEF Cookies, CookiesAnswered, CookiesFail, Answered
<1> QED
  BY <1>1, <1>2, <1>3, <1>4, <1>5, <1>6

LEMMA AnsweredNet ==
  ASSUME TypeOK, engine = "offscreen", NEW q \in Reqs, ~Garbled(q), Answered(q), Begins(q),
         Receive(q) \/ Network(q) \/ OrphanEnds(q)
  PROVE  Answered(q)' /\ Begins(q)'
<1>1. web' = web /\ Response' = Response
  BY DEF Receive, Network, Complete, Fail, OffscreenFails, OrphanEnds, pageVars, Response
<1>2. Begins(q)'
  BY <1>1 DEF Begins, Had
<1>3. CASE Complete(q)
  <2>1. net[q].state = "sent" /\ msg' = msg /\ net'[q] = At("done", Units)
    BY <1>3 DEF Complete, Answered, TypeOK
  <2>2. net'[q].state = "done"
    BY <2>1, AtIs
  <2>3. events'[q] = LoadEnd
    <3> DEFINE rsc == << "readystatechange" >>
    <3>1. rsc \in Seq(Types) /\ events'[q] = Queue(q, rsc, LoadEnd)
      BY <1>3, TypesSeqs DEF Complete, TypeOK, LoadEnd
    <3>2. events[q] = << >> /\ ~opts[q].early
      BY <2>1 DEF Answered, Garbled
    <3> HIDE DEF rsc
    <3> QED
      BY <3>1, <3>2, EndsAre, QueueIs
  <2>4. Answered(q)'
    BY <1>1, <2>1, <2>2, <2>3 DEF Answered, Pending
  <2> QED
    BY <1>2, <2>4
<1>4. CASE OffscreenFails(q)
  <2>1. net[q].state = "sent" /\ events' = events /\ msg'[q] = Message(q, "error", << >>)
    BY <1>4 DEF OffscreenFails, TypeOK
  <2>2. net'[q].state \in {"none", "orphan"}
    BY <1>4, AtIs DEF OffscreenFails, TypeOK
  <2>3. msg'[q] # Nothing => msg'[q].type = "error" /\ msg'[q].data = << >>
    BY <2>1 DEF Message, Told
  <2>4. events'[q] = << >> /\ << >> # LoadEnd
    BY <2>1, EndsAre DEF Answered
  <2>5. Answered(q)'
    BY <1>1, <2>2, <2>3, <2>4 DEF Answered, Pending
  <2> QED
    BY <1>2, <2>5
<1>5. CASE OrphanEnds(q)
  <2>1. net'[q].state = "none" /\ net[q].state = "orphan" /\ UNCHANGED << events, msg >>
    BY <1>5, AtIs DEF OrphanEnds, TypeOK
  <2>2. Answered(q)'
    BY <1>1, <2>1 DEF Answered, Pending
  <2> QED
    BY <1>2, <2>2
<1>6. CASE Receive(q) \/ Fail(q)
  BY <1>6 DEF Receive, Fail
<1> QED
  BY <1>3, <1>4, <1>5, <1>6 DEF Network

LEMMA AnsweredHandle ==
  ASSUME TypeOK, NEW q \in Reqs, ~Garbled(q), Answered(q), Begins(q), HandleOffscreen(q)
  PROVE  Answered(q)' /\ Begins(q)'
<1>1. /\ engine = "offscreen" /\ events[q] # << >> /\ msg[q] = Nothing
      /\ net' = net /\ web' = web /\ Response' = Response
  BY DEF HandleOffscreen, netVars, pageVars, Response
<1>2. /\ msg'[q] = Message(q, Head(events[q]), Response)
      /\ events'[q] = IF q \in registered THEN Tail(events[q]) ELSE << >>
  <2>1. opts[q].kind # "blob"
    BY <1>1 DEF Garbled
  <2> QED
    BY <2>1 DEF HandleOffscreen, TypeOK
<1>3. Begins(q)'
  BY <1>1 DEF Begins, Had
<1>4. net[q].state # "sent"
  BY <1>1 DEF Answered
<1>5. CASE q \notin registered
  <2>1. msg'[q] = Nothing /\ events'[q] = << >> /\ << >> # LoadEnd
    BY <1>2, <1>5, EndsAre DEF Message
  <2>2. Answered(q)'
    BY <1>1, <1>4, <2>1 DEF Answered, Pending
  <2> QED
    BY <1>3, <2>2
<1>6. CASE q \in registered
  <2>1. msg'[q].type = Head(events[q]) /\ msg'[q].data = Response
    BY <1>2, <1>6 DEF Message, Told
  <2>2. CASE events[q] = LoadEnd
    <3>1. msg'[q].type = "load" /\ events'[q] = EndOnly /\ EndOnly # LoadEnd
      BY <1>2, <1>6, <2>1, <2>2, EndsAre
    <3>2. web[q].raw = << >>
      BY <2>2 DEF Answered
    <3>3. Answered(q)'
      BY <1>1, <1>4, <2>1, <3>1, <3>2 DEF Answered
    <3> QED
      BY <1>3, <3>3
  <2>3. CASE events[q] = EndOnly
    <3>1. msg'[q].type = "loadend" /\ events'[q] = << >> /\ << >> # LoadEnd
      BY <1>2, <1>6, <2>1, <2>3, EndsAre
    <3>2. Answered(q)'
      BY <1>1, <1>4, <3>1 DEF Answered
    <3> QED
      BY <1>3, <3>2
  <2> QED
    BY <1>1, <2>2, <2>3 DEF Answered
<1> QED
  BY <1>5, <1>6

LEMMA AnsweredDeliver ==
  ASSUME TypeOK, engine = "offscreen", NEW q \in Reqs, ~Garbled(q), Answered(q), Begins(q),
         Deliver(q)
  PROVE  Answered(q)' /\ Begins(q)'
<1>1. /\ web'[q] = Heard(q) /\ msg[q] # Nothing /\ ~msg[q].back
      /\ net' = net /\ events' = events /\ Response' = Response
  BY DeliverIs DEF TypeOK, netVars, Response
<1>2. msg'[q].type = msg[q].type /\ msg'[q].data = msg[q].data /\ ~Pending(q)'
  <2> DEFINE m == [msg[q] EXCEPT !.back = TRUE]
  <2>1. msg[q] \in Messages
    BY <1>1 DEF TypeOK
  <2>2. m.type = msg[q].type /\ m.data = msg[q].data /\ m.back
    BY <2>1 DEF Messages
  <2>3. msg'[q] = m
    BY DEF Deliver, TypeOK
  <2> HIDE DEF m
  <2> QED
    BY <2>2, <2>3 DEF Pending
<1>3. net[q].state # "sent"
  BY <1>1 DEF Answered
<1>4. ~opts[q].early /\ ~Replaces(q)
  <2>1. opts[q].reads => opts[q].early
    BY DEF TypeOK, Options
  <2> QED
    BY <2>1 DEF Garbled, Replaces
<1>5. /\ web'[q].raw = Raw(q)
      /\ web'[q].told = IF Hears(q) THEN web[q].told \cup {msg[q].type} ELSE web[q].told
  <2>1. /\ Heard(q).raw = Raw(q)
        /\ Heard(q).told = IF Hears(q) THEN web[q].told \cup {msg[q].type} ELSE web[q].told
    BY DEF Heard
  <2> QED
    BY <1>1, <2>1
<1>6. CASE Hears(q) /\ msg[q].type = "load"
  <2>1. web[q].raw = << >> /\ events[q] # LoadEnd /\ msg[q].data = Response
    BY <1>1, <1>6 DEF Answered, Pending
  <2>2. Response # << >> /\ Response \in Seq(1 .. Units) /\ Len(Response) = Units
    <3>1. Len(<< >>) = 0
      OBVIOUS
    <3> QED
      BY <3>1, ResponseIs, RequestsAssumption
  <2>3. Raw(q) = Response
    <3>1. << >> \o Response = Response
      BY <2>2, ConcatEmptySeq
    <3> QED
      BY <1>4, <1>6, <2>1, <2>2, <3>1 DEF Raw
  <2>4. Had(q)' = Units
    BY <1>5, <2>2, <2>3 DEF Had
  <2>5. SubSeq(Response, 1, Units) = Response
    BY <2>2, SubSeqFull
  <2>6. Begins(q)'
    BY <1>1, <1>5, <2>3, <2>4, <2>5, RequestsAssumption DEF Begins
  <2>7. Answered(q)'
    BY <1>1, <1>2, <1>3, <1>6, <2>1 DEF Answered
  <2> QED
    BY <2>6, <2>7
<1>7. CASE ~(Hears(q) /\ msg[q].type = "load")
  <2>1. web'[q].raw = web[q].raw
    BY <1>1, <1>4, <1>5, <1>7 DEF Answered, Raw, Hears, Listened
  <2>2. "load" \in web'[q].told => "load" \in web[q].told
    BY <1>5, <1>7
  <2>3. Begins(q)'
    BY <1>1, <2>1, <2>2 DEF Begins, Had
  <2>4. Answered(q)'
    BY <1>1, <1>2, <1>3, <2>1 DEF Answered
  <2> QED
    BY <2>3, <2>4
<1> QED
  BY <1>6, <1>7

LEMMA AnsweredReply ==
  ASSUME TypeOK, engine = "offscreen", NEW q \in Reqs, Answered(q), Begins(q), Return(q)
  PROVE  Answered(q)' /\ Begins(q)'
<1>1. UNCHANGED << net, events, web >> /\ msg'[q] = Nothing /\ Response' = Response
  BY DEF Return, pageVars, TypeOK, Response
<1>2. Begins(q)'
  BY <1>1 DEF Begins, Had
<1>3. Answered(q)'
  BY <1>1 DEF Answered, Pending
<1> QED
  BY <1>2, <1>3

LEMMA AnsweredNext ==
  ASSUME TypeOK, [Next]_vars, engine = "offscreen", NEW q \in Reqs, ~Garbled(q),
         Unasked(q), Answered(q), Begins(q)
  PROVE  Answered(q)' /\ Begins(q)'
<1>1. CASE Navigate
  <2>1. web'[q].raw = web[q].raw /\ web'[q].told = web[q].told
    <3>1. LET w == [web[q] EXCEPT !.open = FALSE]
          IN w.raw = web[q].raw /\ w.told = web[q].told
      BY DEF TypeOK
    <3> QED
      BY <1>1, <3>1 DEF Navigate
  <2>2. UNCHANGED << net, events, msg >>
    BY <1>1 DEF Navigate, bgVars, netVars
  <2> QED
    BY <2>1, <2>2, AnsweredSame
<1>2. CASE PageInjected
  <2>1. AbortAll(Reqs) /\ UNCHANGED << msg, web >>
    BY <1>2 DEF PageInjected, pageVars
  <2> QED
    BY <2>1, AnsweredAbort
<1>3. CASE Restart
  <2>1. /\ web' = web /\ events'[q] = << >> /\ msg'[q] = Nothing /\ Response' = Response
        /\ net'[q] = IF net[q].state = "sent" THEN At("orphan", 0) ELSE net[q]
    BY <1>3 DEF Restart, pageVars, Response
  <2>2. net'[q].state \in {"none", "done", "orphan"}
    BY <2>1, AtIs DEF Answered
  <2>3. Begins(q)'
    BY <2>1 DEF Begins, Had
  <2>4. << >> # LoadEnd
    BY EndsAre
  <2>5. Answered(q)'
    BY <2>1, <2>2, <2>4 DEF Answered, Pending
  <2> QED
    BY <2>3, <2>5
<1>4. ASSUME NEW r \in Reqs, Step(r) PROVE Answered(q)' /\ Begins(q)'
  <2>1. CASE r = q
    <3>1. CASE HandleEvent(q) \/ DeliveryFails(q)
      BY <3>1 DEF HandleEvent, DeliveryFails
    <3> QED
      BY <1>4, <2>1, <3>1, AnsweredStart, AnsweredNet, AnsweredHandle, AnsweredDeliver,
         AnsweredReply DEF Step
  <2>2. CASE r # q
    <3>1. Same(q)
      BY <1>4, <2>2, OthersSame DEF Step
    <3> QED
      BY <3>1, AnsweredSame DEF Same
  <2> QED
    BY <2>1, <2>2
<1>5. CASE UNCHANGED vars
  <2>1. UNCHANGED << net, events, msg, web >>
    BY <1>5 DEF vars
  <2> QED
    BY <2>1, AnsweredSame
<1> QED
  BY <1>1, <1>2, <1>3, <1>4, <1>5 DEF Next, Step

(* The inductive invariant behind ResponseIsWhole.                         *)
Whole(r) ==
  /\ Unasked(r)
  /\ engine = "xhr" => Loads(r)
  /\ ~Garbled(r) =>
       /\ Begins(r)
       /\ engine = "xhr" => Reads(r) /\ Late(r) /\ Arrives(r)
       /\ engine = "offscreen" => Answered(r)

LEMMA InitWhole == Init => \A r \in Reqs : Whole(r)
<1> SUFFICES ASSUME Init, NEW q \in Reqs PROVE Whole(q)
  OBVIOUS
<1>1. Unasked(q) /\ Fresh(q)
  BY InitCleared DEF Init, Fresh
<1>2. /\ net[q].state = "none" /\ net[q].got = 0 /\ events[q] = << >> /\ msg[q] = Nothing
      /\ stream[q].full = 0 /\ stream[q].sent /\ Had(q) = 0 /\ web[q].told = {}
      /\ web[q].raw = << >>
  BY <1>1, AtIs, EmptyHad DEF Fresh, Unsent
<1>3. Loads(q)
  BY <1>2, NoLoad DEF Loads, LoadDue
<1>4. Begins(q)
  <2>1. 1 \in 1 .. Units + 1 /\ 0 \in 0 .. Units /\ 0 < 1
    BY RequestsAssumption
  <2>2. SubSeq(Response, 1, 0) = << >>
    BY <2>1, PartLen
  <2> QED
    BY <1>2, <2>1, <2>2 DEF Begins
<1>5. Visible(q) = 0
  BY <1>2 DEF Visible
<1>6. Reads(q) /\ Late(q)
  BY <1>2, <1>5, EndsAre DEF Reads, Late
<1>7. Arrives(q)
  BY <1>2 DEF Arrives, Carries, Pending
<1>8. Answered(q)
  BY <1>2, EndsAre DEF Answered, Pending
<1> QED
  BY <1>1, <1>3, <1>4, <1>6, <1>7, <1>8 DEF Whole

LEMMA WholeNext ==
  ASSUME TypeOK, [Next]_vars, NEW q \in Reqs, Whole(q)
  PROVE  Whole(q)'
<1>1. engine' = engine /\ opts' = opts
  BY Const
<1>2. Garbled(q)' <=> Garbled(q)
  BY <1>1 DEF Garbled
<1>3. Unasked(q)'
  BY UnaskedNext DEF Whole
<1>4. engine = "xhr" => Loads(q)'
  BY LoadsNext DEF Whole
<1>5. ASSUME ~Garbled(q), engine = "xhr"
      PROVE  Begins(q)' /\ Reads(q)' /\ Late(q)' /\ Arrives(q)'
  BY <1>5, ReadsNext, ArrivesNext DEF Whole
<1>6. ASSUME ~Garbled(q), engine = "offscreen"
      PROVE  Begins(q)' /\ Answered(q)'
  BY <1>6, AnsweredNext DEF Whole
<1>7. engine = "xhr" \/ engine = "offscreen"
  BY DEF TypeOK
<1> QED
  BY <1>1, <1>2, <1>3, <1>4, <1>5, <1>6, <1>7 DEF Whole

LEMMA BeginsIs ==
  ASSUME NEW q \in Reqs, Begins(q)
  PROVE  web[q].raw = [i \in 1 .. Len(web[q].raw) |-> i]
<1> DEFINE s == web[q].raw
           n == Len(s)
<1>1. n \in 0 .. Units /\ s = SubSeq(Response, 1, n)
  BY DEF Begins, Had
<1>2. n \in Nat /\ n <= Units /\ 1 \in Int /\ n \in Int
  BY <1>1, RequestsAssumption
<1>3. \A i \in 1 .. n : Response[i] \in 1 .. Units
  BY <1>2, ResponseIs, RequestsAssumption
<1> HIDE DEF n
<1>4. /\ SubSeq(Response, 1, n) \in Seq(1 .. Units)
      /\ \A i \in 1 .. n - 1 + 1 : SubSeq(Response, 1, n)[i] = Response[1 + i - 1]
  BY <1>2, <1>3, SubSeqProperties
<1>5. \A i \in 1 .. n : s[i] = i
  <2> SUFFICES ASSUME NEW i \in 1 .. n PROVE s[i] = i
    OBVIOUS
  <2>1. i \in 1 .. n - 1 + 1 /\ 1 + i - 1 = i /\ i \in 1 .. Units
    BY <1>2, RequestsAssumption
  <2>2. SubSeq(Response, 1, n)[i] = Response[i]
    BY <1>4, <2>1
  <2>3. Response[i] = i
    BY <2>1, ResponseIs
  <2> QED
    BY <1>1, <2>2, <2>3
<1> HIDE DEF s
<1>6. s \in Seq(1 .. Units) /\ Len(s) = n
  BY <1>1, <1>4 DEF n
<1>7. s \in [1 .. n -> 1 .. Units]
  BY <1>6, LenProperties
<1>8. s = [i \in 1 .. n |-> i]
  BY <1>5, <1>7
<1> QED
  BY <1>8 DEF s, n

(* In whatever parts a response comes and however late the page answers,   *)
(* the page has a beginning of it, and the whole when it hears of load, but*)
(* for the cases of Garbled: JSON with early events and text read in them  *)
(* by XMLHttpRequest, binary responses and early events by the offscreen   *)
(* document (xhrCallbackWrapper, HttpRequested).                           *)
THEOREM PageHasTheWhole == Spec => []ResponseIsWhole
<1> DEFINE Inv == TypeOK /\ \A r \in Reqs : Whole(r)
<1>1. Init => Inv
  BY InitType, InitWhole
<1>2. Inv /\ [Next]_vars => Inv'
  <2> SUFFICES ASSUME Inv, [Next]_vars PROVE Inv'
    OBVIOUS
  <2>1. TypeOK'
    BY NextType
  <2>2. ASSUME NEW r \in Reqs PROVE Whole(r)'
    BY WholeNext
  <2> QED
    BY <2>1, <2>2
<1>3. Inv => ResponseIsWhole
  <2> SUFFICES ASSUME Inv, NEW r \in Reqs, ~Garbled(r)
               PROVE  /\ web[r].raw = [i \in 1 .. Len(web[r].raw) |-> i]
                      /\ "load" \in web[r].told => Len(web[r].raw) = Units
    BY DEF ResponseIsWhole
  <2>1. Begins(r)
    BY DEF Whole
  <2>2. "load" \in web[r].told => Len(web[r].raw) = Units
    BY <2>1 DEF Begins, Had
  <2> QED
    BY <2>1, <2>2, BeginsIs
<1> QED
  BY <1>1, <1>2, <1>3, PTL DEF Spec
=============================================================================
