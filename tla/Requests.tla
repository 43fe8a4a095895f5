------------------------------ MODULE Requests ------------------------------
(***************************************************************************)
(* GM_xmlhttpRequest (background/utils/requests.js and requests-core.js,   *)
(* offscreen.js, offscreen/index.js, injected/web/requests.js and          *)
(* injected/content/requests.js): a page asks, the background page makes   *)
(* the request by XMLHttpRequest or, in a service worker, by fetch in the  *)
(* offscreen document, and the page is told of its events.                 *)
(*                                                                         *)
(* A response is the sequence 1, 2 .. Units.  A request listens to load,   *)
(* and to readystatechange, progress and loadend too when it is `early`.   *)
(* Requests of blob: and data: URLs never reach the background page and    *)
(* are left out, as are uploads, and the splitting of a message in chunks. *)
(***************************************************************************)
EXTENDS Naturals, Sequences, FiniteSets

CONSTANTS
  Reqs,      \* ids of requests
  Nothing,   \* no message
  Units,     \* the length of a response
  MaxPages   \* bound: documents that the frame shows one after another

ASSUME RequestsAssumption == Units \in Nat \ {0} /\ MaxPages \in Nat \ {0}

VARIABLES
  engine,      \* "xhr" or "offscreen", by the browser
  page,        \* the document the frame shows
  known,       \* the latest document whose GetInjected was handled
  opts,        \* what the page wants of each request
  asked,       \* the document that made the request, 0 before
  calls,       \* HttpRequest messages on their way to the background page
  aborts,      \* AbortRequest messages on their way
  aborted,     \* history: the requests the page aborted
  registered,  \* keys of `requests`
  injected,    \* keys of `headersToInject`
  verified,    \* values of `verify`
  net,         \* the XMLHttpRequest, or the fetch: its state and response
  events,      \* xhrCallbackWrapper `eventQueue`
  stream,      \* xhrCallbackWrapper `fullResponse`, `response`, `sentTextLength`, `sent`
  msg,         \* the HttpRequested message whose reply is awaited
  web,         \* the page: entry in `idMap`, its `raw`, the events it was told
  failed,      \* history: requests that were not made
  broken       \* the requests whose promise chain is rejected, or ended with
               \* a background page

vars == << engine, page, known, opts, asked, calls, aborts, aborted, registered, injected,
           verified, net, events, stream, msg, web, failed, broken >>
netVars == << registered, injected, verified, net >>
bgVars  == << netVars, events, stream, msg, failed, broken >>
pageVars == << page, asked, calls, aborts, aborted, web >>

Kinds == {"text", "json", "blob"}

(* A page with early events may name a responseType and read `response` in *)
(* each of them.                                                           *)
Options == {o \in [kind : Kinds, early : BOOLEAN, cookies : BOOLEAN, reads : BOOLEAN] :
              o.reads => o.early}
Types == {"progress", "readystatechange", "load", "loadend", "error"}
Messages == [type : Types, data : Seq(1 .. Units), back : BOOLEAN]

ASSUME NothingAssumption == Nothing \notin Messages

At(state, got) == [state |-> state, got |-> got]

Response == [i \in 1 .. Units |-> i]

(* An error is always sent, so that the console shows it. *)
Listened(r, type) == opts[r].early \/ type \in {"load", "error"}

(* Events are fired, those of `early` first.  What the page does not listen *)
(* to is passed over, but for loadend.                                     *)
Queue(r, early, types) == events[r] \o (IF opts[r].early THEN early ELSE << >>) \o types

Unsent == [full |-> 0, from |-> 1, sent |-> TRUE]

Init ==
  /\ engine \in {"xhr", "offscreen"}
  /\ page = 1
  /\ known = 1
  /\ opts \in [Reqs -> Options]
  /\ asked = [r \in Reqs |-> 0]
  /\ calls = {}
  /\ aborts = {}
  /\ aborted = {}
  /\ registered = {}
  /\ injected = {}
  /\ verified = {}
  /\ net = [r \in Reqs |-> At("none", 0)]
  /\ events = [r \in Reqs |-> << >>]
  /\ stream = [r \in Reqs |-> Unsent]
  /\ msg = [r \in Reqs |-> Nothing]
  /\ web = [r \in Reqs |-> [open |-> FALSE, raw |-> << >>, told |-> {}]]
  /\ failed = {}
  /\ broken = {}

-----------------------------------------------------------------------------
(* The page.  Scripts run once GetInjected of their document was answered. *)

(* onRequestCreate().  The content script may still have to encode the     *)
(* body, so that an abort may overtake the request.                        *)
Request(r) ==
  /\ asked[r] = 0
  /\ known = page
  /\ asked' = [asked EXCEPT ![r] = page]
  /\ calls' = calls \cup {r}
  /\ web' = [web EXCEPT ![r] = [web[r] EXCEPT !.open = TRUE]]
  /\ UNCHANGED << engine, page, known, opts, aborts, aborted, bgVars >>

(* abort() of the returned object *)
Abort(r) ==
  /\ asked[r] = page
  /\ r \notin aborted
  /\ aborts' = aborts \cup {r}
  /\ aborted' = aborted \cup {r}
  /\ UNCHANGED << engine, page, known, opts, asked, calls, web, bgVars >>

(* The frame shows another document.  What the former one was about to     *)
(* send may still be sent.                                                 *)
Navigate ==
  /\ page < MaxPages
  /\ page' = page + 1
  /\ web' = [r \in Reqs |-> [web[r] EXCEPT !.open = FALSE]]
  /\ calls' \in {calls, {}}
  /\ aborts' \in {aborts, {}}
  /\ UNCHANGED << engine, known, opts, asked, aborted, bgVars >>

-----------------------------------------------------------------------------
(* The background page. *)

(* Mutant: what is not registered any more is taken for cleared. *)
ClearRegistered(rs) ==
  /\ registered' = registered \ rs
  /\ verified' = verified \ rs
  /\ injected' = injected \ (rs \cap registered)

(* clearRequest() *)
Clear(rs) ==
  /\ registered' = registered \ rs
  /\ verified' = verified \ rs
  /\ injected' = injected \ rs

(* AbortRequest() of the registered ones among rs.  abort() does nothing   *)
(* to an XMLHttpRequest that is not sent yet; it makes one in progress     *)
(* fire its last events.  The message to the offscreen document is not     *)
(* awaited: its fetch fails later, or is done before.                      *)
AbortAll(rs) ==
  LET live == {r \in rs \cap registered :
                 engine = "xhr" /\ net[r].state \in {"sent", "loading"}}
  IN /\ Clear(rs \cap registered)
     /\ net' = [r \in Reqs |-> IF r \in live THEN At("aborted", 0) ELSE net[r]]
     /\ events' = [r \in Reqs |->
          IF r \in live THEN Queue(r, << "readystatechange" >>, << "loadend" >>) ELSE events[r]]

AbortArrives(r) ==
  /\ r \in aborts
  /\ aborts' = aborts \ {r}
  /\ AbortAll({r})
  /\ UNCHANGED << engine, page, known, opts, asked, calls, aborted, stream, msg, web,
                  failed, broken >>

(* GetInjected of a new document: clearFrameData() of the former one *)
PageInjected ==
  /\ known < page
  /\ known' = page
  /\ AbortAll(Reqs)
  /\ UNCHANGED << engine, pageVars, opts, stream, msg, failed, broken >>

(* A message to the tab.  `cb` sends it only while the request is there.   *)
Told(type, data) == [type |-> type, data |-> data, back |-> FALSE]
Message(r, type, data) == IF r \in registered THEN Told(type, data) ELSE Nothing

(* HttpRequest() up to its first await: that of the cookies, or none *)
Start(r) ==
  /\ r \in calls
  /\ calls' = calls \ {r}
  /\ registered' = registered \cup {r}
  /\ LET waits == engine = "xhr" /\ opts[r].cookies
     IN /\ net' = [net EXCEPT ![r] = At(IF waits THEN "cookies" ELSE "sent", 0)]
        /\ injected' = IF waits \/ engine = "offscreen" THEN injected ELSE injected \cup {r}
  /\ UNCHANGED << engine, page, known, opts, asked, aborts, aborted, verified, events,
                  stream, msg, web, failed, broken >>

(* Mutant: an error is only logged. *)
StartFailsSilently(r) ==
  /\ r \in calls
  /\ calls' = calls \ {r}
  /\ registered' = registered \cup {r}
  /\ failed' = failed \cup {r}
  /\ UNCHANGED << engine, page, known, opts, asked, aborts, aborted, injected, verified, net,
                  events, stream, msg, web, broken >>

(* HttpRequest() with a URL or a method that is refused: the page is told, *)
(* and the request stays registered.                                       *)
StartFails(r) ==
  /\ r \in calls
  /\ calls' = calls \ {r}
  /\ registered' = registered \cup {r}
  /\ failed' = failed \cup {r}
  /\ msg' = [msg EXCEPT ![r] = Told("error", << >>)]
  /\ UNCHANGED << engine, page, known, opts, asked, aborts, aborted, injected, verified, net,
                  events, stream, web, broken >>

(* The cookies are there: the request is sent, even one that was aborted. *)
CookiesAnswered(r) ==
  /\ net[r].state = "cookies"
  /\ net' = [net EXCEPT ![r] = At("sent", 0)]
  /\ injected' = injected \cup {r}
  /\ UNCHANGED << engine, known, opts, registered, verified, events, stream, msg, failed,
                  broken, pageVars >>

CookiesFail(r) ==
  /\ net[r].state = "cookies"
  /\ net' = [net EXCEPT ![r] = At("none", 0)]
  /\ failed' = failed \cup {r}
  /\ UNCHANGED << registered, injected, verified >>
  /\ msg' = [msg EXCEPT ![r] = Message(r, "error", << >>)]
  /\ UNCHANGED << engine, known, opts, events, stream, broken, pageVars >>

(* onBeforeSendHeaders() *)
HeadersGo(r) ==
  /\ engine = "xhr"
  /\ net[r].state = "sent"
  /\ r \in registered \ verified
  /\ verified' = verified \cup {r}
  /\ UNCHANGED << engine, known, opts, registered, injected, net, events, stream, msg,
                  failed, broken, pageVars >>

-----------------------------------------------------------------------------
(* The network. *)

(* Mutant: a response without an end. *)
ReceiveMore(r) ==
  /\ engine = "xhr"
  /\ net[r].state \in {"sent", "loading"}
  /\ net' = [net EXCEPT ![r] = At("loading", net[r].got + 1)]
  /\ events' = [events EXCEPT ![r] = Queue(r, << "progress" >>, << >>)]
  /\ UNCHANGED << engine, known, opts, registered, injected, verified, stream, msg, failed,
                  broken, pageVars >>

(* A part of the response, with `progress` or `readystatechange` *)
Receive(r) ==
  /\ engine = "xhr"
  /\ net[r].state \in {"sent", "loading"}
  /\ net[r].got + 1 < Units
  /\ net' = [net EXCEPT ![r] = At("loading", net[r].got + 1)]
  /\ events' = [events EXCEPT ![r] = Queue(r, << "progress" >>, << >>)]
  /\ UNCHANGED << engine, known, opts, registered, injected, verified, stream, msg, failed,
                  broken, pageVars >>

(* The whole response.  The offscreen document answers the message with    *)
(* it, unless nobody waits any more, and three events are made of that.    *)
Complete(r) ==
  /\ net[r].state \in {"sent", "loading"}
  /\ net' = [net EXCEPT ![r] = At("done", Units)]
  /\ events' = [events EXCEPT ![r] = Queue(r, << "readystatechange" >>, << "load", "loadend" >>)]
  /\ UNCHANGED << engine, known, opts, registered, injected, verified, stream, msg, failed,
                  broken, pageVars >>

(* An error or a timeout of an XMLHttpRequest: its response becomes empty. *)
Fail(r) ==
  /\ engine = "xhr"
  /\ net[r].state \in {"sent", "loading"}
  /\ net' = [net EXCEPT ![r] = At("done", 0)]
  /\ events' = [events EXCEPT ![r] = Queue(r, << "readystatechange" >>, << "error", "loadend" >>)]
  /\ UNCHANGED << engine, known, opts, registered, injected, verified, stream, msg, failed,
                  broken, pageVars >>

(* The fetch fails or is aborted, or the message is given up: then the     *)
(* fetch goes on (`orphan`).                                               *)
OffscreenFails(r) ==
  /\ engine = "offscreen"
  /\ net[r].state = "sent"
  /\ \E s \in {"none", "orphan"} : net' = [net EXCEPT ![r] = At(s, 0)]
  /\ failed' = failed \cup {r}
  /\ UNCHANGED << registered, injected, verified >>
  /\ msg' = [msg EXCEPT ![r] = Message(r, "error", << >>)]
  /\ UNCHANGED << engine, known, opts, events, stream, broken, pageVars >>

(* The late answer of the offscreen document: nobody listens. *)
OrphanEnds(r) ==
  /\ net[r].state = "orphan"
  /\ net' = [net EXCEPT ![r] = At("none", 0)]
  /\ UNCHANGED << engine, known, opts, registered, injected, verified, events, stream, msg,
                  failed, broken, pageVars >>

-----------------------------------------------------------------------------
(* The events. *)

(* What xhr.response holds: a blob has no parts. *)
Visible(r) == IF opts[r].kind = "blob" /\ net[r].state # "done" THEN 0 ELSE net[r].got

(* Mutant: it is not remembered where the last part ended. *)
ChangedFromStart(r) ==
  IF stream[r].full = Visible(r) THEN stream[r]
  ELSE [full |-> Visible(r), from |-> 1, sent |-> FALSE]

(* A response that changed begins where the former one ended. *)
Changed(r) ==
  IF stream[r].full = Visible(r) THEN stream[r]
  ELSE [full |-> Visible(r), from |-> stream[r].full + 1, sent |-> FALSE]

(* sequentialize(): the next event, once the message of the former one was *)
(* answered.  A changed response is sent with the first event that the     *)
(* page listens to, JSON only when it is complete.  The readystatechange   *)
(* that Firefox repeats is left out.                                       *)
HandleEvent(r) ==
  /\ engine = "xhr"
  /\ events[r] # << >>
  /\ msg[r] = Nothing
  /\ r \notin broken
  /\ LET type  == Head(events[r])
         s     == Changed(r)
         sends == /\ Listened(r, type)
                  /\ opts[r].kind # "json" \/ net[r].state = "done"
                  /\ ~s.sent
         data  == IF sends THEN SubSeq(Response, s.from, s.full) ELSE << >>
     IN /\ events' = [events EXCEPT ![r] = Tail(events[r])]
        /\ stream' = [stream EXCEPT ![r] = [s EXCEPT !.sent = s.sent \/ sends]]
        /\ msg' = [msg EXCEPT ![r] = Message(r, type, data)]
        /\ IF type = "loadend" /\ r \notin registered
           THEN Clear({r})
           ELSE UNCHANGED << registered, injected, verified >>
  /\ UNCHANGED << engine, known, opts, net, failed, broken, pageVars >>

(* httpRequestViaOffscreen() after its await: the whole response with each *)
(* event, as long as the request is registered.  A binary response does    *)
(* not survive the message from the offscreen document.                    *)
HandleOffscreen(r) ==
  /\ engine = "offscreen"
  /\ events[r] # << >>
  /\ msg[r] = Nothing
  /\ events' = [events EXCEPT ![r] = IF r \in registered THEN Tail(@) ELSE << >>]
  /\ LET data == IF opts[r].kind = "blob" THEN << >> ELSE Response
     IN msg' = [msg EXCEPT ![r] = Message(r, Head(events[r]), data)]
  /\ UNCHANGED << engine, known, opts, netVars, stream, failed, broken, pageVars >>

(* The next part of a response takes the place of what the page has when   *)
(* it is binary, or when the page reads what it has: parseRaw() decodes    *)
(* the parts and deletes them.  What was read stays what `response` is     *)
(* until there is a further part.                                          *)
Replaces(r) == opts[r].kind = "blob" \/ opts[r].reads

(* The page handles HttpRequested, unless it has no such request. *)
Deliver(r) ==
  /\ msg[r] # Nothing
  /\ ~msg[r].back
  /\ LET type  == msg[r].type
         w     == web[r]
         hears == w.open /\ Listened(r, type)
     IN web' = [web EXCEPT ![r] =
          [open |-> w.open /\ type # "loadend",
           raw  |-> IF ~hears \/ msg[r].data = << >> THEN w.raw
                    ELSE IF Replaces(r) THEN msg[r].data ELSE w.raw \o msg[r].data,
           told |-> IF hears THEN w.told \cup {type} ELSE w.told]]
  /\ msg' = [msg EXCEPT ![r] = [msg[r] EXCEPT !.back = TRUE]]
  /\ UNCHANGED << engine, page, known, opts, asked, calls, aborts, aborted, netVars, events,
                  stream, failed, broken >>

(* The content script cannot read the blob: the rejected reply ends the    *)
(* chain of promises that the later events are in.                         *)
DeliveryFails(r) ==
  /\ engine = "xhr"
  /\ msg[r] # Nothing
  /\ ~msg[r].back
  /\ web[r].open
  /\ opts[r].kind = "blob"
  /\ msg[r].data # << >>
  /\ msg' = [msg EXCEPT ![r] = Nothing]
  /\ broken' = broken \cup {r}
  /\ UNCHANGED << engine, known, opts, netVars, events, stream, failed, pageVars >>

(* The reply to a message; the one of loadend ends the request. *)
Return(r) ==
  /\ msg[r] # Nothing
  /\ msg[r].back
  /\ msg' = [msg EXCEPT ![r] = Nothing]
  /\ IF engine = "xhr" /\ msg[r].type = "loadend"
     THEN Clear({r})
     ELSE UNCHANGED << registered, injected, verified >>
  /\ UNCHANGED << engine, known, opts, net, events, stream, failed, broken, pageVars >>

(* The service worker stops and starts anew. *)
Restart ==
  /\ engine = "offscreen"
  /\ registered' = {}
  /\ net' = [r \in Reqs |-> IF net[r].state = "sent" THEN At("orphan", 0) ELSE net[r]]
  /\ events' = [r \in Reqs |-> << >>]
  /\ msg' = [r \in Reqs |-> Nothing]
  /\ broken' = broken \cup registered
  /\ UNCHANGED << engine, known, opts, injected, verified, stream, failed, pageVars >>

-----------------------------------------------------------------------------
Network(r) == Complete(r) \/ Fail(r) \/ OffscreenFails(r)
Cookies(r) == CookiesAnswered(r) \/ CookiesFail(r)

Next ==
  \/ Navigate
  \/ PageInjected
  \/ Restart
  \/ \E r \in Reqs :
       \/ Request(r) \/ Abort(r) \/ Start(r) \/ StartFails(r) \/ AbortArrives(r)
       \/ Cookies(r) \/ HeadersGo(r) \/ Receive(r) \/ Network(r) \/ OrphanEnds(r)
       \/ HandleEvent(r) \/ HandleOffscreen(r) \/ Deliver(r) \/ DeliveryFails(r) \/ Return(r)

Spec == Init /\ [][Next]_vars

(* Messages arrive and are answered, the browser answers for its cookies,  *)
(* and a request ends in some way.                                         *)
Fairness ==
  \A r \in Reqs :
    /\ WF_vars(Start(r) \/ StartFails(r))
    /\ WF_vars(Cookies(r))
    /\ WF_vars(Network(r))
    /\ WF_vars(HandleEvent(r) \/ HandleOffscreen(r))
    /\ WF_vars(Deliver(r))
    /\ WF_vars(Return(r))

FairSpec == Spec /\ Fairness

-----------------------------------------------------------------------------
(* Every variable has its type. *)
TypeOK ==
  /\ engine \in {"xhr", "offscreen"}
  /\ page \in 1 .. MaxPages
  /\ known \in 1 .. MaxPages
  /\ opts \in [Reqs -> Options]
  /\ asked \in [Reqs -> 0 .. MaxPages]
  /\ calls \subseteq Reqs
  /\ aborts \subseteq Reqs
  /\ aborted \subseteq Reqs
  /\ registered \subseteq Reqs
  /\ injected \subseteq Reqs
  /\ verified \subseteq Reqs
  /\ net \in [Reqs -> [state : {"none", "cookies", "sent", "loading", "aborted", "done",
                                "orphan"},
                       got : 0 .. Units]]
  /\ events \in [Reqs -> Seq(Types)]
  /\ stream \in [Reqs -> [full : 0 .. Units, from : 1 .. Units + 1, sent : BOOLEAN]]
  /\ msg \in [Reqs -> Messages \cup {Nothing}]
  /\ web \in [Reqs -> [open : BOOLEAN, raw : Seq(1 .. Units), told : SUBSET Types]]
  /\ failed \subseteq Reqs
  /\ broken \subseteq Reqs

(* The code loses or repeats parts of a response in these cases: JSON      *)
(* whose page listens to early events, where a part not sent is forgotten  *)
(* when the next one comes; text that the page reads in early events, of   *)
(* which only the parts since the last reading are left; and, by way of    *)
(* the offscreen document, a binary response, or one that is repeated with *)
(* each early event.                                                       *)
Garbled(r) ==
  \/ engine = "xhr" /\ opts[r].kind = "json" /\ opts[r].early
  \/ engine = "xhr" /\ opts[r].kind = "text" /\ opts[r].reads
  \/ engine = "offscreen" /\ (opts[r].early \/ opts[r].kind = "blob")

(* What a page has of a response is a beginning of it, and when it hears   *)
(* of load the whole, in whatever parts the response came and however late *)
(* the page answered, but for the cases of Garbled.                        *)
ResponseIsWhole ==
  \A r \in Reqs : ~Garbled(r) =>
    /\ web[r].raw = [i \in 1 .. Len(web[r].raw) |-> i]
    /\ "load" \in web[r].told => Len(web[r].raw) = Units

(* Something of the request is still to come. *)
Active(r) ==
  \/ net[r].state \in {"cookies", "sent", "loading"}
  \/ events[r] # << >>
  \/ msg[r] # Nothing

(* When a request by XMLHttpRequest is over, whether it was aborted at any *)
(* point, its page left or the network failed, neither its entry nor its   *)
(* header injector (a listener of all requests of the browser) is left     *)
(* behind.  Exempt are requests whose promise chain is broken and entries  *)
(* of those refused; the entries of those made by the offscreen document   *)
(* do stay, and of these it says only that they left no injector.          *)
LeavesNothingBehind ==
  \A r \in Reqs : Active(r) \/ r \in broken \/
    /\ r \notin injected \cup verified
    /\ r \in registered => engine = "offscreen" \/ r \in failed

(* A page that was told of load has the whole of the text, also when it    *)
(* read `response` while parts were coming, "just like native XHR".        *)
TextIsWhole ==
  \A r \in Reqs : engine = "xhr" /\ opts[r].kind = "text" /\ "load" \in web[r].told =>
    Len(web[r].raw) = Units

(* A page hears how its request ended, unless it aborted it, left, or      *)
(* could not read the response.                                            *)
PageIsTold ==
  \A r \in Reqs :
    (asked[r] # 0) ~> \/ web[r].told \cap {"load", "error"} # {}
                     \/ r \in aborted \cup broken
                     \/ page # asked[r]
=============================================================================
