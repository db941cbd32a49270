------------------------------ MODULE WebServe ------------------------------
(***************************************************************************)
(* The web servers of the PC: WEBSERVE.C, which sends files and lists its  *)
(* directory, and WEB_EGI.C, which replaces tags in pages by values        *)
(* (EGI_FORM.C, EGI_SWIT.C, EGI_SLID.C).  Both are upcalls of TCP.C: a     *)
(* request is read a line at a time when data comes, and the answer is put *)
(* into the transmit buffer a bit at a time, at every upcall.              *)
(*                                                                         *)
(* TCP is taken for what TcpNet shows it to be, a stream in each direction *)
(* that may break off.  Text is a sequence of units.                       *)
(***************************************************************************)
EXTENDS Integers, FiniteSets, SequencesExt

CONSTANTS
  Plans,                   (* [prog, dir, asks, more, losses]: a program,  *)
                           (* its files in the order of the directory,     *)
                           (* what each browser asks for, what follows     *)
                           (* that in the request, and how often a         *)
                           (* connection is broken off                     *)
  Url,                     (* the requests: [file, fn, vars]               *)
  Pages,                   (* what is in a file: a sequence of texts and   *)
                           (* tags                                         *)
  NSOCKS,
  BUFFLEN,                 (* room in the transmit buffer                  *)
  MinSegment,              (* bound: the least of a full buffer that is    *)
                           (* acknowledged at a time                       *)
  EGI_BUFFLEN, EGI_STARTLEN,
  HTTP_MAXLEN,
  FOPEN_MAX                (* files the C library lets be open             *)

Browsers == UNION {DOMAIN p.asks : p \in Plans}
Socks == 1 .. NSOCKS

Content(f) == FlattenSeq(Pages[f])

(* A tag is shorter than a chunk and has an end, and no page has a "<"     *)
(* among its last bytes: such a page is never finished (WEB_EGI.C 338,     *)
(* 347-352).                                                               *)
ASSUME WebServeAssumption ==
  /\ {NSOCKS, HTTP_MAXLEN, FOPEN_MAX} \subseteq Nat \ {0}
  /\ {BUFFLEN, MinSegment, EGI_BUFFLEN, EGI_STARTLEN} \subseteq Nat \ {0}
  /\ EGI_STARTLEN < EGI_BUFFLEN /\ EGI_BUFFLEN < BUFFLEN
  /\ \A f \in DOMAIN Pages : \A i \in DOMAIN Content(f) :
       Content(f)[i] = "<" => i <= Len(Content(f)) - EGI_STARTLEN
  /\ \A p \in Plans :
       Range(p.asks) \subseteq DOMAIN Url /\ Range(p.dir) \subseteq DOMAIN Pages

VARIABLES
  plan,
  srv,                     (* sockets, their APPDATA, and the globals      *)
  br,                      (* what each browser does, has sent and got     *)
  broken                   (* connections that ended otherwise than by a   *)
                           (* close of the server                          *)

vars == <<plan, srv, br, broken>>

minw(x, y) == IF x < y THEN x ELSE y

NoFile == [open |-> FALSE, rest |-> <<>>]
NewSock == [st |-> "CLOSED", rx |-> <<>>, tx |-> <<>>, in |-> NoFile, count |-> 0,
            egi |-> "", vars |-> <<>>]
NewBrowser == [phase |-> "idle", sock |-> 0, sent |-> 0, unacked |-> FALSE, got |-> <<>>]

-----------------------------------------------------------------------------
(* Buffers, sockets and files.                                             *)

Free(s, n) == BUFFLEN - Len(s.sock[n].tx)

(* As much as there is room for.                                           *)
buff_in(s, n, text) ==
  [s EXCEPT !.sock[n].tx = @ \o SubSeq(text, 1, minw(Len(text), Free(s, n)))]

close_tcp(s, n) ==
  IF s.sock[n].st \in {"EST", "SYNR"} THEN [s EXCEPT !.sock[n].st = "ACLOSE"] ELSE s

(* What is already open in this APPDATA is not closed.                     *)
Exists == Range(plan.dir)
CanOpen(s, f) == f \in Exists /\ s.files < FOPEN_MAX
fopen(s, n, f) ==
  [s EXCEPT !.sock[n].in = [open |-> TRUE, rest |-> Content(f)], !.files = @ + 1]

(* A mutant: the file is not closed.                                         *)
EndFile_Leak(s, n) == close_tcp([s EXCEPT !.sock[n].in = NoFile], n)

(* End of file: the file is closed, and the connection.                    *)
EndFile(s, n) ==
  close_tcp([s EXCEPT !.sock[n].in = NoFile, !.files = @ - 1], n)

(* The next text of the file, at most len units, goes into the buffer.     *)
buff_infile(s, n, len) ==
  LET k == minw(len, Len(s.sock[n].in.rest)) IN
  [buff_in(s, n, SubSeq(s.sock[n].in.rest, 1, k))
     EXCEPT !.sock[n].in.rest = SubSeq(@, k + 1, Len(@))]

FileData(s, n) ==
  IF s.sock[n].in.rest = <<>> THEN EndFile(s, n) ELSE buff_infile(s, n, Free(s, n))

-----------------------------------------------------------------------------
(* WEBSERVE: files and the directory.                                      *)

AllFiles == "*.*"
Head1 == <<"OK">>
NotFound == <<"404">>
DirHead == <<"OK", "dir">>
DirTail == <<"/table", "/html">>
DirEntry(f) == <<f, "size">>

find_first(s) ==
  IF s.filepath = AllFiles THEN plan.dir
  ELSE IF s.filepath \in Exists THEN <<s.filepath>> ELSE <<>>

(* dir_entry for each of names while they fit; a row is written in two     *)
(* pieces, and if only the first one fits it stays.                        *)
DirEntries(s, n, names) ==
  LET k == minw(Len(names), Free(s, n) \div 2)
      rows == FlattenSeq([i \in 1 .. k |-> DirEntry(names[i])])
      piece == IF k < Len(names) /\ Free(s, n) > 2 * k
               THEN SubSeq(DirEntry(names[k + 1]), 1, 1) ELSE <<>> IN
  [buff_in(s, n, rows \o piece) EXCEPT !.sock[n].count = @ + k]

(* Once the last row is in, whatever part of the tail fits ends the page.  *)
DirData(s, n) ==
  LET names == find_first(s)
      t == DirEntries(s, n, SubSeq(names, s.sock[n].count, Len(names))) IN
  IF t.sock[n].count > Len(names) /\ Free(t, n) > 0
  THEN close_tcp([buff_in(t, n, DirTail) EXCEPT !.sock[n].count = 0], n)
  ELSE t

http_data(s, n) ==
  LET t == IF s.sock[n].count > 0 THEN DirData(s, n) ELSE s IN
  IF t.sock[n].in.open /\ Free(t, n) > 0 THEN FileData(t, n) ELSE t

http_get(s, n, url) ==
  LET f == Url[url].file IN
  IF f = ""
  THEN [buff_in(s, n, DirHead) EXCEPT !.filepath = AllFiles, !.sock[n].count = 1]
  ELSE LET t == [s EXCEPT !.filepath = f] IN
       IF CanOpen(t, f) THEN buff_in(fopen(t, n, f), n, Head1)
       ELSE close_tcp(buff_in([t EXCEPT !.sock[n].in = NoFile], n, NotFound), n)

-----------------------------------------------------------------------------
(* WEB_EGI: pages with tags.                                               *)

put_connvar(s, n, pair) == [s EXCEPT !.sock[n].vars = Append(@, pair)]

(* The first variable with such a name, or the empty pair.                 *)
FirstVar(s, n, names) ==
  LET found == SelectSeq(s.sock[n].vars, LAMBDA p : p[1] \in names) IN
  IF found = <<>> THEN <<"", "">> ELSE Head(found)

get_connvar(s, n, name) == FirstVar(s, n, {name})[2]

(* The names that start with "switch" and "scale", and their numbers.      *)
SwitchVars == [x \in {"switch1.x", "switch1.y", "switch2.x", "switch2.y"} |->
                 IF x \in {"switch1.x", "switch1.y"} THEN 1 ELSE 2]
ScaleVars == [x \in {"scale1.x", "scale1.y", "scale2.x", "scale2.y"} |->
                 IF x \in {"scale1.x", "scale1.y"} THEN 1 ELSE 2]
ScaleY == <<"scale1.y", "scale2.y">>
find_connvar(s, n, table) == FirstVar(s, n, DOMAIN table)[1]

(* The variables of the request: its name, and those after the "?".        *)
url_connvars(s, n, url) ==
  [s EXCEPT !.sock[n].vars = @ \o <<<<"fname", Url[url].fn>>, <<"fext", "egi">>>> \o Url[url].vars]

(* An EGI function opens its page, with what it does then in t, or says    *)
(* that there is none.                                                     *)
OpenPage(s, n, f, head, t) ==
  IF CanOpen(s, f) THEN buff_in(fopen(t, n, f), n, head)
  ELSE close_tcp(buff_in([s EXCEPT !.sock[n].in = NoFile], n, <<"nofile">>), n)

form_resp(s0, n) ==
  LET s == [s0 EXCEPT !.sock[n].egi = "form"]
      f == IF get_connvar(s, n, "send") = "submit" THEN "resp" ELSE "cancel"
      text == IF get_connvar(s, n, "state") = "happy" THEN "glad" ELSE "sorry" IN
  OpenPage(s, n, f, Head1, put_connvar(s, n, <<"message", text>>))

(* A mutant: the switch is turned over for each of a click's two variables.  *)
switchfm_resp_Each(s0, n) ==
  LET s == [s0 EXCEPT !.sock[n].egi = "switchfm"]
      Clicks(l) == {i \in DOMAIN s.sock[n].vars :
                      /\ s.sock[n].vars[i][1] \in DOMAIN SwitchVars
                      /\ SwitchVars[s.sock[n].vars[i][1]] = l} IN
  OpenPage(s, n, "switchfm", <<>>,
    [s EXCEPT !.lamps = SymDiff(@, {l \in 1 .. 2 : Cardinality(Clicks(l)) % 2 = 1})])

(* A click turns its switch over; there is no header.                      *)
switchfm_resp(s0, n) ==
  LET s == [s0 EXCEPT !.sock[n].egi = "switchfm"]
      name == find_connvar(s, n, SwitchVars) IN
  OpenPage(s, n, "switchfm", <<>>,
    IF name = "" THEN s ELSE [s EXCEPT !.lamps = SymDiff(@, {SwitchVars[name]})])

(* A click is measured from the top, and the pointer is what is below it;  *)
(* no number is a zero.                                                    *)
Height(y) == IF y = "bottom" THEN "short" ELSE "long"

sliders_resp(s0, n) ==
  LET s == [s0 EXCEPT !.sock[n].egi = "sliders"]
      name == find_connvar(s, n, ScaleVars)
      slider == ScaleVars[name] IN
  OpenPage(s, n, "sliders", <<>>,
    IF name = "" THEN s
    ELSE [s EXCEPT !.slides[slider] = Height(get_connvar(s, n, ScaleY[slider]))])

(* What a tag becomes on the page of each function.                        *)
LampTags == [x \in {"$led1", "$led2"} |-> IF x = "$led1" THEN 1 ELSE 2]
SlideTags == [x \in {"$ptr1", "$ptr2"} |-> IF x = "$ptr1" THEN 1 ELSE 2]
TagText(s, n, tag) ==
  CASE s.sock[n].egi = "form" ->
         IF FirstVar(s, n, {tag})[2] = "" THEN <<>> ELSE <<get_connvar(s, n, tag)>>
    [] s.sock[n].egi = "switchfm" /\ tag \in DOMAIN LampTags ->
         IF LampTags[tag] \in s.lamps THEN <<"on">> ELSE <<"off">>
    [] s.sock[n].egi = "sliders" /\ tag \in DOMAIN SlideTags -> <<s.slides[SlideTags[tag]]>>
    [] OTHER -> <<>>

Least(places) == IF places = {} THEN 0 ELSE Min(places)

Places(text, unit) == {i \in DOMAIN text : text[i] = unit}

IsTagAt(text, i) == i < Len(text) /\ text[i] = "<" /\ text[i + 1] = "#"
WholeStarts(text) == {i \in DOMAIN text : IsTagAt(text, i)}

(* A mutant: only whole starts of tags are looked for.                       *)
TagStart_Whole(chunk) == Least(WholeStarts(chunk))

(* The start of a tag, or else a "<" so near the end of the chunk that it  *)
(* may be one.  For a last chunk that is shorter than a start the code     *)
(* looks into what is before its buffer, and is taken to find none there.  *)
TagStart(chunk) ==
  IF WholeStarts(chunk) # {} THEN Min(WholeStarts(chunk))
  ELSE Least({i \in Places(chunk, "<") : i > Len(chunk) - EGI_STARTLEN})

TagEnd(chunk) == Least(Places(chunk, ">"))

(* The next chunk of a page: the tag at its start is replaced, or it is    *)
(* sent up to the tag in it.                                               *)
EgiData(s, n) ==
  LET rest == s.sock[n].in.rest
      chunk == SubSeq(rest, 1, minw(EGI_BUFFLEN, Len(rest)))
      start == TagStart(chunk)
      end == TagEnd(chunk)
      Skip(t, k) == [t EXCEPT !.sock[n].in.rest = SubSeq(@, k + 1, Len(@))] IN
  IF chunk = <<>> THEN EndFile(s, n)
  ELSE IF start = 1 /\ end > 0
  THEN buff_in(Skip(s, end), n, TagText(s, n, chunk[3]))
  ELSE LET len == IF start > 0 THEN start - 1 ELSE Len(chunk) IN
       buff_in(Skip(s, len), n, SubSeq(chunk, 1, len))

egi_http_data(s, n) ==
  IF ~s.sock[n].in.open \/ Free(s, n) < EGI_BUFFLEN THEN s
  ELSE IF s.sock[n].egi # "" THEN EgiData(s, n) ELSE FileData(s, n)

egi_execstr(s, n, fn) ==
  CASE fn = "form" -> form_resp(s, n)
    [] fn = "switchfm" -> switchfm_resp(s, n)
    [] fn = "sliders" -> sliders_resp(s, n)
    [] OTHER -> close_tcp(buff_in(s, n, NotFound), n)

(* url_fopen: the default page if no file is named.                        *)
DefaultFile(f) == IF f = "" THEN "index" ELSE f

egi_http_get(s, n, url) ==
  LET f == DefaultFile(Url[url].file) IN
  IF Url[url].fn # "" THEN egi_execstr(url_connvars(s, n, url), n, Url[url].fn)
  ELSE IF CanOpen(s, f) THEN buff_in(fopen(s, n, f), n, Head1)
  ELSE close_tcp(buff_in([s EXCEPT !.sock[n].in = NoFile], n, NotFound), n)

-----------------------------------------------------------------------------
(* The upcall of both programs.                                            *)

Get(s, n, url) ==
  IF plan.prog = "WEBSERVE" THEN http_get(s, n, url) ELSE egi_http_get(s, n, url)
Data(s, n) == IF plan.prog = "WEBSERVE" THEN http_data(s, n) ELSE egi_http_data(s, n)

(* A connection is opened: WEBSERVE forgets the file of the last one, and  *)
(* WEB_EGI all of its APPDATA.                                             *)
OpenApp(s, n) ==
  IF plan.prog = "WEBSERVE" THEN [s EXCEPT !.sock[n].in = NoFile]
  ELSE [s EXCEPT !.sock[n] = [NewSock EXCEPT !.st = s.sock[n].st]]

(* A line that is complete is taken, no more of it than the buffer for it  *)
(* holds; a GET is obeyed.                                                 *)
TakeLine(s, n) ==
  LET rx == s.sock[n].rx
      nl == Least(Places(rx, "nl"))
      t == [s EXCEPT !.sock[n].rx = SubSeq(@, minw(nl, HTTP_MAXLEN) + 1, Len(@))] IN
  IF nl <= 1 THEN s
  ELSE IF rx[1] \in DOMAIN Url THEN Get(t, n, rx[1]) ELSE t

(* A mutant: the answer goes on only when something has come.                *)
server_action_OnData(s, n, conn) ==
  CASE conn = "TCP_OPEN" -> Data(OpenApp(s, n), n)
    [] conn = "TCP_DATA" -> Data(TakeLine(s, n), n)
    [] OTHER -> s

server_action(s, n, conn) ==
  Data(CASE conn = "TCP_OPEN" -> OpenApp(s, n)
         [] conn = "TCP_DATA" -> TakeLine(s, n)
         [] OTHER -> s, n)

-----------------------------------------------------------------------------
(* Steps.  A state changes as TCP.C has it: what an upcall does to it in   *)
(* SYNR and at a close of the browser is overridden.                       *)

Init ==
  /\ plan \in Plans
  /\ srv = [sock |-> [n \in Socks |-> NewSock], filepath |-> "", files |-> 0,
            lamps |-> {}, slides |-> [i \in 1 .. 2 |-> "flat"]]
  /\ br = [b \in DOMAIN plan.asks |-> NewBrowser]
  /\ broken = 0

Words(b) == <<plan.asks[b]>> \o plan.more
Enter(s, n, st) == [s EXCEPT !.sock[n].st = st]
Fresh(s, n) == [s EXCEPT !.sock[n].rx = <<>>, !.sock[n].tx = <<>>]
Idle == {n \in Socks : srv.sock[n].st = "CLOSED"}
Calm == UNCHANGED <<plan, broken>>
On(b, phases) == br[b].phase = "open" /\ srv.sock[br[b].sock].st \in phases

(* A browser connects: the first idle socket gets its SYN.                 *)
Connect(b) ==
  /\ br[b].phase = "idle" /\ Idle # {} /\ Calm
  /\ LET n == CHOOSE m \in Idle : \A k \in Idle : m <= k IN
     /\ srv' = Enter(server_action(Fresh(srv, n), n, "TCP_OPEN"), n, "SYNR")
     /\ br' = [br EXCEPT ![b] = [NewBrowser EXCEPT !.phase = "open", !.sock = n]]

(* A SYN for another port is answered with a reset, but the application    *)
(* has gone on with what the socket had left.                              *)
WrongPort ==
  /\ Idle # {} /\ Calm /\ UNCHANGED br
  /\ LET n == CHOOSE m \in Idle : \A k \in Idle : m <= k IN
     srv' = Data(Fresh(srv, n), n)

(* The ACK of the handshake comes, or, if it was lost, the first of the    *)
(* request: that is put in the buffer, but neither read nor acknowledged.  *)
Handshake(b) ==
  /\ On(b, {"SYNR"}) /\ Calm
  /\ \E k \in 0 .. Len(Words(b)) :
     LET n == br[b].sock
         s == [srv EXCEPT !.sock[n].rx = @ \o SubSeq(Words(b), 1, k)] IN
     /\ srv' = Enter(server_action(s, n, "TCP_CONN"), n, "EST")
     /\ br' = [br EXCEPT ![b].sent = k, ![b].unacked = k > 0]

(* More of the request comes.                                              *)
SendWords(b) ==
  /\ On(b, {"EST"}) /\ Calm
  /\ \E k \in br[b].sent + 1 .. Len(Words(b)) :
     LET n == br[b].sock
         s == [srv EXCEPT !.sock[n].rx = @ \o SubSeq(Words(b), br[b].sent + 1, k)] IN
     /\ srv' = server_action(s, n, "TCP_DATA")
     /\ br' = [br EXCEPT ![b].sent = k, ![b].unacked = FALSE]

(* What has come already comes again: the upcall is made all the same.     *)
Repeat(b) ==
  /\ On(b, {"EST"}) /\ br[b].sent > 0 /\ Calm
  /\ srv' = server_action(srv, br[b].sock, "TCP_DATA")
  /\ br' = [br EXCEPT ![b].unacked = FALSE]

(* tcp_poll: the application may go on.                                    *)
tcp_poll(b) ==
  /\ On(b, {"EST"}) /\ Calm /\ UNCHANGED br
  /\ srv' = server_action(srv, br[b].sock, "TCP_NODATA")

(* The browser gets some of the answer, and what it acknowledges is        *)
(* dropped; while the connection is up the application is called.  An      *)
(* acknowledgement is for a segment, which holds a row of a listing or all *)
(* there is: with less room made each time, the same half of a row is      *)
(* written for ever.                                                       *)
Deliver(b) ==
  /\ On(b, {"EST", "ACLOSE"}) /\ Calm
  /\ srv.sock[br[b].sock].tx # <<>>
  /\ \E k \in minw(MinSegment, Len(srv.sock[br[b].sock].tx)) .. Len(srv.sock[br[b].sock].tx) :
     LET n == br[b].sock
         s == [srv EXCEPT !.sock[n].tx = SubSeq(@, k + 1, Len(@))] IN
     /\ br' = [br EXCEPT ![b].got = @ \o SubSeq(srv.sock[n].tx, 1, k)]
     /\ srv' = IF s.sock[n].st = "EST" THEN server_action(s, n, "TCP_NODATA") ELSE s

(* All is sent: the FIN goes out, and the browser answers with its own.    *)
SendFin(b) ==
  /\ On(b, {"ACLOSE"}) /\ srv.sock[br[b].sock].tx = <<>> /\ Calm /\ UNCHANGED br
  /\ srv' = Enter(server_action(srv, br[b].sock, "TCP_CLOSE"), br[b].sock, "FINWT1")

Finish(b) ==
  /\ On(b, {"FINWT1"}) /\ Calm
  /\ srv' = Enter(srv, br[b].sock, "CLOSED")
  /\ br' = [br EXCEPT ![b].phase = "done"]

(* The browser closes first: the server agrees, and what it has not sent   *)
(* stays unsent; the socket is idle again when its FIN is acknowledged.    *)
LeaveEarly(b) ==
  /\ On(b, {"EST"}) /\ broken < plan.losses
  /\ broken' = broken + 1 /\ UNCHANGED plan
  /\ srv' = Enter(server_action(srv, br[b].sock, "TCP_CLOSE"), br[b].sock, "LASTACK")
  /\ UNCHANGED br

LastAck(b) ==
  /\ On(b, {"LASTACK"}) /\ Calm
  /\ srv' = Enter(srv, br[b].sock, "CLOSED")
  /\ br' = [br EXCEPT ![b] = NewBrowser]

(* The connection is reset, or its timer runs out: there is no upcall.     *)
BreakOff(b) ==
  /\ br[b].phase = "open" /\ broken < plan.losses
  /\ broken' = broken + 1 /\ UNCHANGED plan
  /\ srv' = Enter(srv, br[b].sock, "CLOSED")
  /\ br' = [br EXCEPT ![b] = NewBrowser]

Done ==
  /\ \A b \in DOMAIN plan.asks : br[b].phase = "done"
  /\ UNCHANGED vars

Next ==
  \/ WrongPort \/ Done
  \/ \E b \in DOMAIN plan.asks :
       \/ Connect(b) \/ Handshake(b) \/ SendWords(b) \/ Repeat(b) \/ tcp_poll(b)
       \/ Deliver(b) \/ SendFin(b) \/ Finish(b) \/ LeaveEarly(b) \/ LastAck(b) \/ BreakOff(b)

Spec == Init /\ [][Next]_vars

(* The program polls its sockets for ever, and the network loses nothing   *)
(* for ever, as TCP sends again on both sides; the enabling condition is   *)
(* written out.                                                            *)
Ready(b) ==
  b \in DOMAIN br /\
  LET n == br[b].sock IN
  CASE br[b].phase = "idle" -> Idle # {}
    [] br[b].phase = "done" -> FALSE
    [] srv.sock[n].st # "EST" -> TRUE
    [] OTHER -> \/ br[b].sent < Len(Words(b)) \/ br[b].unacked
                \/ srv.sock[n].tx # <<>>
                \/ server_action(srv, n, "TCP_NODATA") # srv

Progress(b) ==
  b \in DOMAIN br /\
  \/ Connect(b) \/ Handshake(b) \/ SendWords(b) \/ (br[b].unacked /\ Repeat(b))
  \/ tcp_poll(b) \/ Deliver(b) \/ SendFin(b) \/ Finish(b) \/ LastAck(b)

Fairness ==
  \A b \in Browsers : []<>~Ready(b) \/ []<><<Progress(b)>>_vars

FairSpec == Spec /\ Fairness

-----------------------------------------------------------------------------
(* Properties.                                                             *)

IsTag(text) == IsTagAt(text, 1)

PageOf(url) ==
  CASE Url[url].fn = "form" ->
         IF <<"send", "submit">> \in Range(Url[url].vars) THEN "resp" ELSE "cancel"
    [] Url[url].fn = "" -> DefaultFile(Url[url].file)
    [] OTHER -> Url[url].fn

(* What a tag may become on the page that answers a request.               *)
TagTexts(url) ==
  CASE Url[url].fn = "form" ->
         {IF <<"state", "happy">> \in Range(Url[url].vars) THEN <<"glad">> ELSE <<"sorry">>}
    [] Url[url].fn = "switchfm" -> {<<"on">>, <<"off">>}
    [] OTHER -> {<<"flat">>, <<"short">>, <<"long">>}

(* The texts of a page with each of its tags replaced as a whole.          *)
Replaced(url) ==
  LET page == Pages[PageOf(url)]
      tags == {i \in DOMAIN page : IsTag(page[i])} IN
  {FlattenSeq([i \in DOMAIN page |-> IF i \in tags THEN t[i] ELSE page[i]]) :
     t \in [tags -> TagTexts(url)]}

IsListing(url) == plan.prog = "WEBSERVE" /\ Url[url].file = ""
Listing == DirHead \o FlattenSeq([i \in DOMAIN plan.dir |-> DirEntry(plan.dir[i])]) \o DirTail

Answers(url) ==
  CASE IsListing(url) -> {Listing}
    [] PageOf(url) \notin Exists ->
         {IF Url[url].fn \in {"form", "switchfm", "sliders"} THEN <<"nofile">> ELSE NotFound}
    [] Url[url].fn = "" -> {Head1 \o Content(PageOf(url))}
    [] Url[url].fn = "form" -> {Head1 \o t : t \in Replaced(url)}
    [] OTHER -> Replaced(url)

(* A row that was begun and then written again counts once.                *)
OnceOnly(text) ==
  SelectSeq([i \in DOMAIN text |->
               IF text[i] \in Exists /\ i < Len(text) /\ text[i + 1] = text[i]
               THEN "" ELSE text[i]],
            LAMBDA u : u # "")

(* A browser gets its page from the start, in order, with every tag in it  *)
(* replaced wherever the chunks of the page end, and when the server has   *)
(* closed the connection it has got all of it (WEB_EGI.C 336-354,          *)
(* WEBSERVE.C 363-387).  Two things about a listing are left out as they   *)
(* are not so: the begun rows, and the last part of its tail.  That a file *)
(* is not found when it is there needs as many connections broken off as   *)
(* use up the files the library lets be open.                              *)
AnswersWhole ==
  \A b \in DOMAIN br :
    LET url == plan.asks[b]
        list == IsListing(url)
        got == IF list THEN OnceOnly(br[b].got) ELSE br[b].got
        none == {NotFound, <<"nofile">>} IN
    \E a \in Answers(url) \cup IF broken > FOPEN_MAX - NSOCKS THEN none ELSE {} :
      /\ IsPrefix(got, a)
      /\ br[b].phase = "done" => Len(got) >= Len(a) - (IF list THEN 1 ELSE 0)

(* A file stays open without a socket that reads it only for a connection  *)
(* that did not end by a close of the server (WEBSERVE.C 383, 264-284).    *)
FilesClosed ==
  srv.files <= Cardinality({n \in Socks : srv.sock[n].in.open}) + broken

(* A click is acted on once, however often its request is repeated and in  *)
(* however many parts it comes (EGI_SWIT.C 57-62, WEB_EGI.C 253-269).   *)
ClicksCount ==
  broken = 0 /\ (\A b \in DOMAIN br : br[b].phase = "done")
    => srv.lamps = {l \in 1 .. 2 :
                      Cardinality({b \in DOMAIN br :
                        \E v \in Range(Url[plan.asks[b]].vars) :
                          v[1] \in DOMAIN SwitchVars /\ SwitchVars[v[1]] = l}) % 2 = 1}

(* Every browser is answered, and its connection closed, once what goes    *)
(* wrong has gone wrong: the server goes on by itself with an answer that  *)
(* is longer than its buffer (WEBSERVE.C 285, WEB_EGI.C 270).              *)
Served == \A b \in Browsers : <>(b \in DOMAIN plan.asks => br[b].phase = "done")
=============================================================================
