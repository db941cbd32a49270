# Verification of TCP/IP Lean

The repository holds the software of the book "TCP/IP Lean": a TCP/IP stack and
its utilities for DOS and Windows (`src/tcplean/source`, about 8000 lines of C),
a web server for a PIC microcontroller (`src/tcplean/pcm`) and its successor
ChipWeb, which adds clients, DHCP and PPP (`src/ChipWeb/P16Web`). This directory
keeps TLA+ models of them, TLC runs of the models, and proofs.

Run everything in this directory, for instance `tlc -config MCTcpNet.cfg MCTcpNet`
or `tlapm CBuffProofs.tla`.

## 1. The system

### Programs and what they share

Every program of `tcplean` is one process with one loop: take a frame from the
driver, hand it to the protocol, poll the timers, look at the keyboard. There
are no threads; the concurrency is that of two or more programs and a network,
and, in the drivers, of interrupts with the loop. State that outlives a call is
in global tables (sockets, nodes, frame stores) and in circular buffers. The
microcontroller programs have the same shape with one packet buffer each.

    application upcall <-> TCP.C <-> IP.C <-> NET.C rings <-> driver / SLIP / PPP
         (TELNET, WEBSERVE)   |  CBUFF (NETUTIL.C)      |
                              +--- retries, ARP --------+

### Inventory

| Component (source) | State | Operations | What is hard | What makes it correct | Where |
|---|---|---|---|---|---|
| Circular buffer (NETUTIL.C, `buff_*`) | array, `in`, `out`, `trial` as free-running 32-bit numbers | put, try, retry, take, search; TCP moves the pointers itself on an ACK and on a timeout | pointers wrap at two moduli; three parties move them | pointer order; ACKs accepted exactly inside the trial data; behaves as a queue with a trial mark | `CBuff`, `ByteFifo` |
| TCP (TCP.C) | table of `TSOCK`s: state, two buffers, last flags, timer, retries; a static port counter | `tcp_receive`, `tsock_rx` by state, `tcp_poll`, `open_tcp`, `close_tcp`, `reset_tcp`; upcalls into the application | loss, reordering, repeats, restarts, both ends acting at once, timers set back by anything received | the stream is delivered once and in order; nothing is released before it has arrived; a FIN follows all data; two ends never disagree about being connected; nothing hangs | `TcpSock`, `TcpNet` |
| Telnet client, simple servers (TELNET.C) | a closing flag, keys, screen | main loop, upcalls | closing while data is under way | as TCP | in `TcpNet` |
| Web servers (WEBSERVE.C, WEB_EGI.C, EGI_*.C) | per connection: file, directory count, tag buffer, variables; globals for lamps, sliders, the path of a listing | upcalls `server_action`, `http_get`, `http_data`, `egi_execstr`, form functions | answers longer than the buffer; tags cut by chunks; repeated requests; connections that end without an upcall | each browser gets its page whole; files are closed; a click counts once | `WebServe` |
| SCRATCHP (SCRATCHP.C) | one connection: state, error count, two buffers, two `static` numbers; application state | `do_scratchp` on a packet, a command, a timeout or a failure; file and directory transfer | same sequence start on every connection; go-back on timeout; who is in which state when a packet was lost | as for TCP, with its own handshake and close | `Scratchp` |
| Router, IP, ICMP, UDP, ping, ARP scan (ROUTER.C, IP.C, UDP.C, DATAGRAM.C, PING.C, ARPSCAN.C) | frame store, address cache, two half datagrams with an age, request counters | `do_receive`, `do_arp`, cache, `make_ip`, `defrag_ip`, the utilities' loops | frames waiting for ARP are overwritten; stale cache; halves of several datagrams mixed | a waiting frame is sent once, whole, to the right station; no wrong sum; replies are counted once | `IpNode`, `RouterNet` |
| Network rings, drivers, serial, SLIP (NET.C, PKTD.C, ETHERNE.C, ETHER3C.C, SERPC.C) | receive and transmit rings of frames with a header, page ring, interrupt rings, escape and modem state | `get_net`, `put_net`, upcalls from interrupts, polls, `receive_slip` | interrupt between header and body; frames for another driver at the head; overruns; an escape split over polls | frames leave as they came, whole and in order, or are counted as lost | `NetRing` |
| PPP (p16_ppp.c) | LCP and IPCP state bytes with flags, action byte, counters, PAP flags, addresses, one free-running timer | receive handlers, events, `get_net` timers | state left over from the last call; requests that cross; flags in the state byte | the ends agree on addresses and on the login; the link comes up | `Ppp` |
| ChipWeb server, TCP client, mail, DHCP, time, card (p16_tcp.c, p16_http.c, p16_tcpc.c, p16_mail.c, p16_dhcp.c, p16_time.c, p16_ip.c, p16_eth.c, p16web.c) | one set of globals: client state, numbers, tries; mail state; lease; last sender's addresses; two Tx buffers | `tcp_recv`, `tcp_client_recv`, `check_client`, `check_dhcp`, `check_time`, `host_arped`, main loop | lock step over a lossy network; every frame overwrites the shared variables | the dialogue stays in step; success means stored; an address is used only inside its lease | `ChipNode`, `ChipNet` |
| PIC web server (picweb.c, PICSLIP.H, PICTCP.H, ...) | one receive and one transmit buffer, flags and sums set by an interrupt | interrupt, `get_ip`, `tcp_rx`, `http_rx`, `find_file`, `tx_poll` | interrupt against loop; TCP without a connection table | a request is one whole frame; a reply belongs to the request it answers | `PicRx`, `PicWeb` |
| Configuration, string helpers, ROM builder, capture, pins and display, older ChipWeb, documents | none that outlives start-up, or one-byte toggles | - | - | - | not modelled |

The hazards of each component, at their lines and with the properties about
them, are in `PROJECT.json`.

## 2. The modules

Data is abstract throughout: a byte is a model value or its place in the stream,
a frame is a record, a damaged frame is a lost one. Control is kept: one
operator or action per function, handler or step of a loop.

### CBuff, ByteFifo: the circular buffer

`CBuff` has the code's three pointers as numbers modulo `Wrap = 2 * Half` (2^32
in the code), an array `data` of `BuffLen` bytes, and `ret`, the bytes the last
call gave its caller. One action per function: `buff_setall`, `buff_in`,
`buff_infile`, `buff_try`, `buff_out`, `buff_retry`, and the two places in
which TCP.C moves a pointer itself, `AcceptAck` (an acknowledgement in
`tsock_rx`) and `RewindTrial` (a timeout in `remake_tsock`). The two-block
copies of the code are `Store` and `Slice`, index by index modulo the array.
`buff_preload` is called by nothing in the repository and is left out.
`ByteFifo` is the abstract specification: a sequence and how many of its bytes
are on trial. The property `ImplementsFifo` is the refinement, with
`queue <- Queue` (the bytes from `out` to `in`) and `tried <- buff_trylen`.
TCP, SCRATCHP and the web servers are modelled over that abstract queue.

### TcpSock, TcpNet: TCP

`TcpSock` has no variables: a socket is a record, and each function of TCP.C is
an operator from a socket and a segment to a socket and what it sends.
`tsock_rx` is split by state (`InSynr`, `InEst`, ...), `TakeAck` is the
acknowledgement test before the `switch`, `tsock_estab_rx`/`_tx` and
`remake_tsock` are the code's own. `Expire` is `tcp_poll` when the timer has
run out. An upcall is a record `[ok, write, read]`: what it returns, how much
it writes, whether it reads.

`TcpNet` composes two programs and a network. Actions: `Receive` (the whole of
`do_receive`: ARP, the socket search and the reset when there is none), `Poll`
and `Timeout` (`tcp_poll`), `Open`, `Key`, `Display`, `Close`, `Reset` (the
loops of TELNET.C), `Restart` (a program ends without warning and is started
again), `Lose`. The network is a set of frames: order is not kept, repeats are
allowed towards the hosts a plan names. What the programs do, and how much may go
wrong, is a plan (`Plans`) chosen in the initial state. History variables inside a
socket (`wrote`, `got`, `iss`, `irs`) are only read by properties.

Left out: option parsing, checksums, byte order; sequence numbers do not wrap
(`CBuff` covers wrap); the port counter is a plain counter; the retry interval
(time is only an order of events); the one-second wait of TIME-WAIT, which in
the code ends at once.

### WebServe: WEBSERVE and WEB_EGI

Both programs as upcalls of a reliable stream. A socket has the application's
data (the file and its place, the count of directory entries, WEB_EGI's chunk
buffer, variables and form), a transmit and a receive buffer, and the state TCP
is in. `server_action` is the upcall of either program; `http_get`, `http_data`,
`dir_head`/`dir_tail`, `egi_execstr`, `find_connvar`, the form, switch and slider
functions are operators under it. Actions are what TCP can do to it: `Connect`,
`Handshake` (also with its ACK lost and the request already there), `SendWords`
(a request in any parts), `Repeat`, `tcp_poll`, `Deliver`, `SendFin`, `Finish`,
`LeaveEarly`, `BreakOff`, and `WrongPort`. A page is a sequence of chunks as
they are read, so a tag may lie across two of them.

### Scratchp

Two nodes with `do_scratchp` as one operator by state and signal, the error
timer (`Timeout`, `Stall`), the user's open and close, the applications as "write
up to k bytes or read", the end of a program (`Quit`), and an ordered network
that loses. Each beginning of a connection gets a number from `NextId`, a packet carries
it (`of`) and a receive buffer remembers from whose packet it was set (`peer`): history
that no step reads, by which streams with the same sequence numbers are told apart. The
transmit buffer is the queue with a trial mark; of the receive buffer the in pointer is
kept, and that it may be full is the choice of how much of a packet is stored. How many
packets may be under way is a bound of each plan (`cap`).

### IpNode, RouterNet: router and datagram utilities

`IpNode` holds the record of a node and, as operators on it, the main loops of
ROUTER, DATAGRAM, PING and ARPSCAN with the ARP, IP, ICMP and UDP functions they
call. A datagram is a sequence of units `<<message, place>>`, so that a sum can
tell halves that do not belong together; a UDP sum also covers the addresses. `make_ip`
makes as many fragments as the length needs. From the third on they are wrong, as in the
code: each recursive call copies from the offset in the whole datagram out of data that has
already been moved down (IP.C:165-176), so it takes what lies behind them (`Junk`).
`defrag_ip` takes any two neighbours for a datagram and lays them at their offsets (`Placed`),
within a buffer of two full frames (`MAXGEN`).
`RouterNet` puts the router between two Ethernets and a SLIP line with a smaller
MTU, each station with a queue of frames in the order sent. A host's or the
router's pass over its loop is one action; frames are lost and timers run out
early up to a bound per case.

### NetRing: the ring buffers and drivers

The program is NETMON's loop (or a forwarder) over two interfaces. `GetHeader`
and `GetBody` are the two calls in which `get_net` takes a frame from the ring,
since an interrupt may come between them; `TxChar` is the wait for room in the
serial port; the polls of the NE2000, the 3C509, SLIP and the packet driver go one
turn of their loops per step. Beside the program: the cards (`NicArrive`,
`NicSent`, `FifoArrive`, `FifoSent`), the packet driver's two interrupts
(`PktdAlloc`, `PktdComplete`) and the serial interrupt (`SerRxInt`, `SerTxInt`).
Each frame carries where it came from, so a frame made of two is seen.

### Ppp

The two tables of p16_ppp.c (`StateTable`, `ActionTable`) as they are, state
bytes with the flags in the high half, the counters that turn a request into a
final timeout, `DoLcpActions`/`DoIpcpActions`, the receive handlers, PAP, the
timer of `get_net`, power-up in either build (`Builds`) and the part of
`start_client` that brings a link up. The peer is not in the repository: it is
an RFC 1661 automaton with the same tables that sends its request before its
reply, matches each answer with its last request, restarts its timer when it
sends, and may offer options to be refused (`Callers`). Byte stuffing and CRC are
a frame lost.

### ChipNode, ChipNet: ChipWeb on an Ethernet

`ChipNode` is the node as a record with the code's globals and its functions as
operators; a pass of the main loop is their composition. That one set of
globals (the last sender's addresses, the numbers of the segment being made, the two
transmit buffers) serves all clients and servers is what the model is for.
`ChipNet` adds the card's receive ring with its overrun and reset, the wire, and
the stations outside: a mail server (SMTP and POP3) that cuts its replies as
it likes, a browser, an address server with a second customer for its only
address, a time server, a station that probes.

### PicRx, PicWeb: the PIC web server

`PicRx` is the receive half alone, a small specification that can be proved about:
the interrupt stores a character, counts, keeps a running sum and starts a new one at
the end of the headers; the main loop clears the flag, reads the headers and sums, and
goes by what it has read. The interrupt has no guard but the order of the characters: it
overwrites the buffer whatever the main loop is at. `PicWeb` is the whole program: `tcp_rx` by
kind of segment, `http_rx`, `find_file` one directory entry at a time with the form's
arguments read afterwards, `tx_poll` one piece at a time with the file's
variables and the twins that keep its sum, pings with the two further readings of their data
(`EchoSum`, `EchoCopy`), a modem's command; and clients
that repeat what is not answered. How fast the server is against the line is part of a plan
(`pace`, `InTime`): of an "any" server nothing is known; a "name" server has read the
name of a file before the next frame's data reach it, but then searches the directory over
I2C for as long as it likes; a "quick" one has done with a frame before the next overwrites what it still has
to read, or ends. `RxSpec` as a property of `PicWeb` says that the
whole program takes only steps `PicRx` has, so what holds of the part holds
of the whole; the run checks it, and section 5 proves it.

## 3. Runs

| Run | Question | Bounds | Distinct states |
|---|---|---|---|
| `cbuff` | pointer order, ACK window, search, refinement of the queue | 4 bytes, pointers modulo 16, starts before and across both wraps, chunks up to 4 bytes of 2 values | 0.1 M |
| `tcp_net` | stream integrity, ACK means received, FIN follows data, ends agree on being connected | two plans. Stream: 2 bytes through a 1-byte buffer, the client closes at any time, frames to the server repeated. Restarted: ARP, 2 connections, a server that writes, 1 restart at any point. 2 frames each way | 1.4 M |
| `tcp_live` | does every opening, closing and half-open socket end? does data arrive? | 2 bytes, 1 frame each way, 1 restart, the server closes when it likes | 0.1 M |
| `scratch` | stream integrity, pointers, ACK means received, every wait ends | four plans, 1 retry: both open at once and one writes; one opens twice with 1 loss; 3 bytes through a window of 2 with 2 losses; a START that comes late to a node that has ended, with 4 packets under way (2 in the others) | 0.27 M |
| `ppp` | address agreement; tries suffice | 2 calls, 4 kinds of caller, both builds, 2 troubles (losses, early ticks, echoes) | 1.1 M |
| `ppp_link` | does the link come up? | 2 calls, 1 trouble | 55 k |
| `chip_net` | mail, page, lease and address right although all share one set of variables | four cases: two mails; mail and time of day; reading mail and a page; DHCP and time. 0 to 2 frames lost or early timers | 1.2 M |
| `router_net` | right station, right sums, replies counted once, waiting frames asked for, tries suffice | seven cases of 2 to 3 hosts, one with a datagram cut in three, frame store of 3, fragment store of 2, cache of 2 to 5, 1 or 2 troubles | 0.16 M |
| `net_ring` | frames whole, in order, in step, delivered | four pairs of interfaces, a ring of 5 cells, frames of 1 or 2 characters, 2 to 4 frames from each side | 0.59 M |
| `net_twins` | may two SLIP lines be used at once? No | two SLIP lines, one frame each | - |
| `pic_web` | request whole, answers whole, the part implements `PicRx`, clients served | nine plans of 1 to 3 clients, three of them of slow servers, a buffer that holds headers and 2 characters, 0 to 2 frames lost | 1.3 M |
| `web_serve` | pages whole, files closed, clicks counted once, browsers answered | nine plans of 2 browsers, transmit buffer of 6 units, chunks of 4, 2 sockets, 3 files open at most, 0 to 2 connections broken off | 96 k |

Every run needs seconds to two and a half minutes.

Why the bounds are enough. The buffer's behaviour depends on the pointers'
differences and residues only, and 4 bytes modulo 16 show every combination of
the two wraps; the theorems drop the bound. In TCP a buffer smaller than what is
written makes partial storage, retransmission with other boundaries and a window
that overstates the room all happen with two bytes; two frames each way are
needed for reordering and crossing, and a third adds only repeats of those. One
restart with a port used again is the half-open case. In SCRATCHP the losses
exceed the retries, so both sides of every retry limit are seen. In PPP a second
call is what leaves state behind; losses exceed no retry limit in `ppp_link`
because `MaxReqs` must be larger than `MaxTrouble + 1` (the ticks before a call
use up requests too). In the router the frame and fragment stores are smaller
than the datagrams that can wait, so both overflow. In `NetRing` the ring holds one
frame and a part of another, the page ring of four pages wraps with the third
frame, and the serial ring is shorter than an escaped frame. In `PicWeb` the
buffer is shorter than a long request and a second frame always fits behind
the first. In `WebServe` every answer is longer than the transmit buffer and every
tag is cut by some chunk.

### What the violation shows

`net_twins` (`FramesWhole`): `receive_slip` keeps the last character and the
modem's state in `static` variables (NET.C:457-459) that serve every channel, so
with two SLIP lines read in turn an escape on one is applied to a character of the
other. The history of NET.C (line 19) says multi-channel SLIP interference is
fixed, and README.TXT:59 offers SLIP2.CFG with twin SLIP interfaces.

### Where the positive results are sharp

TLC finds a counterexample as soon as the premise is dropped.

TCP
* `StreamProgress` is for a server that only listens. If it writes too, two
  segments can be outstanding when their ACK is lost; the timeout rewinds the
  trial pointer, the peer's ACK is then beyond it and ignored, yet sets the timer
  back, and this repeats for ever (TCP.C:663).
* `OrderlyClose` is for an active close. A server that agrees to a close sends its FIN
  at once and its unsent data never (TCP.C:470); TCP.H:27 has the data first. A reset
  or the last timeout closes a socket without the upcall of the comment at TCP.C:386.
* Two programs in which all sockets are busy answer resets with resets
  (TCP.C:345); the sockets of these runs are free when it would matter.

SCRATCHP
* `OpenerAckedWasReceived` is for the node that opened. The answering node may send
  data before the opener has left OPEN; if the first packet is lost the next one
  fixes the start of the stream behind it, and the lost byte is acknowledged.
* The close in `WaitsEnd` needs at most RETRIES losses (STATE_CLOSE has no SIG_FAIL
  case, SCRATCHP.C:555) and one opening (a node in IDENT leaves a STOP unanswered).
* The data in `WaitsEnd` needs an application that reads: two users who PUT at
  once read nothing, and resend to each other for ever (SCRATCHP.C:720).
* `StreamIntegrity` and `PointersAgree` are about a receive buffer that was set from the
  connection the other node is on (`Follows`). Every stream starts at the same number (101), and
  a START does not say which opening it belongs to: one that was repeated and is still under way
  when the answering node has given up (FAIL), ended or been started again begins a second
  stream there, and the first node, which does not notice, takes its bytes where their numbers
  fall among those of the first (SCRATCHP.C:376, 403). The fourth plan reaches this: without
  the premise TLC finds the mixed stream there. With it both held in 117 million states of a
  simulation with 3 bytes each way, both users opening, 4 openings, 6 losses and 3 to 6
  packets under way, so they do not rest on the bounds of the run.
* `oldrx` is unsigned, so the packet after a lost one can look like one far outside
  the window, and ends the connection (SCRATCHP.C:502).

PPP
* `LinkComesUp` is for callers without login, without an early tick, and on a
  second call without losses: a state byte whose flag is still set is larger than
  any state, so `get_net` gives it no timeouts (p16_ppp.c:397).
* `TriesSuffice` names one exception: on a second call `client_auth` is set by the
  request and cleared by the event the request raises, so a login is agreed to and
  not sent (p16_ppp.c:565).

Router and datagrams
* `TriesSuffice` needs a cache larger than the number of stations. `lookup_cache`
  steps to a negative index, so after a wrap only entries below the next free one
  are seen (ROUTER.C:329), and a reply whose address is not found waits and can be
  overwritten. Entries are never updated (ROUTER.C:311).
* `SumsAgree` and `TriesSuffice` are about plain cases (`Plain`): programs know which hosts are
  on their own network, and a UDP datagram needs no second fragment where it is sent, for
  `make_udp` takes the sum after `make_ip` has put the second part over the data (UDP.C:69),
  so it is always wrong. One that goes through the router to the line may then need
  three fragments, of which the third is wrong (IP.C:173); one case of the run is such a
  datagram, and without the premise TLC finds a host that takes two of its fragments for a
  datagram with a wrong sum. A PING sends no more than two frames of its network hold
  (PING.C:163), from an Ethernet only to stations of that network (below), and from the line no more than
  two fragments there hold, so its messages are never cut into three.
* `RightStation` is for stations that do not address the router's own SLIP side. The
  destination is compared only with the address of the interface a datagram came in on, so
  one for the other interface is passed on to the SLIP line like any other.
* A datagram for the router itself, other than ICMP, is stored with length 0 and the
  router asks for its own address; a ping to the router's far address is not answered;
  PING never starts through a gateway (PING.C:299).

Network rings
* A packet driver together with a polled one mixes frames: the interrupt may come
  between a header and a body that a poll puts into the ring (NET.C:351). So do two
  packet drivers that give the same handle. Both are outside the four setups.
* With SNAP the length in the transmit ring is taken before the SNAP header is
  added, and the ring is out of step (NET.C:303); not modelled. A frame longer than
  legal on the NE2000 is delivered with stale contents (ETHERNE.C:188); the card of the
  model stores legal lengths only.
* A serial overrun spoils the frames that lost characters, and the next one only if
  it took the second half of an escape and the END.

ChipWeb
* The mail server must be near: the SYN goes to `remip`, which is the router's address
  by then (p16_tcpc.c:194, p16_ip.c:138), so a far server is never reached. A time
  server must be far, or be asked before a lease runs out (p16_ip.c:129).
* `TimeServerFound` is for a build without the mail client (`TimeAlone` in `ChipNet`). With
  both, `check_time` may time out and call `arp_host` for the time server just after the mail
  server's ARP answer: `remip` is set, `arp_resp` is still 1, `host_arped` is true with the mail
  server's `remeth`, and the time server is sent to the wrong station for ever
  (p16_ip.c:143-150, p16_time.c:47-49).
* The first line of an answer to RETR must come in a segment of its own, as the rest
  of that segment is dropped. The client does not end if the server resends the first
  part of a reply for ever (p16_tcpc.c:102), so that it ends is not claimed.
* A lease shorter than LEASE_MINSECS is kept longer than it lasts; a refusal is ignored
  and the transaction number not compared (p16_dhcp.c).

PIC web server
* Nothing in the code keeps the next frame from overwriting one that is still being read
  (PICSLIP.H:359-419). `RequestWhole` is therefore about one moment, that in which the sum of a
  request is found right, and needs no premise: TLC finds it false of the states after that in which
  the directory is searched, since the search reads some 20 bytes over I2C for each entry and
  may last longer than the headers of another frame. The page that `AnswersWhole` promises is
  for servers that read names in time, the setting for quick ones, which are done with all of a
  frame (40 characters, about 10 ms at 38400 baud); `SlowForms` and `SlowServer` are the
  counterexamples when either premise is dropped. A ping that is overtaken between the reading
  of its sum and that of its data is answered with a wrong sum (`SlowEcho`).
* `Served` is for a quick server. Without that TLC finds a GET answered by a bare FIN: the
  ACK's END announces a frame, and by the time it is read the GET is in but not counted.
* A daytime client whose ACK is dropped while another answer is being sent waits for
  ever, as nobody repeats a bare ACK; `Served` claims the clients a plan calls sure.

Web servers
* `AnswersWhole` counts a listing's row once though its first half may be written
  again (a row is two writes, WEBSERVE.C), and leaves the tail of a listing, which may
  be cut. A listing beside a request for a file is cut short, as the path is one
  global (WEBSERVE.C:365): two listings at once are checked.
* Listings are checked without breaks: TCP_OPEN does not clear `count`
  (WEBSERVE.C:266), so the next connection on the socket gets the rest of the last listing.
* `FilesClosed` allows one open file for each connection that broke off: there is no
  case for the end of one (WEBSERVE.C:264). After enough of them files that exist are
  not found; that this needs more than FOPEN_MAX less NSOCKS is part of `AnswersWhole`.
* A page of WEB_EGI that ends in a tag which is never closed is read for ever, and the
  address of the last five bytes lies before the buffer for a last chunk shorter than
  that; pages of the model end in text.
* A header line longer than the 80 characters of its buffer is cut and can leave a lone
  newline, which `buff_chrlen` reports as length 0, so no later line is read; the plans
  with a long header show that the answer is complete all the same.

## 4. Fairness

* **TCP** (`LoopFairness`): the loops run for ever, so a waiting frame is taken or
  lost; the timer of a socket that is neither closed nor established expires,
  because nothing it receives in those states sets it back for ever; that of an
  established socket expires if it is quiet again and again, since every frame
  for it does set it back. Nothing is assumed of the applications or of the
  network. `NetFairness`, a premise of `StreamProgress` only, says that the
  network does not lose every frame, nor every one with data.
* **SCRATCHP** (`LoopFairness`): a packet is taken or lost, what can be sent is
  sent, an armed timer expires or is refreshed by a packet. The user does not
  stall a node again and again for ever (`Stall`) and an application does not
  leave its buffer full for ever (`NoRoom`).
* **PPP** (`Fairness`): both ends poll their line and their timer (weak fairness of
  four actions). Nobody has to call, hang up or lose anything.
* **NetRing** (`LoopSpec`): the main loop goes on, a card or port sends what it holds, a
  packet driver completes the frame it has asked a buffer for. Nothing has to arrive.
* **PicWeb** (`FairSpec`): characters arrive, the main loop and both polls turn, a
  client starts and repeats what has no answer.
* **WebServe** (`FairSpec`): for each browser something that can go on does so in the
  end; TCP, which repeats on both sides, is what justifies it. Breaking off is never
  required.
* ChipNet and RouterNet are checked for safety only.

## 5. Proofs

`CBuffProofs` proves, for every buffer size and every pointer width that is a
multiple of it (`CBuffAssumption`):

* `TypeCorrect`: `Spec => []TypeOK`;
* `PointersOrdered`: `Spec => []PointerOrder`: going round the number range from
  `out`, `trial` is met before `in` and all lie within one buffer length;
* `AckWindowHolds`: `Spec => []AckWindow`: the sign trick of `in_limits` accepts
  exactly the acknowledgements of data on trial.

The invariant is the conjunction of types and pointer order. The order is what
makes a masked difference (all the code computes) equal to the distance between
the raw pointers (`MaskedLengths`); each action then adds a length the code has
clipped to one of those distances (`InKeepsOrder`, `TrialKeepsOrder`,
`OutKeepsOrder`, `RewindKeepsOrder`, `AckKeepsOrder`). `AckWindow` follows from the
order alone: all distances are smaller than half the range. The arithmetic of
`%` that the provers lack is in `ProofFacts`.

The second half builds on that invariant:

* `FifoImplemented`: `Spec => ImplementsFifo`, the refinement of the queue. Under the
  invariant the queue is the array read from `out` for `in - out` bytes; what `Store`
  writes lies beside it, so a put appends, a take drops from the front, and the trial
  length moves as `ByteFifo` says. There is one lemma for each call, and each step of
  `CBuff` maps to a step of `ByteFifo` or to none.
* `ChrlenFinds`: `Spec => []ChrlenFindsFirst`: the search in two blocks gives the length
  before the first match, wherever the text lies in the array.

`PicWebProofs` proves three things. The first, `RequestsAreWhole`: `RxSpec => RequestWhole`,
is about the receiver alone, for frames of any number and length and any sizes of buffer and
headers that `RxAssumption` admits, arriving at any moment: the step that finds the sum of a
request right finds its headers and its data those of one frame. It rests on an invariant
about what the interrupt holds while a frame is arriving (`SumBefore`: the sum is of the
characters so far; `SumOfArriving`: it was started at the end of the headers) and
says that the reader's copy was taken while the frame in the buffer was the one announced.

The others are about the whole program with its clients, for any clients and requests, any
files in the ROM, a count of connections that wraps anywhere, and any number of lost frames.
`FramesAssumption` says what the frames are that clients send, and how long;
`PlansAssumption` that a request is a sequence, that of a browser one that begins with a name.

* `ServerReceives`: `Spec => RxSpec`, the refinement: every step of `PicWeb` is one of `PicRx`
  or leaves its variables alone (`NextReceives`), so `RequestWhole` holds of the program. This
  is not a matter of shape: the queue must at all times hold nothing but frames of the
  clients (`Kept`), so it rests on what answers the clients take, and that on the rest of the
  invariant.
* `PagesAreWhole`: `Spec => []AnswersWhole`. The invariant `WebInv` follows a page from the
  request to its client. When a request is taken up, its name and client are those of one
  frame, and in what a server reads in time they still are (`InPlace`); `Searching`, that the search has passed over no file of that name and the
  transmitter is free for its answer; `Answer`, that headers under way are those of an
  answer to the one they are addressed to, with a sum that is that of the page it wants;
  `Part`, how much of it has gone, the twins in it being substituted alike, as the outputs
  do not change while it is sent (a segment that comes meanwhile is not looked at, `Busy`);
  `Known`, that a client that has no page yet expects the first character, so it takes an
  answer once. For the settings `QuickKnows` is needed: a quick server has in `rxcount` the
  length of the very frame whose sums were right (`SettingIs`). An echo of a quick server is
  copied from the characters that were summed (`EchoCopied`).

The proof found three things in the model. `AnswersWhole` used to claim that a page shows
what the request has set even if the ROM has no file of the name: the first file is sent
then, and `check_formargs` is not called (picweb.c 346-354); no plan of the run had such a
request. Nor was there one for the root, whose name is empty and fits the first file
(600-601), so that its settings do count. Both are in the run now (`NoNames`). And `Wanted` was
a CASE with overlapping guards, of which TLC takes the first and the logic either.

`TcpNetProofs` proves `StreamsWhole`: `Spec => []StreamIntegrity` of `TcpNet`, for any
number of sockets, connections, restarts, bytes written and frames under way, any
buffer and segment size and any behaviour of the applications that `PlanOK` admits.
`TcpNetAssumption` takes two things for granted: `Isn` moves on between two
connections of a host (`mstime() * 0x100`, or `* 100` for a client, so not two in one
tick), and a connection sends fewer numbers (SYN, bytes and FIN) than that moves on until
the next (`IsnStep`; 256 or 100 for each millisecond). A segment does not name its
connection, so the argument is about ranges: every data segment under way holds bytes of one connection of its sender, in
their places (`SegOK`); what a socket expects next lies in the range of the
connection it was opened for (`RxStream`, `Numbers`); `NewData` takes only data that
covers the byte expected next, so both are in one range, and two sequence starts in one
range are the same (`IsnsApart`). That needs the transmit side (`TxStream`: the
queue holds what was written, from `txo` on), that a SYN is sent and repeated only with
the number before the first byte (`LastFlags`), and that a client that has yet to open
has nothing of an earlier connection to repeat (`FreshOK`). There is one lemma for each
function, one for each state of `tsock_rx` and one for each action; the whole
invariant (`NetInv`) was model-checked on the plans of `tcp_net` and `tcp_live` first.

The second half of the module goes on from `NetInv` and proves the three other invariants of
`TcpNet`, under the same assumptions:

* `EstablishedAreConnected`: `Spec => []ConnectionsAgree`;
* `AckedBytesArrived`: `Spec => []AckedWasReceived`;
* `CloseLosesNothing`: `Spec => []OrderlyClose`.

None is inductive: each relates a socket to one it shares no state with, through segments
that may belong to a connection that is gone. The argument is about the order in which
connections begin, since sequence starts only grow. The client has one socket `X`, and since its
port is always the first after a start, the server has at most one used socket
(`ServerPorts`; a segment for another port finds another socket, or no other exists). These
two are a `Pair`:

* `ClientOK`: an acknowledgement under way to the server that is not from `X` is from a
  client that is gone, and is of a server's connection that began before any answer to `X`
  (its SYN+ACK has a later number). So it cannot establish the server's socket once `X` is
  answered.
* `Link`: if the server's socket is established, then by `X` and `X` is connected to it, or by a
  client that is gone and `X` has no answer; if `X` is answered by a server that is gone, the
  server's socket is of a later start. And if both are connected, in each direction: what
  was received was sent (`Takes`, with the place of the FIN), and what is acknowledged, by
  any segment under way, was received (`Sure`).
* `AllOK`: every socket remembers only what its state may send again (`Remembers`, `Placed`),
  and every segment has a kind and a date (`Kind`, `SegDated`: before the next start of its
  host).

The functions of `TcpSock` are described once, by what they do to the numbers that matter
(`Goes`: `TxStep`, `RxStep`, `StateStep` and what is said, `Speaks`), in one lemma for each state
of `tsock_rx` and for timeout, reset, close and key; three more describe how a connection
begins (`BeginsS`, `BeginsC`, `Answers`). The rest is about pairs: a move of either side, a
beginning and an answer keep `Pair`, and each action of `TcpNet` is one of those. The
invariant was model-checked on small plans first, which showed that it needs two things `PlanOK`
now says: the FIN and the SYN have numbers too, and the client's upcall always agrees
(`client_action` returns 1), so the client's socket closes only when its program ends.

`ChipNetProofs` proves three invariants of `ChipNet`, for any number of customers, losses,
early timers and frames, any lease time and any build (`ChipNetAssumption`):

* `Leased`: `LeaseMin <= Lease => (Spec => []AddressLeased)`: a node whose address is bound has
  a lease of it at the server, and no customer has another. With a shorter lease the node
  keeps the address longer than it lasts (`LEASE_MINSECS`, section 3).
* `TimeFound`: `TimeAlone => (Spec => []TimeServerFound)`.
* `OnePage`: `Visits => (Spec => []PageFits)`: a browser that asks in one segment for a name
  the ROM has, or for the time of day, is given that page, once, or nothing. `Visits` leaves
  out names that are not in the ROM (the answer is then the index page) and requests in two
  pieces.

For the first the invariant (`LeaseInv`) relates three clocks: what is left of the lease at
the server is at least what the node believes is left (`InLease`; a second that has passed
outside and is not yet counted by the node included), an ACK under way is of a lease just
given (`AcksFresh`), and every frame on the wire has a shape the node's handlers can
tell (`AllGo`, `AllCome`). For the second every ARP answer that can be under way is the
router's. Each has one lemma for each operator of `ChipNode` on the node's record and one
for each action.

The third needs the whole conversation, since the server has only the segment before it to
tell a request by (`PageInv`, checked by TLC on every state of `chip_net` first). Every frame
to the browser, under way or in the buffer for resending, greets it, is empty, or is the page
in answer to a segment that acknowledges just the server's SYN (`Tells`); every frame of the
browser that has data is the whole request with that acknowledgement (`Asks`); and the browser
has got nothing and expects the byte after the SYN, or has the page and expects the number
after the FIN, whose remainder of 65536 is another (`Browses`). So a second copy of the page
is never in its place, and a browser that has its page never repeats the request. What the
mail client, the time client and the lease do in between with the same variables is covered
by `LeaseInv` and by one more lemma for each operator: they send nothing to the browser.

`PppProofs` proves `AddressesHold`: `Spec => []AddressesAgreed` of `Ppp`, without any
assumption on a constant: any number of calls, losses, retries and early timeouts, and all
callers and builds. The invariant (`AddrInv`) was model-checked on all states of `ppp` first.
Its parts:

* `HostUp` or `HostDown`: between calls nothing is under way. LCP leaves Opened only with
  an action that takes IPCP down, which is a fact about the two tables
  (`LcpTable`), so IPCP is only ever in the states of `IpcpStates`, where only requests, ACKs and
  NAKs travel.
* `AllFromHost` with `InOrder`: what the peer has under way is in the order sent, and once
  its request is one this end accepts (`Final`) it never asks for another.
* `AllFromPic`: this end acknowledges only what the peer asks for now, and asks for its own
  address.
* `HostAddr`, `PicAddr`: an end that is settled has the address the other end has acknowledged.

Facts about sequences of frames of several shapes (what holds of each, and of each pair
in order, when frames are appended or the first is taken) and about
sequences of up to three units are in `ProofFacts`.

`NetRingProofs` proves three properties of `NetRing`, for any sizes of rings, pages and
frames, any setups and any traffic (`NetAssumption`; `SetupAssumption` only says that frames
are sequences that are not empty: a frame has at least its header):

* `CardInStep`: `Spec => []NicInStep`, with no condition on the other net. How many pages a
  page is ahead of the driver's place (`Ahead`) says all that matters: frames lie in order
  from there to the card's place, each followed by the next, and the boundary is not before
  that place (`NicRing`). A frame is stored only if none of its pages is the boundary, so
  the card's place does not pass it (`ArriveRing`); `get_etherne` moves place and boundary
  on by one frame (`GetRing`); `resetnic` empties the ring and brings both back (`ResetRing`).
* `FramesAreWhole`: `Spec => [](NoSerial /\ Apart /\ Unmixed => FramesWhole)`. The three
  conditions are on the chosen setup, which stays: a serial line may lose characters, two
  packet drivers with the same handle are confused, and a packet driver that interrupts
  the poll of a card puts its frame between a header and its frame (section 3; TLC finds
  the frame that is not whole). Elements of a ring are headers or data; a header is followed
  by its frame and the next header (`Laid`), unless a poll still holds the frame, and then it
  is the last and there is room (`RingWhole`); what devices hold is whole (`NetWhole`); types
  are needed first (`RingInv`). The whole invariant was model-checked on two cards of each
  kind, two packet drivers and a mixed pair.
* `InOrder`: `Spec => [](NoSerial /\ Apart /\ Unmixed => SentAsGot)`, under the same
  conditions. A frame of a net goes from the device to the poll or the upcall, to the receive
  ring and to the program, and when it is passed on to the transmit ring, which both nets
  share, to the other device and onto the wire. Frames at a later stage have arrived
  before those at an earlier one, and those at one stage are in order: `RxOrder` says so of
  the way in, `TxOrder` of the way out, with what goes out being among what was got. Both
  rest on `RingInv` and the wholeness above, since the number of a frame is read from its units:
  that an element taken from a ring is one frame is what makes its number mean anything. TLC
  found both parts true on small instances before they were proved.

`RouterNetProofs` proves three invariants of `RouterNet`, for any number of hosts on the three
networks, any sizes of cache and stores, any losses and early timers:

* `ForThisStation`: `Users => (Spec => []RightStation)`;
* `AskedFor`: `Users => (Spec => []WaitingIsAsked)`;
* `RightSums`: `Users => (Spec => []SumsAgree)`.

`NetAssumption` says what a network is: every host has a name of its own and has just
started, that a datagram fits in a buffer and a PING's message in two frames, and that the SLIP
line has one host at its end. `Users` says that nobody names the router
by its address on the line: a datagram for that address comes in from an Ethernet, is not
`mine` there (`RouterIp[f.net]`), is sent out on the line, and reaches the host at its end.

The invariant (`NetInv`) has three parts. Every frame under way is `Sound`: its source
address is its sender's own or it was forwarded, it goes to the station it is for or to the
router, and an answer to a request that a host makes tells the address the host asked for. A
host has the hardware address of the station it asked for or of the router (`HostOK`), though a
PING and a DATAGRAM take answers on different grounds (`Answered`). The router's cache has
hosts with their own hardware addresses, and what waits has two addresses that datagrams may
have (`CacheOK`, `StoreOK`); what the search of the cache does not see does no harm. For the
second theorem `WaitInv` adds that the place for the next datagram is free (the request is
built there, ROUTER.C 219) and that of each datagram that waits the request is in its host's queue
or the answer in the router's. `Adds`, `Empties` and `SameStore` are all that a frame can
do to the store; that an answer leaves no datagram for its sender (`FlushAllKeeps`) and that
every frame that reaches a station is put in its queue (`Reached`) are shown by induction: a
set of numbers has a least one, so one that has 0 and with each number the next has all
(`AllNumbers`).

The third theorem has an invariant of its own, `SumInv`. A frame that is a half of a message
(`Half`) has one of its two parts, cut at one place; what is not a half is whole or empty
(`Content`). Two halves with one ident and one sender's address that may meet, in the queue
or the fragment store of one station (`Halves`), are of one message, cut at one place
(`Alike`). That is so because idents grow: whoever has made a half (`Carrier`) has since
moved its ident on. There could still be two makers of halves from one address, the host
itself and the router, which puts a datagram together and cuts it again with idents of its
own; but a datagram between two hosts on one network goes directly and any other through the
router (`Way`), so at one station all halves from one address have one maker. The rest is
that every step makes, stores and passes on only such frames (`TxSums`, `RxSums`,
`RouterRxSums`, `PassSums`). It is claimed of plain cases, and there nothing is ever cut into more
than two fragments, which is shown too: a message of PING on an Ethernet stays there, as its
ARP request is answered only by a station there, one from the line is no longer than two frames
of the line, and a UDP datagram is no longer than a frame of the Ethernet it comes from, which is two of the line. TLC found `SumInv` true in every
state of `router_net` before it was proved. The model's idents are not cut to 16
bits: in the code a half that has waited in a store for 65536 fragments of its sender could
meet a half of another message with the same ident.

Only model-checked: everything about SCRATCHP, PPP's `TriesSuffice` (the tries are a matter of the bounds), the mail dialogue
of `ChipNet` (`DialogueInOrder`, `SuccessMeansStored`), `RouterNet`'s counts and
tries (`PingCounts`, `TriesSuffice`), serial lines in `NetRing`,
the web server and EGI of `WebServe`,
and all liveness (the prover has no reasoning about fairness and ENABLED). Not
provable with the installed provers: what a RECURSIVE operator yields for every input, as
the library's induction theorems take an operator as a parameter. For the two recursive
functions of `RouterNet` the least element of a set of numbers takes their place.

## 6. Not modelled

* Configuration files, command lines, string helpers, display, keys, logging: no
  state that outlives start-up, or output that no property is about.
* Formats, checksums, byte order, option parsing, escapes in PPP: conversions; a damaged
  frame is a lost frame.
* Opening and closing of drivers, UART and card registers, line status, SERWIN.C: hardware
  access below what the rings need.
* SNAP framing, IP options, directed broadcasts, TFTP requests
  (called by nothing).
* ROM image builder (an offline tool), ChipWeb's packet capture (a four-state toggle),
  pins, ADC, watchdog (off by a fuse in picweb.c), the PAP server (`server_auth` is never set),
  the diagnostic command of the PIC server.
* ChipWeb v1.03: an older version of the server in P16Web with generated listings.
* A fourth slider on a page is stored past the array of three (EGI_SLID.C:65): pages of the
  model have at most three.
