------------------------------ MODULE MCPicWeb ------------------------------
(* Clients of the PIC server for TLC, and the files in its ROM. *)
EXTENDS PicWeb

Wants(service, text) == [port |-> service, request |-> text]
File(name, chars) == [name |-> name, chars |-> chars]
Files == <<File("a", <<"A", "#", "|">>), File("b", <<"B", "@", "~">>)>>

Plan(wants, rom, sure, losses, pace) ==
    [clients |-> wants, rom |-> rom, sure |-> sure, trouble |-> losses, pace |-> pace]

PageA == <<"a", <<"out", 1>>, <<"agent", 0>>>>
PageB == <<"b", <<"hrs", 1>>>>
PageX == <<"x">>
PageY == <<"y", <<"out", 1>>>>
PageRoot == <<Root, <<"out", 1>>>>
Clock == <<"$">>

(* A client that sets an output, frames being lost *)
OneClient == Plan(<<Wants("http", PageA)>>, Files, {1}, 2, "quick")

(* Two clients at once *)
TwoClients == Plan(<<Wants("http", PageA), Wants("http", PageB)>>, Files, {1, 2}, 1, "quick")

(* The same, and frames may wait in the buffer for as long as they like:    *)
(* until their names are read, or without any bound; a ping among them      *)
SlowForms == Plan(<<Wants("http", PageA), Wants("http", PageX)>>, Files, {}, 0, "name")
SlowServer == Plan(<<Wants("http", PageA), Wants("http", PageB)>>, Files, {}, 0, "any")
SlowEcho == Plan(<<Wants("ping", <<>>), Wants("http", PageB)>>, Files, {}, 0, "any")

(* The root, and a file there is not *)
NoNames == Plan(<<Wants("http", PageRoot), Wants("http", PageY)>>, Files, {1, 2}, 0, "quick")

(* A modem and the time; a port nobody serves, a ping and the time as a     *)
(* page; a ROM without files                                                *)
OverModem == Plan(<<Wants("modem", <<>>), Wants("day", <<>>)>>, <<>>, {1, 2}, 0, "quick")
Mixed == Plan(<<Wants("other", <<>>), Wants("ping", <<>>), Wants("http", Clock)>>, <<>>, {1, 2, 3}, 0, "quick")
NoFiles == Plan(<<Wants("http", PageX), Wants("day", <<>>)>>, <<>>, {1}, 0, "quick")

AllPlans ==
    {OneClient, TwoClients, SlowForms, SlowServer, SlowEcho, NoNames, OverModem, Mixed, NoFiles}

Kinds == {"syn", "ack", "get", "fin", "ping", "modem"}
MCFrames ==
    [who : 1..3, kind : Kinds, seq : 0..2, ack : (0..3) \X (0..4),
     data : {<<>>, PageA, PageB, PageX, PageY, PageRoot, Clock}]
MCSize(frame) == IF frame.kind = "modem" THEN 1 ELSE HDR + Len(frame.data)
MCEscaped(frame, k) == frame.who % 2 = 0 /\ k = 1 /\ frame.kind # "modem"
MCPings == {frame \in MCFrames : frame.kind = "ping"}
MCDials == {frame \in MCFrames : frame.kind = "modem"}
=============================================================================
