------------------------------ MODULE MCChipNet ------------------------------
(* A mail sender used twice, a mail sender asked for the time of day, a mail *)
(* reader visited by a browser, and a node with the address and time clients. *)
EXTENDS ChipNet

Sender == PowerUp({}, {}, SMTP_PORT)
Reader == PowerUp({}, {}, POP3_PORT)
Polled == PowerUp({"dhcp", "time"}, {"time"}, 0)
Rom == <<"index", "page", "off">>

Case(node, port, request, press, lost) ==
    [node |-> node, visit |-> [port |-> port, request |-> request],
     presses |-> press, trouble |-> lost]
AllCases == {Case(Sender, 0, <<>>, 2, 1), Case(Sender, DAYPORT, <<>>, 1, 0),
             Case(Reader, HTTPORT, <<"page">>, 1, 1), Case(Polled, 0, <<>>, 0, 2)}
==============================================================================
