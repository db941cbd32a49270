----------------------------- MODULE MCRouterNet -----------------------------
EXTENDS RouterNet

ByName(hs) == [n \in {h.name : h \in hs} |-> CHOOSE h \in hs : h.name = n]
OnA == {"c1", "c2", "p"}
OnB == {"srv", "srv2", Nobody}

Client(name, remip, port, len) ==
    [Host(name, "A", OnA, "datagram") EXCEPT !.remip = remip, !.port = port, !.len = len]
Pinger(net, remip, len, flood) ==
    [Host("p", net, OnA, "ping") EXCEPT !.remip = remip, !.len = len, !.flood = flood]
Server(name) == Host(name, "B", OnB, "datagram")
Scanner == [Host("sc", "B", OnB \cup {"sc"}, "arpscan") EXCEPT !.scan = <<"srv", Nobody>>]

Case(hs, maxrems, n) == [hosts |-> ByName(hs), maxrems |-> maxrems, trouble |-> n]

MCCases ==
    {Case({Client("c1", "srv", ECHOPORT, 2), Client("c2", "srv", DAYPORT, 1), Server("srv")}, 4, 2),
     Case({Pinger("S", "srv", 2, TRUE), Server("srv"), Scanner}, 2, 2),
     Case({Client("c1", "srv", ECHOPORT, 1), Pinger("A", "rA", 3, FALSE), Server("srv")}, 4, 2),
     Case({Client("c1", "rA", ECHOPORT, 1), Client("c2", Nobody, DAYPORT, 1),
           Pinger("S", "srv", 2, FALSE), Server("srv")}, 5, 1),
     Case({Client("c1", "srv", 99, 1), Client("c2", "far", DAYPORT, 1), Server("srv")}, 2, 1),
     Case({Client("c1", "s", DAYPORT, 2), Host("s", "S", {"s"}, "datagram"),
           Pinger("A", "c1", 3, TRUE)}, 3, 2),
     Case({Client("c1", "s", DAYPORT, 3), Host("s", "S", {"s"}, "datagram")}, 3, 2)}
==============================================================================
