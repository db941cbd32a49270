-------------------------------- MODULE MCPpp --------------------------------
(* Values for TLC: one caller that asks for nothing, one that offers options *)
(* to be refused and wants an address, two that want a login.                *)
EXTENDS Ppp

Plain   == [offer |-> [extra |-> FALSE, auth |-> "none"],
            ask |-> [extra |-> FALSE, addr |-> "theirs"]]
Choosy  == [offer |-> [extra |-> TRUE, auth |-> "none"],
            ask |-> [extra |-> TRUE, addr |-> "null"]]
Login   == [Plain EXCEPT !.offer.auth = "pap"]
Chap    == [Plain EXCEPT !.offer.auth = "chap"]

AllCallers == {Plain, Choosy, Login, Chap}
Choosies == {Choosy}

AnyBuild == BOOLEAN
==============================================================================
