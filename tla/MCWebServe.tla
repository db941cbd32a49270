----------------------------- MODULE MCWebServe -----------------------------
(***************************************************************************)
(* Two browsers and a server with a few files.                             *)
(***************************************************************************)
EXTENDS WebServe, TLC

Tag(name) == <<"<", "#", name, ">">>

SmallPages ==
  "a" :> <<<<"a1", "a2", "a3">>>> @@
  "b" :> <<<<"b1">>, <<"b2", "b3", "b4", "b5">>>> @@
  "index" :> <<<<"i1", "<", "i2", ">", "i3", "i4", "i5">>>> @@
  "resp" :> <<<<"t", "<", "t", "t">>, Tag("message"), <<"t">>, Tag("message"), <<"t", "t">>>> @@
  "cancel" :> <<<<"c", "c", "c">>, Tag("message"), <<"<", "c", "c">>>> @@
  "switchfm" :> <<<<"t">>, Tag("$led1"), Tag("$led2"), <<"t">>>> @@
  "sliders" :> <<<<"s", "s">>, Tag("$ptr1"), <<"s">>>>

File(f) == [file |-> f, fn |-> "", vars |-> <<>>]
Egi(f, vs) == [file |-> f, fn |-> f, vars |-> vs]
SmallUrl ==
  "/" :> File("") @@
  "/a" :> File("a") @@
  "/b" :> File("b") @@
  "/none" :> File("none") @@
  "/form.egi?happy" :> Egi("form", <<<<"state", "happy">>, <<"send", "submit">>>>) @@
  "/form.egi?cancel" :> Egi("form", <<<<"send", "cancel">>, <<"state", "sad">>>>) @@
  "/switchfm.egi?1" :> Egi("switchfm", <<<<"switch1.x", "7">>, <<"switch1.y", "7">>>>) @@
  "/switchfm.egi?2" :> Egi("switchfm", <<<<"switch2.x", "7">>, <<"switch2.y", "7">>>>) @@
  "/sliders.egi?1" :> Egi("sliders", <<<<"scale1.x", "top">>, <<"scale1.y", "bottom">>>>) @@
  "/other.egi" :> Egi("other", <<>>)

(* What follows the name: the end of the line, and a header that is longer *)
(* than the buffer for a line.                                             *)
Line == <<"nl">>
Header == <<"nl", "hdr", "hdr", "nl">>

Ask(x, y) == [b \in {"b1", "b2"} |-> IF b = "b1" THEN x ELSE y]
Plan(prog, dir, asks, more, losses) ==
  [prog |-> prog, dir |-> dir, asks |-> asks, more |-> more, losses |-> losses]

Files == Plan("WEBSERVE", <<"a", "b">>, Ask("/a", "/b"), Line, 2)
Missing == Plan("WEBSERVE", <<"a">>, Ask("/none", "/a"), Header, 1)
OneList == Plan("WEBSERVE", <<"a", "b", "index", "resp">>, [b \in {"b1"} |-> "/"], Header, 0)
Lists == Plan("WEBSERVE", <<"a", "b", "resp">>, Ask("/", "/"), Line, 0)
Forms == Plan("WEB_EGI", <<"resp", "cancel">>, Ask("/form.egi?happy", "/form.egi?cancel"), Line, 1)
Clicks == Plan("WEB_EGI", <<"switchfm">>, Ask("/switchfm.egi?1", "/switchfm.egi?1"), Header, 0)
TwoLamps == Plan("WEB_EGI", <<"switchfm">>, Ask("/switchfm.egi?1", "/switchfm.egi?2"), Line, 1)
Slider == Plan("WEB_EGI", <<"index", "sliders">>, Ask("/sliders.egi?1", "/"), Line, 1)
Other == Plan("WEB_EGI", <<"resp">>, Ask("/other.egi", "/form.egi?cancel"), Header, 0)

AllPlans == {Files, Missing, OneList, Lists, Forms, Clicks, TwoLamps, Slider, Other}
=============================================================================
