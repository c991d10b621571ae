--------------------------- MODULE MCRemoteConfig ---------------------------
(***************************************************************************)
(* RemoteConfig with three executions, on addresses of one and two bytes.  *)
(***************************************************************************)
EXTENDS RemoteConfig

Plain    == [web |-> TRUE, login |-> "own"]
Template == [web |-> TRUE, login |-> "user:password"]
NoScheme == [web |-> FALSE, login |-> "own"]

V4Text(n) == [bytes |-> V4, n |-> n]
Host      == [text |-> V4Text(11), ones |-> 1]  \* of 8..15
FirstHost == [text |-> V4Text(9), ones |-> 2]   \* its gateway would be itself
OnlyHost  == [text |-> V4Text(9), ones |-> 4]

Static ==
  [cmd |-> "static", names |-> {"-h"}, links |-> 1, malformed |-> FALSE, force |-> FALSE,
   last |-> FALSE, host |-> Host, gateway |-> NoGateway, urls |-> <<Plain, Template>>]
Inside  == Computed(V4Text(12))
Outside == Computed(V4Text(3))

MCOptions == {
  Static,
  [Static EXCEPT !.host = FirstHost],
  [Static EXCEPT !.host = OnlyHost, !.urls = <<Template>>],
  [Static EXCEPT !.gateway = Inside, !.last = TRUE, !.urls = <<Plain>>],
  [Static EXCEPT !.names = {"-H"}, !.gateway = Outside, !.last = TRUE],
  [Static EXCEPT !.names = {}, !.gateway = Outside, !.force = TRUE],
  [Static EXCEPT !.last = TRUE, !.urls = <<Template>>],
  [Static EXCEPT !.last = TRUE, !.urls = <<Plain, NoScheme>>],
  [Static EXCEPT !.cmd = "dhcp", !.links = 0],
  [Static EXCEPT !.cmd = "dhcp", !.force = TRUE, !.urls = <<Template>>],
  [Static EXCEPT !.cmd = "run", !.names = {}, !.links = 0, !.urls = <<>>],
  [Static EXCEPT !.links = 2],
  [Static EXCEPT !.names = {"-h", "-H"}]}
=============================================================================
