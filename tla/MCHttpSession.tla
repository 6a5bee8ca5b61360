--------------------------- MODULE MCHttpSession ---------------------------
(* HttpSession with a route of each kind.  The requests vary what the      *)
(* gates look at on the routes that have them, and the framing on another. *)
EXTENDS HttpSession

CONSTANTS c1, c2, home, login, intranet, vault, broken

MCConns == {c1, c2}
MCRoutes == {home, login, intranet, vault, broken}
MCNtlm == {intranet, vault}
MCRealm == {login, vault}
MCCanned401 == {broken, NoRoute}
MCRequests ==
  [method : {"GET"}, path : {intranet, vault},
   auth : {Type1} \cup {Type3(TRUE, n) : n \in 1 .. MaxChallenges},
   framing : {"none"}, wantsClose : {FALSE}]
  \cup [method : {"GET"}, path : {intranet}, auth : {NoAuth, BadNtlm, Type3(FALSE, 1)},
        framing : {"none"}, wantsClose : {FALSE}]
  \cup [method : {"GET"}, path : {vault, login}, auth : {NoAuth, Basic(MCRealm)},
        framing : {"none"}, wantsClose : {FALSE}]
  \cup [method : {"GET"}, path : {login}, auth : {Basic({})},
        framing : {"none"}, wantsClose : {FALSE}]
  \cup [method : {"OPTIONS"}, path : {login}, auth : {NoAuth},
        framing : {"none"}, wantsClose : {FALSE}]
  \cup [method : {"TRACE", "OPTIONS"}, path : {vault}, auth : {Basic(MCRealm)},
        framing : {"none"}, wantsClose : {FALSE}]
  \cup [method : {"HEAD"}, path : {NoRoute, broken}, auth : {Basic({})},
        framing : {"length"}, wantsClose : {TRUE}]
  \cup [method : {"POST"}, path : {home}, auth : {NoAuth},
        framing : {"late", "chunked"}, wantsClose : {FALSE}]
(* The run of InStep: one route, and bodies that are all there in time.    *)
BodyRequests ==
  [method : {"POST"}, path : {home}, auth : {NoAuth},
   framing : {"none", "length", "chunked"}, wantsClose : BOOLEAN]
=============================================================================
