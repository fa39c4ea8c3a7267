--------------------------- MODULE MCRequestMetadata ----------------------------
(*****************************************************************************)
(* A small instance of RequestMetadata: one client sends every header of up  *)
(* to two elements, and every connection with some of them; another client   *)
(* sends plain headers meanwhile.                                            *)
(*****************************************************************************)
EXTENDS RequestMetadata, TLC

TwoRequests == {"r1", "r2"}
Fields == {"name"}
Addresses == {"client", "proxy", "other"}
Proxies == {"proxy"}
Tokens == {"good", "nobody", "noaccount", "foreign", "forged", "old", "rsa"}
Issuers == {"irc1"}
Values == Addresses \union Tokens \union {"irc1", "irc2", "ann", "x"}
Max2(S) == UNION {[1 .. n -> S] : n \in 0 .. 2}

TokenClaims ==
  LET Says(alg, iss, account, signer, expired) ==
        [hmac |-> alg, iss |-> iss, account |-> account, signer |-> signer,
         expired |-> expired]
  IN  [t \in Tokens |->
         CASE t = "good" -> Says(TRUE, "irc1", "ann", "irc1", FALSE)
           [] t = "nobody" -> Says(TRUE, "irc1", Empty, "irc1", FALSE)
           [] t = "noaccount" -> Says(TRUE, "irc1", None, "irc1", FALSE)
           [] t = "foreign" -> Says(TRUE, "irc2", "ann", "irc2", FALSE)
           [] t = "forged" -> Says(TRUE, "irc1", "ann", "irc2", TRUE)
           [] t = "old" -> Says(TRUE, "irc1", "ann", "irc1", TRUE)
           [] t = "rsa" -> Says(FALSE, "irc1", "ann", "irc1", FALSE)]

Elem(k, v) == [key |-> k, value |-> v]
Elements == {Elem("extjwt", t) : t \in Tokens}
              \union {Elem(k, "x") : k \in {"name", "account", "issuer", "RemoteIP"}}
              \union {Elem("name", Empty)}

From(header, peer, forwardedFor) ==
  [header |-> header, peer |-> peer, forwardedFor |-> forwardedFor]

Requests ==
  [r \in TwoRequests |->
     IF r = "r1"
     THEN {From(h, "client", None) : h \in Max2(Elements)} \union
          {From(h, peer, f) :
             h \in {<<>>, <<Elem("extjwt", "good")>>},
             peer \in Addresses \union {"unsplittable"},
             f \in {None, "other", "unparsable"}}
     ELSE {From(<<Elem("name", "x")>>, "other", None)}]
================================================================================
