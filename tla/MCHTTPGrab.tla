----------------------------- MODULE MCHTTPGrab -----------------------------
(* HTTPGrab with a target reached by name or by address, with and without a *)
(* proxy, a redirect bound of 2, and a server that may answer with each     *)
(* kind of response the redirect loop tells apart.                          *)
EXTENDS HTTPGrab

Absolute(h, u) == [kind |-> "url", host |-> h, uri |-> u, parseOK |-> TRUE]

MCResponses ==
    { [status |-> 200, location |-> NoLocation, canRedirect |-> FALSE],
      [status |-> 403, location |-> NoLocation, canRedirect |-> FALSE],
      [status |-> 301, location |-> Absolute("b.example", "/b"), canRedirect |-> TRUE],
      [status |-> 302, location |-> Absolute("", "/r"), canRedirect |-> TRUE],
      [status |-> 302, location |-> Absolute("c.example", "/c"), canRedirect |-> FALSE],
      [status |-> 301, location |-> [Absolute("b.example", "/b") EXCEPT !.parseOK = FALSE],
       canRedirect |-> TRUE],
      [status |-> 302, location |-> EmptyLocation, canRedirect |-> TRUE],
      [status |-> 302, location |-> NoLocation, canRedirect |-> TRUE],
      [status |-> 304, location |-> Absolute("b.example", "/b"), canRedirect |-> TRUE],
      [status |-> 305, location |-> Absolute("proxy", "/"), canRedirect |-> TRUE],
      [status |-> 308, location |-> Absolute("b.example", "/b"), canRedirect |-> TRUE] }

MCDomains == {"", "a.example"}
MCProxyConfigs == {NoProxy, [text |-> "proxy:3128", host |-> "proxy"]}
MCMaxRedirects == 2
=============================================================================
