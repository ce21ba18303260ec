--------------------------- MODULE MCHttpExchange ---------------------------
(* An instance of HttpExchange for TLC.                                    *)
EXTENDS HttpExchange

Header(word, spelling, value) ==
    [name |-> [word |-> word, spelling |-> spelling], value |-> value]

\* One request for every decision that perform takes.
AllRequests ==
    {[Request("/a", "GET", {}) EXCEPT !.timeout = 0],
     [RequestWithBody("/a", "GET", TRUE, {Header("Content-Type", "padded", "v")}, "text")
        EXCEPT !.followRedirects = FALSE],
     RequestWithBody("/a", "POST", FALSE, {}, ""), Request("", "HEAD", {}),
     RequestWithBody("/a", "PATCH", TRUE, {Header("Content-Type", "case", "v"),
                                           Header("", "plain", "v"), Header("X", "plain", "")}, "text")}

\* The bound on redirects is 1, so that it is reached.
SomeRequests == {[r EXCEPT !.maxRedirects = 1] : r \in AllRequests}

Registration(path, word, spelling, handler) ==
    [path |-> path, method |-> [word |-> word, spelling |-> spelling], handler |-> handler]

SomeRegistrations ==
    {Registration("/a", "GET", "plain", "h1"), Registration("/a", "GET", "padded", "h2"),
     Registration("", "POST", "case", "h1")}
=============================================================================
