----------------------------- MODULE MCHttpConn -----------------------------
(* Instances of HttpConn for TLC. *)
EXTENDS HttpConn

Text(t) == <<"text", t>>
Get(path, keep) == [method |-> "GET", path |-> path, keep |-> keep, form |-> <<>>]
Post(path, keep, form) == [method |-> "POST", path |-> path, keep |-> keep, form |-> form]

Both == <<Text("username"), <<"=">>, Text("u"), <<"&">>, Text("password"), <<"=">>, Text("p")>>
NoPassword == <<Text("username"), <<"=">>, Text("u"), <<"&">>, Text("password"), <<"=">>>>

Scripts == {
    <<Get("/", TRUE), Get("/none.html", FALSE)>>,
    <<Get("/secret.html", TRUE), Get("/empty.html", TRUE)>>,
    <<Post("/login", FALSE, Both)>>,
    <<Get("/login", TRUE), Post("/register", TRUE, NoPassword)>>,
    <<Post("/login", TRUE, Both), Get("/", TRUE)>>}

NoFile == {"/none.html"}
NoRight == {"/secret.html"}
NoByte == {"/empty.html"}
=============================================================================
