----------------------------- MODULE MCTooling -----------------------------
(* Small instances of the tooling for TLC. *)
EXTENDS Tooling, TLC

Tokens ==
  {"--evidence", "--include", "--tsconfig", "--expiring-within-days", "--no-tsconfig",
   "--json", "--check", "--help", "init", "path", "7", ""}

SeqsUpTo(set, n) == UNION {[1 .. k -> set] : k \in 0 .. n}

\* Every short line, and longer ones of a run that goes through.
MCArgvs ==
  SeqsUpTo(Tokens, 3)
  \cup {<<"--evidence", "path">> \o line : line \in SeqsUpTo({"--json", "--check", "--strict", "--evidence", "path"}, 3)}

MCPatterns  == SeqsUpTo({"a", "*", "/"}, 5) \cup SeqsUpTo({"a", "*", "/", "?"}, 3)
MCAllow     == SeqsUpTo({"a", "*", "/"}, 3)
MCFileNames == SeqsUpTo({"a", "b", "/"}, 3)
MCCwds      == {<<"/">>, <<"/", "w">>, <<"/", "w", "w", "a">>, <<"/", "w", "/", "v">>,
                <<"C", ":", "\\", "w">>}

\* Calls of the platform: what meets a feed of its project, and the odd ones.
First == [project |-> "p", place |-> 1]
Feed(by) == Ask("stream", by, "p", NoAccount, First, TRUE)
Lists(by) == Ask("list", by, "p", NoAccount, First, TRUE)
Pays(by) == Ask("pay", by, "p", NoAccount, First, TRUE)
Creates(by) == Ask("create", by, "p", NoAccount, First, TRUE)
Disputes(by) == Ask("dispute", by, "p", NoAccount, First, TRUE)

Meeting == {Feed("a"), Lists("a"), Creates("b"), Pays("a"), Disputes("b")}
Odd ==
  {Ask("create", "b", "p", NoAccount, First, FALSE), Ask("pay", "a", "q", NoAccount, First, TRUE),
   Ask("login", "a", "p", "admin", First, TRUE), Ask("login", "a", "p", "guest", First, TRUE),
   Ask("register", "a", "p", "guest", First, TRUE), Ask("register", "a", "p", "admin", First, TRUE),
   Ask("logout", "a", "p", NoAccount, First, TRUE), Ask("me", "a", "p", NoAccount, First, TRUE),
   Ask("open", "a", Directory, NoAccount, First, TRUE), Ask("stream", "b", "q", NoAccount, First, TRUE),
   Ask("create", "b", "q", NoAccount, First, TRUE), Feed("b")}
MCScripts ==
  {<<Feed("a"), x, y>> : x, y \in Meeting}
  \cup {<<x, y>> : x \in Odd, y \in Odd \cup Meeting}
  \cup {<<Lists("a"), Pays("a"), Pays("a")>>, <<Lists("a"), Pays("a"), Feed("b"), Creates("b")>>,
        <<Feed("a"), Feed("b"), Creates("b"), Disputes("b")>>}

\* Source trees: a field's and its capability's declarations, what the operations
\* write and exchange, who reads what, what is cited.
Bare ==
  [property \in {"owner", "sensitivity", "protections", "retention", "purpose", "legalBasis",
                 "dataResidency", "auditRequired"} |-> Undeclared]
Sensible == [Bare EXCEPT !.sensitivity = "declared"]
Endpoint(direction, handling) == [direction |-> direction, name |-> "api", handling |-> handling]
Writing(fields, ends) == [writes |-> fields, endpoints |-> ends]
Tree(c, fx, fy, cited, get, es) ==
  [docs |-> [property \in DOMAIN Bare |-> c[property]]
              @@ [fields |-> [x |-> fx, y |-> fy], evidence |-> cited,
                  operations |-> [get |-> get, put |-> Writing({"y"}, {})]],
   edges |-> es, files |-> [s |-> 1, t |-> 1]]

Edges ==
  {Edge("reads-field", "x", "resolved", "s"), Edge("reads-field", "none", "indeterminate", "t"),
   Edge("imports", "none", "indeterminate", "s"), Edge("imports", "none", "resolved", "s"),
   Edge("imports", "none", "unresolved-consumer", "t")}
Uncited == [x |-> {}, y |-> {}]

MCWorlds ==
  {Tree(c, fx, Sensible, Uncited, get, es) :
     c \in {Bare, [Sensible EXCEPT !.auditRequired = "yes"],
            [Bare EXCEPT !.owner = "declared", !.purpose = "declared", !.legalBasis = "declared",
                         !.auditRequired = "yes"]},
     fx \in {Bare, Sensible,
             [Sensible EXCEPT !.owner = "declared", !.purpose = "declared", !.auditRequired = "no"]},
     get \in {Writing({"x"}, {Endpoint("input", Undeclared), Endpoint("output", "encrypted")}),
              Writing({"x", "y"}, {Endpoint("input", "plaintext")})},
     es \in {{}, {Edge("reads-field", "x", "resolved", "s")}}}
  \cup {Tree([Sensible EXCEPT !.auditRequired = "no"], Bare, Bare, cited, Writing(written, {}), es) :
          cited \in {Uncited, [x |-> {"s"}, y |-> {"s", "t"}], [x |-> {}, y |-> {"t"}]},
          written \in {{}, {"x"}},
          es \in {{}, Edges} \cup {{e} : e \in Edges}
               \cup {{e, Edge("reads-field", "none", "indeterminate", "t")} : e \in Edges}}
=============================================================================
