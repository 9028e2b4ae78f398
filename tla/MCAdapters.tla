---------------------------- MODULE MCAdapters -----------------------------
EXTENDS Adapters
MCKeys == {<<"a">>, <<"a", "b">>}
MCLabels == {<<"c">>, <<"b", "c">>}
MCProcOf == [c1 |-> "p1", c2 |-> "p2"]

Request(op, k, n, l) == [op |-> op, key |-> k, number |-> n, label |-> l]
Plain(op, n) == Request(op, <<"a">>, n, <<"c">>)

\* Two pairs share a name on Redis: "a" with "b:c", and "a:b" with "c".
MCRequests ==
  {Plain(op, 1) : op \in {"init", "getVersion", "maxVersion", "listVersionsDesc",
                          "distinctKeys", "insertVersion"}}
  \cup {Plain("insertVersion", 2),
        Request("getLabel", <<"a">>, 1, <<"b", "c">>),
        Request("upsertLabel", <<"a">>, 1, <<"b", "c">>),
        Request("upsertLabel", <<"a">>, 2, <<"b", "c">>),
        Request("upsertLabel", <<"a", "b">>, 1, <<"c">>),
        Request("upsertLabel", <<"a", "b">>, 1, <<"b", "c">>)}
=============================================================================
