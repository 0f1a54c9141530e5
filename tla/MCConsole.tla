----------------------------- MODULE MCConsole -----------------------------
(* Bounds for TLC: two gateways on one host, catalogs that fail, have one    *)
(* page or two, and scripts of one or two statements.                        *)
EXTENDS Console

CONSTANTS e1, e2, e3, host, given, k

AllOnHost == [e \in {e1, e2, e3} |-> host]
OfTwo == <<[api |-> e1, models |-> [id \in {1} |-> [limit |-> 3, levels |-> {3}]]]>>

Page(ids, next) ==
    [models |-> [i \in DOMAIN ids |->
                   [id |-> ids[i], limit |-> IF ids[i] = 2 THEN 1 ELSE 0,
                    levels |-> IF ids[i] = 2 THEN {1} ELSE {}]],
     next |-> next]
SomeAnswers == {<<Page(<<Unset>>, "none")>>, <<Page(<<2, 1>>, "none")>>,
                <<Page(<<1>>, "more"), Page(<<2>>, "none")>>,
                <<Page(<<1>>, "more"), Page(<<1>>, "none")>>}

Set(name, value) == [verb |-> "set", name |-> name, value |-> value]
Do(verb) == [verb |-> verb]
Alias(body) == [verb |-> "alias", body |-> body]
Add(name, endpoint) ==
    [verb |-> "add", name |-> name, endpoint |-> endpoint, key |-> Unset,
     model |-> 0]
Configure(endpoint, key, model) ==
    [verb |-> "configure", endpoint |-> endpoint, key |-> key, model |-> model]
Effort(level) == [verb |-> "effort", level |-> level]
Named(verb, name) == [verb |-> verb, name |-> name]

Exec(trusted) == [verb |-> "exec", trusted |-> trusted]

TheBodies == {<<Do("call")>>, <<Exec(TRUE)>>, <<Set("plain", 1), Do("bind")>>}
TheSource == <<Set("plain", 1), Set("name", given), Do("call")>>

TheScripts ==
    {<<Set("endpoint", e2)>>, <<Set("key", k), Set("plain", 1)>>,
     <<Set("model", 2)>>, <<Set("plain", 1), Set("limit", 1)>>,
     <<Set("plain", 0), Do("unbind"), Do("bad")>>,
     <<Do("bind"), Do("force")>>, <<Do("call"), Set("plain", 0)>>,
     <<Add(given, e1), Set("plain", 1)>>, <<Add(given, e2), Exec(TRUE)>>,
     <<Named("remove", given), Set("plain", 0)>>, <<Named("use", given)>>,
     <<Configure(e1, k, 0)>>, <<Configure(e2, Unset, 2)>>,
     <<[verb |-> "select", model |-> 2]>>, <<Do("refresh")>>, <<Do("show")>>,
     <<Effort(3), Set("plain", 1)>>, <<Do("tool"), Set("plain", 1)>>,
     <<Do("tool")>>, <<Add(given, e3)>>, <<Exec(FALSE), Do("unalias")>>}
     \cup {<<Alias(body), Do("unbind")>> : body \in TheBodies}

=============================================================================
