----------------------------- MODULE MCSUSEConnect -----------------------------
EXTENDS SUSEConnect

\* A tree with a module that is offered twice, below the base and below a module.
MCExtensions ==
    [p \in {"base", "mod", "sdk"} |->
        CASE p = "base" -> <<"mod", "sdk">> [] p = "mod" -> <<"sdk">> [] p = "sdk" -> <<>>]

\* vim is in two modules, and in a repository in two versions.
MCCatalog  == <<[name |-> "vim", modules |-> <<"mod", "sdk">>],
                [name |-> "vim-data", modules |-> <<"mod">>]>>
MCIndex    == [r \in {"@System", "local"} |->
                IF r = "local" THEN <<"vim", "gvim", "vim">> ELSE <<"vim-data">>]
MCWithin   == {"vim", "vim-data", "gvim"} \X {"vim"} \cup {<<"vim-data", "vim-data">>}
MCPatterns == {<<"vim">>, <<"vim", "vim-data">>}

On1      == [cmd |-> "register", url |-> "", language |-> "", agree |-> "unset",
             product |-> "", token |-> TRUE, instanceData |-> FALSE, write |-> FALSE,
             json |-> FALSE, labels |-> FALSE, root |-> FALSE, fs |-> "rw", suma |-> FALSE]
Plain(c) == [On1 EXCEPT !.cmd = c]

\* The commands on a system that moves between servers.
Moving == {Plain("register"), Plain("deregister"), Plain("cleanup"), Plain("status"),
           [On1 EXCEPT !.url = "rmt"], [On1 EXCEPT !.url = "glue", !.language = "de"],
           [Plain("status") EXCEPT !.url = "rmt"],
           [On1 EXCEPT !.product = "sdk", !.write = TRUE, !.agree = "yes"],
           [Plain("deregister") EXCEPT !.product = "mod", !.write = TRUE, !.agree = "no"],
           [Plain("list") EXCEPT !.fs = "ro", !.url = "rmt"], [Plain("cleanup") EXCEPT !.url = "scc"]}

\* Those that are refused, or do less than they seem to.
Refusals == {Plain("register"), [On1 EXCEPT !.url = "bad"], [On1 EXCEPT !.token = FALSE],
             [On1 EXCEPT !.instanceData = TRUE], [On1 EXCEPT !.suma = TRUE],
             [On1 EXCEPT !.fs = "transactional"],
             [On1 EXCEPT !.fs = "transactional", !.root = TRUE, !.labels = TRUE],
             [Plain("cleanup") EXCEPT !.fs = "ro"], [Plain("status") EXCEPT !.json = TRUE],
             [Plain("keepalive") EXCEPT !.suma = TRUE, !.url = "rmt"],
             [Plain("deregister") EXCEPT !.product = "base"], Plain("list")}

WithDocker == {Plain("register"), Plain("deregister"), Plain("cleanup")}
Keepalive  == {Plain("register"), Plain("keepalive")}
MCCommands == Moving \cup Refusals \cup WithDocker \cup Keepalive

Here(url) == [NewConfig EXCEPT !.url = url, !.tracking = TRUE, !.noRefresh = TRUE]
MCPlans ==
    {[commands |-> Moving, files |-> {None, Here("rmt")},
      runs |-> 3, faults |-> 1, hours |-> 0, user |-> FALSE, search |-> FALSE],
     [commands |-> Refusals, files |-> {None, Here("glue"), Here("rmt")},
      runs |-> 2, faults |-> 1, hours |-> 0, user |-> FALSE, search |-> FALSE],
     [commands |-> WithDocker, files |-> {None, Here("glue")},
      runs |-> 4, faults |-> 1, hours |-> 0, user |-> TRUE, search |-> FALSE],
     [commands |-> Keepalive, files |-> {Here("scc")},
      runs |-> 2, faults |-> 2, hours |-> 6, user |-> FALSE, search |-> FALSE],
     [commands |-> {Plain("status")}, files |-> {None},
      runs |-> 1, faults |-> 0, hours |-> 0, user |-> FALSE, search |-> TRUE]}
===============================================================================
