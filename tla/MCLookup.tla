------------------------------ MODULE MCLookup ------------------------------
EXTENDS Lookup, TLC

E(name, node) == [name |-> name, node |-> node]

\* The root disk: directories a and d, a file in each block of a.  devfs: two
\* devices and a directory that is empty.
MCTree == "R" :> <<<<E(<<"z">>, "z"), E(<<"a">>, "A")>>, <<E(<<"d">>, "D")>>>>
       @@ "A" :> <<<<E(<<"g">>, "g")>>, <<E(<<"f">>, "f")>>>>
       @@ "D" :> <<>>
       @@ "V" :> <<<<E(<<"t", "0">>, "t0")>>, <<E(<<"t", "1">>, "t1")>>, <<E(<<"e">>, "W")>>>>
       @@ "W" :> <<>>
MCRootOf == [lmfs |-> "R", devfs |-> "V"]
MCFsOf == "R" :> "lmfs" @@ "A" :> "lmfs" @@ "D" :> "lmfs" @@ "V" :> "devfs" @@ "W" :> "devfs"
MCRootMount == [path |-> <<"/">>, fs |-> "lmfs"]
\* Two file systems at one path, a third one below it.
MCMountable == {[path |-> <<"/", "d">>, fs |-> "devfs"], [path |-> <<"/", "d">>, fs |-> "lmfs"],
                [path |-> <<"/", "d", "/", "e">>, fs |-> "lmfs"]}
MCPaths == {<<"/", "d", "/", "t", "1">>, <<"/", "d", "/", "e", "/", "a">>, <<"/", ".", "a", "/", "f">>,
            <<"/", "a", "/", "q", "/", "f">>, <<"/", "d", "q">>, <<"/", "d">>, <<"/", "z", "/", "f">>}
============================================================================
