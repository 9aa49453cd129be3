---------------------------- MODULE MCLakehouseSync ----------------------------
(* Command lines and places for TLC.                                           *)
EXTENDS LakehouseSync

CONSTANTS a, b, sub, x, y

MCPaths == {a, b, sub}
MCNested == {sub}
MCContents == {x, y}
\* Contents that differ in length, and contents that do not.
MCSizes == {[c \in MCContents |-> IF c = x THEN 1 ELSE 2], [c \in MCContents |-> 1]}

\* A place that holds f at p for each pair <<p, f>> of S and nothing else.
Place(S) == [p \in MCPaths |->
               IF \E s \in S : s[1] = p THEN (CHOOSE s \in S : s[1] = p)[2] ELSE Absent]
T(c) == [content |-> c, tag |-> "content"]
U(c) == [content |-> c, tag |-> "own"]
N(c) == [content |-> c, tag |-> "none"]
\* Pairs of these are renames, swaps, twins, changed and filtered files.
MCListings == {Place(S) : S \in {{}, {<<a, T(x)>>}, {<<b, T(x)>>, <<sub, T(y)>>},
                                  {<<a, T(x)>>, <<b, T(y)>>}, {<<a, T(y)>>, <<b, T(x)>>},
                                  {<<sub, T(x)>>}, {<<a, U(x)>>, <<b, T(y)>>},
                                  {<<a, N(x)>>, <<b, N(y)>>}, {<<a, N(y)>>, <<sub, T(x)>>},
                                  {<<a, T(x)>>, <<b, T(x)>>, <<sub, U(y)>>}}}

\* A listing that is whole, and one that ends after its first file.
MCPages == {MCPaths, {a}}

Plain == [local |-> FALSE, delete |-> FALSE, strategy |-> "default",
          checksum |-> FALSE, existing |-> FALSE,
          remove |-> FALSE, flat |-> FALSE, keep |-> MCPaths, sizes |-> {1, 2},
          maxDelete |-> 9, md5 |-> TRUE]
Mirror == [Plain EXCEPT !.delete = TRUE]
MCRequests ==
    {[Mirror EXCEPT !.remove = TRUE],
     [Mirror EXCEPT !.checksum = TRUE],
     [Mirror EXCEPT !.checksum = TRUE, !.md5 = FALSE],
     [Mirror EXCEPT !.local = TRUE, !.flat = TRUE],
     [Mirror EXCEPT !.strategy = "size", !.keep = {a, sub}, !.maxDelete = 1],
     [Mirror EXCEPT !.sizes = {1}, !.existing = TRUE, !.maxDelete = 1],
     [Plain EXCEPT !.strategy = "force", !.checksum = TRUE, !.remove = TRUE, !.keep = {a, b}],
     [Plain EXCEPT !.checksum = TRUE, !.local = TRUE, !.remove = TRUE],
     [Plain EXCEPT !.strategy = "no_overwrite", !.local = TRUE, !.remove = TRUE]}
=============================================================================
