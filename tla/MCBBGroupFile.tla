--------------------------- MODULE MCBBGroupFile ---------------------------
(* BBGroupFile for TLC: the files of up to two lines from a few that differ *)
(* in what the parser tells apart.                                            *)
EXTENDS BBGroupFile

Lines ==
    {Section("PATHINFO"), Section("SIMILARINFO"), Section("other"), Fields(<<>>),
     Fields(<<Field("none", Empty)>>),
     Fields(<<Field("ID", Word("w"))>>),
     Fields(<<Field("ID", Word("w")), Field("NODESET", <<<<0>>, <<1>>>>)>>),
     Fields(<<Field("GROUPNAME", Word("w")), Field("NODESET", <<<<2, 0>>>>), Field("none", Empty)>>),
     Fields(<<Field("NODESET", <<<<2>>>>)>>),
     Fields(<<Field("NODESET", <<<<0, 1>>>>)>>),
     Fields(<<Field("NODESET", <<<<>>, <<1>>>>)>>)}

MCFiles == UNION {[1 .. n -> Lines] : n \in 0 .. 2}
MCNames == {[blank |-> TRUE, word |-> "w"]}

\* The last one has instances that share a block, as the matcher's answers may
\* (run matcher_overlap); so do two lines of a file.
MCResults == {<<>>, <<<<<<0, 1>>, <<2>>>>>>, <<<<<<1>>, <<2>>>>>>, <<<<<<1, 0>>, <<2, 1>>>>>>}
=============================================================================
