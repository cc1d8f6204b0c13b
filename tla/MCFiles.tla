------------------------------ MODULE MCFiles ------------------------------
(* Small instances of Files for TLC. *)
EXTENDS Files

Dir(n) == [name |-> n, type |-> "DIRECTORY", size |-> 0]
File(n, s) == [name |-> n, type |-> "FILE_TYPE", size |-> s]

\* as shipped, shortened: a directory in a directory, files on either side of
\* it; and one with the sizes that a block or a buffer just holds
MCArchives ==
    {<<Dir(<<"bin", "/">>), File(Bin("ls"), 9), File(Bin("cat"), 8), File(Bin("echo"), 2),
       Dir(<<"etc", "/">>), File(<<"etc", "/", "README">>, 3),
       Dir(<<"etc", "/", "tdir", "/">>), File(<<"etc", "/", "tdir", "/", "test">>, 5),
       File(<<"etc", "/", "test">>, 4), Dir(<<"lib", "/">>)>>,
     <<Dir(<<"etc", "/">>), File(<<"etc", "/", "empty">>, 0),
       File(<<"etc", "/", "README">>, 8), File(<<"etc", "/", "test">>, 6),
       File(<<"etc", "/", "full">>, 12), File(<<"top">>, 1),
       Dir(<<"bin", "/">>), File(Bin("echo"), 4), File(Bin("cat"), 3), File(Bin("ls"), 5)>>}

MCLines ==
    {<<<<"cd">>>>, <<<<"cd">>, <<"..">>>>, <<<<"cd">>, <<"etc", "/">>>>,
     <<<<"cd">>, <<"tdir", "/">>>>, <<<<"cd">>, <<"etc", "/", "test">>>>,
     <<<<"help">>>>,
     <<<<"ls">>>>, <<<<"/", "bin", "/", "ls">>, <<"etc", "/">>>>, <<<<"ls">>, <<>>, <<"etc", "/">>>>,
     <<<<"ls">>, <<"none", "/">>>>, <<<<"cat">>>>, <<<<"cat">>, <<"test">>>>, <<<<"cat">>, <<"full">>>>,
     <<<<"cat">>, <<"empty">>, <<"test">>>>, <<<<"cat">>, <<"/", "bin", "/", "ls">>>>,
     <<<<"echo">>, <<"one">>, <<"ls">>>>, <<<<"echo">>, <<"1">>, <<"2">>, <<"3">>, <<"4">>>>}
=============================================================================
